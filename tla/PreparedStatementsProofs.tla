---------------------- MODULE PreparedStatementsProofs ----------------------
(***************************************************************************)
(* Every placeholder of a prepared statement is bound to what was written  *)
(* there, for every statement, every object of Args and every run.         *)
(*                                                                         *)
(* What one rendering leaves behind (Handed) is shown leaf by leaf for     *)
(* the Query that is handed down; prepare() keeps it with the names of its *)
(* own time, which no later prepare() touches, and run() reads it (Inv).   *)
(***************************************************************************)
EXTENDS PreparedStatements, NaturalsInduction, WellFoundedInduction, TLAPS

------------------------------------------------------------------------------
(* Numbers: the smallest and the greatest of a set, and going up.           *)

LEMMA Smallest ==
  ASSUME NEW S, S \subseteq Nat, S # {}
  PROVE  \E x \in S : \A y \in S : x <= y
<1> DEFINE R == {p \in Nat \X Nat : p[1] < p[2]}
<1>1. IsWellFoundedOn(R, Nat)
  BY NatLessThanWellFounded DEF OpToRel
<1>2. PICK x \in S : \A y \in S : ~(<<y, x>> \in R)
  BY <1>1, WFMin
<1>3. ASSUME NEW y \in S
      PROVE  x <= y
  <2>1. x \in Nat /\ y \in Nat /\ ~(y < x)
    BY <1>2
  <2> QED BY <2>1
<1> QED BY <1>3

LEMMA Upwards ==
  ASSUME NEW n \in Nat, NEW T, 0 \in T,
         \A i \in 0..n : i \in T /\ i < n => i + 1 \in T
  PROVE  \A i \in 0..n : i \in T
<1> DEFINE F == {i \in 0..n : i \notin T}
<1> SUFFICES ASSUME F # {}
             PROVE  FALSE
  OBVIOUS
<1>1. F \subseteq Nat
  OBVIOUS
<1>2. PICK x \in F : \A y \in F : x <= y
  BY <1>1, Smallest
<1>3. x \in 0..n /\ x \notin T /\ x # 0
  BY <1>2
<1>4. x - 1 \in 0..n /\ x - 1 < n /\ (x - 1) + 1 = x
  BY <1>3
<1>5. x - 1 \notin F
  BY <1>2, <1>3, <1>4
<1> QED BY <1>3, <1>4, <1>5

LEMMA Greatest ==
  ASSUME NEW n \in Nat, NEW S, S \subseteq 1..n, S # {}
  PROVE  \E x \in S : \A y \in S : y <= x
<1> DEFINE U == {n - y : y \in S}
<1>1. U \subseteq Nat
  OBVIOUS
<1>0. U # {}
  <2>1. PICK y \in S : TRUE
    OBVIOUS
  <2> QED BY <2>1
<1>2. PICK u \in U : \A v \in U : u <= v
  BY <1>0, <1>1, Smallest
<1>3. PICK x \in S : u = n - x
  OBVIOUS
<1>4. ASSUME NEW y \in S
      PROVE  y <= x
  <2>1. n - x <= n - y
    BY <1>2, <1>3
  <2> QED BY <2>1
<1> QED BY <1>4

------------------------------------------------------------------------------
(* The names: the last key that holds an Arg is a key, and holds it.        *)
LEMMA NamedByItsKey ==
  ASSUME NEW args \in Given, NEW a, Holding(args, a) # {}
  PROVE  /\ LastName(args, a) \in DOMAIN args /\ args[LastName(args, a)] = a
         /\ LastName(args, a) # ""
<1>0. Names \in Seq(ToSet(Names))
  BY NamesAssumption
<1>1. DOMAIN Names = 1..Len(Names) /\ Len(Names) \in Nat
  BY <1>0
<1>2. Holding(args, a) \subseteq 1..Len(Names)
  BY <1>1 DEF Holding
<1>3. PICK x \in Holding(args, a) : \A y \in Holding(args, a) : y <= x
  BY <1>1, <1>2, Greatest
<1> DEFINE i == CHOOSE j \in Holding(args, a) : \A y \in Holding(args, a) : y <= j
<1>4. i \in Holding(args, a)
  BY <1>3
<1>5. LastName(args, a) = Names[i]
  BY DEF LastName
<1> HIDE DEF i
<1>6. i \in DOMAIN Names /\ Names[i] \in DOMAIN args /\ args[Names[i]] = a
  BY <1>4 DEF Holding
<1>7. Names[i] # ""
  BY <1>6, NamesAssumption DEF ToSet
<1> QED BY <1>5, <1>6, <1>7

LEMMA KeysHold ==
  ASSUME NEW args \in Given, NEW k \in DOMAIN args
  PROVE  args[k] \in Args /\ Holding(args, args[k]) # {}
<1>1. k \in ToSet(Names) /\ args[k] \in Args
  BY GivenAssumption
<1>2. PICK i \in DOMAIN Names : Names[i] = k
  BY <1>1 DEF ToSet
<1>3. i \in Holding(args, args[k])
  BY <1>2 DEF Holding
<1> QED BY <1>1, <1>3

------------------------------------------------------------------------------
(* Rendering.                                                               *)

Keyed(name) == [key |-> name, column |-> "", at |-> 0]
Generated(column) == [key |-> "", column |-> column, at |-> 0]

LEMMA SlotFields ==
  ASSUME NEW x
  PROVE  /\ Keyed(x).key = x /\ Keyed(x).column = "" /\ Keyed(x).at = 0
         /\ Generated(x).key = "" /\ Generated(x).column = x /\ Generated(x).at = 0
BY DEF Keyed, Generated

LeafNames(s) == {s.leaves[i].name : i \in DOMAIN s.leaves}
Slots(s, args) ==
  {Keyed(k) : k \in DOMAIN args} \cup {Generated(c) : c \in LeafNames(s)}
Words(s) ==
  {Word(t) : t \in LeafNames(s) \cup {"DEFAULT", "literal"}}
  \cup {Placeholder(n, kind, x) : n \in Nat, kind \in {"arg", "generated"}, x \in LeafNames(s)}

(* What placeholder n of a word is bound to: the key its Arg goes by, or    *)
(* the column to generate.                                                  *)
BoundTo(args, word, slot) ==
  \/ /\ word.kind = "arg" /\ word.name \in DOMAIN args
     /\ slot = Keyed(LastName(args, args[word.name]))
  \/ word.kind = "generated" /\ slot = Generated(word.name)

Bound(args, slots, text) ==
  \A i \in DOMAIN text : text[i].n # 0 =>
    text[i].n \in DOMAIN slots /\ BoundTo(args, text[i], slots[text[i].n])

Used(slots, text) == \A n \in DOMAIN slots : \E i \in DOMAIN text : text[i].n = n

Numbered(args, indices, slots) ==
  \A a \in Args : indices[a] # 0 => slots[indices[a]] = Keyed(LastName(args, a))

QueryWith(args, keys, isPrepared, indices, slots, text) ==
  [args |-> args, keys |-> keys, isPrepared |-> isPrepared,
   indices |-> indices, slots |-> slots, text |-> text]
QueryOf(args, keys, indices, slots, text) ==
  QueryWith(args, keys, TRUE, indices, slots, text)

(* A Query on its way through statement s.                                  *)
Handed(q, s, args, keys) ==
  /\ q = QueryOf(args, keys, q.indices, q.slots, q.text)
  /\ q.indices \in [Args -> 0..Len(q.slots)]
  /\ q.slots \in Seq(Slots(s, args)) /\ q.text \in Seq(Words(s))
  /\ Numbered(args, q.indices, q.slots)
  /\ Bound(args, q.slots, q.text)
  /\ Used(q.slots, q.text)

Named(args, keys) == \A a \in Args : Holding(args, a) # {} => keys[a] = LastName(args, a)

LEMMA FieldUpdates ==
  ASSUME NEW args, NEW keys, NEW indices, NEW slots, NEW text, NEW isPrepared, NEW q,
         q = QueryWith(args, keys, isPrepared, indices, slots, text)
  PROVE  /\ q.args = args /\ q.keys = keys /\ q.isPrepared = isPrepared /\ q.indices = indices
         /\ q.slots = slots /\ q.text = text
         /\ \A word : Put(q, word) = QueryWith(args, keys, isPrepared, indices, slots, Append(text, word))
         /\ \A slot : AllocateSlot(q, slot) = QueryWith(args, keys, isPrepared, indices, Append(slots, slot), text)
         /\ \A i : [q EXCEPT !.indices = i] = QueryWith(args, keys, isPrepared, i, slots, text)
<1>1. /\ q.args = args /\ q.keys = keys /\ q.isPrepared = isPrepared
      /\ q.indices = indices /\ q.slots = slots /\ q.text = text
  BY DEF QueryWith
<1>2. ASSUME NEW word
      PROVE  Put(QueryWith(args, keys, isPrepared, indices, slots, text), word)
               = QueryWith(args, keys, isPrepared, indices, slots, Append(text, word))
  BY DEF QueryWith, Put
<1>3. ASSUME NEW slot
      PROVE  AllocateSlot(QueryWith(args, keys, isPrepared, indices, slots, text), slot)
               = QueryWith(args, keys, isPrepared, indices, Append(slots, slot), text)
  BY DEF QueryWith, AllocateSlot
<1>4. ASSUME NEW i
      PROVE  [q EXCEPT !.indices = i] = QueryWith(args, keys, isPrepared, i, slots, text)
  BY DEF QueryWith
<1> QED BY <1>1, <1>2, <1>3, <1>4

LEMMA QueryUpdates ==
  ASSUME NEW args, NEW keys, NEW indices, NEW slots, NEW text, NEW q,
         q = QueryOf(args, keys, indices, slots, text)
  PROVE  /\ q.args = args /\ q.keys = keys /\ q.isPrepared /\ q.indices = indices
         /\ q.slots = slots /\ q.text = text
         /\ \A word : Put(q, word) = QueryOf(args, keys, indices, slots, Append(text, word))
         /\ \A slot : AllocateSlot(q, slot) = QueryOf(args, keys, indices, Append(slots, slot), text)
         /\ \A i : [q EXCEPT !.indices = i] = QueryOf(args, keys, i, slots, text)
<1> DEFINE yes == TRUE
<1>1. q = QueryWith(args, keys, yes, indices, slots, text)
  BY DEF QueryOf
<1>2. \A i, x, t : QueryWith(args, keys, yes, i, x, t) = QueryOf(args, keys, i, x, t)
  BY DEF QueryOf
<1>3. yes
  OBVIOUS
<1> HIDE DEF yes
<1>4. /\ q.args = args /\ q.keys = keys /\ q.isPrepared = yes /\ q.indices = indices
      /\ q.slots = slots /\ q.text = text
      /\ \A word : Put(q, word) = QueryWith(args, keys, yes, indices, slots, Append(text, word))
      /\ \A slot : AllocateSlot(q, slot)
                   = QueryWith(args, keys, yes, indices, Append(slots, slot), text)
      /\ \A i : [q EXCEPT !.indices = i] = QueryWith(args, keys, yes, i, slots, text)
  BY <1>1, FieldUpdates
<1>5. q.isPrepared
  BY <1>3, <1>4, Zenon
<1>6. \A i : [q EXCEPT !.indices = i] = QueryOf(args, keys, i, slots, text)
  BY <1>2, <1>4
<1>7. /\ \A word : Put(q, word) = QueryOf(args, keys, indices, slots, Append(text, word))
      /\ \A slot : AllocateSlot(q, slot)
                   = QueryOf(args, keys, indices, Append(slots, slot), text)
  BY <1>2, <1>4
<1> QED BY <1>4, <1>5, <1>6, <1>7, Zenon

(* A word that opens no slot.                                               *)
LEMMA PutWord ==
  ASSUME NEW s, NEW args, NEW keys, NEW q, Handed(q, s, args, keys),
         NEW word \in Words(s),
         word.n = 0 \/ (word.n \in DOMAIN q.slots /\ BoundTo(args, word, q.slots[word.n]))
  PROVE  Handed(Put(q, word), s, args, keys)
<1> DEFINE r == Put(q, word)
           text == Append(q.text, word)
<1>1. /\ q.indices \in [Args -> 0..Len(q.slots)] /\ q.slots \in Seq(Slots(s, args))
      /\ q.text \in Seq(Words(s))
  BY DEF Handed
<1>2. r = QueryOf(args, keys, q.indices, q.slots, text)
  <2>1. q = QueryOf(args, keys, q.indices, q.slots, q.text)
    BY DEF Handed
  <2> QED BY <2>1, QueryUpdates
<1> HIDE DEF text, r
<1>3. r.indices = q.indices /\ r.slots = q.slots /\ r.text = text
  BY <1>2, QueryUpdates
<1>4. /\ text \in Seq(Words(s)) /\ DOMAIN text = 1..Len(q.text) + 1
      /\ DOMAIN q.text = 1..Len(q.text) /\ Len(q.text) \in Nat
      /\ \A i \in DOMAIN q.text : text[i] = q.text[i]
      /\ text[Len(q.text) + 1] = word
  BY <1>1 DEF text
<1>5. Bound(args, q.slots, text)
  <2>1. Bound(args, q.slots, q.text)
    BY DEF Handed
  <2> SUFFICES ASSUME NEW i \in DOMAIN text, text[i].n # 0
               PROVE  text[i].n \in DOMAIN q.slots /\ BoundTo(args, text[i], q.slots[text[i].n])
    BY DEF Bound
  <2>2. CASE i \in DOMAIN q.text
    BY <1>4, <2>1, <2>2 DEF Bound
  <2>3. CASE i = Len(q.text) + 1
    BY <1>4, <2>3
  <2> QED BY <1>4, <2>2, <2>3
<1>6. Used(q.slots, text)
  <2>1. Used(q.slots, q.text)
    BY DEF Handed
  <2> QED BY <1>4, <2>1 DEF Used
<1> QED BY <1>1, <1>2, <1>3, <1>4, <1>5, <1>6 DEF Handed, r

(* A word that opens the next slot, for Arg a if any (only indices[a] may   *)
(* change).                                                                 *)
LEMMA PutNew ==
  ASSUME NEW s, NEW args, NEW keys, NEW q, Handed(q, s, args, keys),
         NEW indices, NEW slot \in Slots(s, args), NEW word \in Words(s),
         word.n = Len(q.slots) + 1, BoundTo(args, word, slot),
         indices \in [Args -> 0..Len(q.slots) + 1],
         \A a \in Args : indices[a] = q.indices[a]
                         \/ (indices[a] = Len(q.slots) + 1 /\ slot = Keyed(LastName(args, a))),
         NEW r,
         r = QueryOf(args, keys, indices, Append(q.slots, slot), Append(q.text, word))
  PROVE  Handed(r, s, args, keys)
<1> DEFINE text == Append(q.text, word)
           slots == Append(q.slots, slot)
<1>1. /\ q.indices \in [Args -> 0..Len(q.slots)] /\ q.slots \in Seq(Slots(s, args))
      /\ q.text \in Seq(Words(s))
  BY DEF Handed
<1>0. r = QueryOf(args, keys, indices, slots, text)
  OBVIOUS
<1> HIDE DEF text, slots
<1>2. r.indices = indices /\ r.slots = slots /\ r.text = text
  BY <1>0, QueryUpdates
<1>3. /\ text \in Seq(Words(s)) /\ DOMAIN text = 1..Len(q.text) + 1
      /\ DOMAIN q.text = 1..Len(q.text) /\ Len(q.text) \in Nat
      /\ \A i \in DOMAIN q.text : text[i] = q.text[i]
      /\ text[Len(q.text) + 1] = word
  BY <1>1 DEF text
<1>4. /\ slots \in Seq(Slots(s, args)) /\ DOMAIN slots = 1..Len(q.slots) + 1
      /\ DOMAIN q.slots = 1..Len(q.slots) /\ Len(q.slots) \in Nat
      /\ Len(slots) = Len(q.slots) + 1
      /\ \A i \in DOMAIN q.slots : slots[i] = q.slots[i]
      /\ slots[Len(q.slots) + 1] = slot
  BY <1>1 DEF slots
<1>5. r = QueryOf(args, keys, r.indices, r.slots, r.text)
  BY <1>0, <1>2
<1>6. Bound(args, slots, text)
  <2>1. Bound(args, q.slots, q.text)
    BY DEF Handed
  <2> SUFFICES ASSUME NEW i \in DOMAIN text, text[i].n # 0
               PROVE  text[i].n \in DOMAIN slots /\ BoundTo(args, text[i], slots[text[i].n])
    BY DEF Bound
  <2>2. CASE i \in DOMAIN q.text
    <3>1. /\ text[i] = q.text[i] /\ q.text[i].n \in DOMAIN q.slots
          /\ BoundTo(args, q.text[i], q.slots[q.text[i].n])
      BY <1>3, <2>1, <2>2 DEF Bound
    <3> QED BY <1>4, <3>1
  <2>3. CASE i = Len(q.text) + 1
    <3>1. text[i] = word
      BY <1>3, <2>3
    <3> QED BY <1>4, <3>1
  <2> QED BY <1>3, <2>2, <2>3
<1>7. Used(slots, text)
  <2>1. Used(q.slots, q.text)
    BY DEF Handed
  <2> SUFFICES ASSUME NEW n \in DOMAIN slots
               PROVE  \E i \in DOMAIN text : text[i].n = n
    BY DEF Used
  <2>2. CASE n \in DOMAIN q.slots
    <3>1. PICK i \in DOMAIN q.text : q.text[i].n = n
      BY <2>1, <2>2 DEF Used
    <3>2. i \in DOMAIN text /\ text[i].n = n
      BY <1>3, <3>1
    <3> QED BY <3>2
  <2>3. CASE n = Len(q.slots) + 1
    <3>1. Len(q.text) + 1 \in DOMAIN text /\ text[Len(q.text) + 1].n = n
      BY <1>3, <2>3
    <3> QED BY <3>1
  <2> QED BY <1>4, <2>2, <2>3
<1>8. Numbered(args, indices, slots)
  <2>1. Numbered(args, q.indices, q.slots)
    BY DEF Handed
  <2> SUFFICES ASSUME NEW a \in Args, indices[a] # 0
               PROVE  slots[indices[a]] = Keyed(LastName(args, a))
    BY DEF Numbered
  <2>2. CASE indices[a] = q.indices[a]
    <3>1. q.indices[a] \in DOMAIN q.slots
      BY <1>1, <1>4, <2>2
    <3> QED BY <1>4, <2>1, <2>2, <3>1 DEF Numbered
  <2>3. CASE indices[a] = Len(q.slots) + 1 /\ slot = Keyed(LastName(args, a))
    BY <1>4, <2>3
  <2> QED BY <2>2, <2>3
<1>9. r.indices \in [Args -> 0..Len(r.slots)]
  BY <1>2, <1>4
<1> QED BY <1>2, <1>3, <1>4, <1>5, <1>6, <1>7, <1>8, <1>9 DEF Handed

LEMMA WordOf ==
  ASSUME NEW s, NEW i \in DOMAIN s.leaves
  PROVE  /\ Word(s.leaves[i].name) \in Words(s)
         /\ Word("DEFAULT") \in Words(s) /\ Word("literal") \in Words(s)
         /\ \A n \in Nat : /\ Placeholder(n, "arg", s.leaves[i].name) \in Words(s)
                           /\ Placeholder(n, "generated", s.leaves[i].name) \in Words(s)
BY DEF Words, LeafNames

LEMMA WriteHands ==
  ASSUME NEW s \in Preparable, NEW args \in Given, NEW keys, Named(args, keys),
         NEW q, Handed(q, s, args, keys), NEW i \in DOMAIN s.leaves
  PROVE  Handed(Write(q, s.leaves[i]), s, args, keys)
<1> DEFINE leaf == s.leaves[i]
           n == Len(q.slots) + 1
<1>1. /\ q.args = args /\ q.keys = keys /\ q.isPrepared
      /\ q = QueryOf(args, keys, q.indices, q.slots, q.text)
      /\ q.indices \in [Args -> 0..Len(q.slots)]
      /\ q.slots \in Seq(Slots(s, args))
      /\ Numbered(args, q.indices, q.slots)
  <2>1. q = QueryOf(args, keys, q.indices, q.slots, q.text)
    BY DEF Handed
  <2>2. q.args = args /\ q.keys = keys /\ q.isPrepared
    BY <2>1, QueryUpdates
  <2> QED BY <2>1, <2>2 DEF Handed
<1>2. /\ Len(q.slots) \in Nat /\ n \in Nat /\ DOMAIN q.slots = 1..Len(q.slots)
  BY <1>1
<1>3. CASE leaf.k = "arg"
  <2> DEFINE a == args[leaf.name]
             word == Placeholder(q.indices[a], "arg", leaf.name)
             new == Placeholder(n, "arg", leaf.name)
  <2>1. leaf.name \in DOMAIN args
    BY <1>3, PreparableAssumption
  <2>2. a \in Args /\ Holding(args, a) # {}
    BY <2>1, KeysHold
  <2>3. /\ keys[a] = LastName(args, a) /\ LastName(args, a) \in DOMAIN args
    BY <2>2, NamedByItsKey DEF Named
  <2>4. Write(q, leaf) = AddArg(q, leaf.name)
    BY <1>3 DEF Write
  <2>5. CASE q.indices[a] # 0
    <3>1. Write(q, leaf) = Put(q, word)
      BY <1>1, <2>4, <2>5 DEF AddArg
    <3>2. q.indices[a] \in DOMAIN q.slots /\ q.indices[a] \in Nat
      BY <1>1, <1>2, <2>2, <2>5
    <3>3. q.slots[q.indices[a]] = Keyed(LastName(args, a))
      BY <1>1, <2>2, <2>5 DEF Numbered
    <3>4. word \in Words(s)
      BY <3>2, WordOf
    <3>5. word.n = q.indices[a] /\ word.kind = "arg" /\ word.name = leaf.name
      BY DEF Placeholder
    <3>6. BoundTo(args, word, q.slots[word.n])
      BY <2>1, <3>3, <3>5 DEF BoundTo
    <3> HIDE DEF word
    <3> QED BY <3>1, <3>2, <3>4, <3>5, <3>6, PutWord
  <2>6. CASE q.indices[a] = 0
    <3> DEFINE slot == Keyed(LastName(args, a))
               indices == [q.indices EXCEPT ![a] = n]
    <3>1. Write(q, leaf) = QueryOf(args, keys, indices, Append(q.slots, slot), Append(q.text, new))
      <4>1. Write(q, leaf) = AddArgAnew(q, leaf.name)
        BY <1>1, <2>4, <2>6 DEF AddArg
      <4>2. AddArgAnew(q, leaf.name) =
              Put(AllocateSlot([q EXCEPT !.indices[a] = n], slot), new)
        BY <1>1, <2>3 DEF AddArgAnew, Keyed
      <4>3. [q EXCEPT !.indices[a] = n] = QueryOf(args, keys, indices, q.slots, q.text)
        <5>1. q = QueryOf(args, keys, q.indices, q.slots, q.text)
          BY <1>1
        <5>2. [q EXCEPT !.indices[a] = n] = [q EXCEPT !.indices = indices]
          OBVIOUS
        <5> HIDE DEF indices
        <5>3. [q EXCEPT !.indices = indices] = QueryOf(args, keys, indices, q.slots, q.text)
          BY <5>1, QueryUpdates
        <5> QED BY <5>2, <5>3
      <4> HIDE DEF slot, new, indices
      <4>4. AllocateSlot([q EXCEPT !.indices[a] = n], slot)
              = QueryOf(args, keys, indices, Append(q.slots, slot), q.text)
        BY <4>3, QueryUpdates
      <4> QED BY <4>1, <4>2, <4>4, QueryUpdates
    <3>2. slot \in Slots(s, args)
      BY <2>3 DEF Slots
    <3>3. new \in Words(s)
      BY <1>2, WordOf
    <3>4. new.n = n /\ new.kind = "arg" /\ new.name = leaf.name
      BY DEF Placeholder
    <3>5. BoundTo(args, new, slot)
      BY <2>1, <3>4 DEF BoundTo
    <3> HIDE DEF slot, new
    <3>6. indices \in [Args -> 0..n]
      <4>1. q.indices \in [Args -> 0..n] /\ n \in 0..n
        BY <1>1, <1>2
      <4> HIDE DEF n
      <4> QED BY <4>1
    <3>7. \A b \in Args : indices[b] = q.indices[b] \/ (indices[b] = n /\ slot = Keyed(LastName(args, b)))
      <4>1. SUFFICES ASSUME NEW b \in Args
                     PROVE  indices[b] = q.indices[b] \/ (indices[b] = n /\ b = a)
        BY DEF slot
      <4>2. q.indices \in [Args -> 0..Len(q.slots)]
        BY <1>1
      <4> HIDE DEF n
      <4> QED BY <4>2
    <3> HIDE DEF slot, new, indices
    <3> QED BY <3>1, <3>2, <3>3, <3>4, <3>5, <3>6, <3>7, PutNew
  <2> QED BY <2>5, <2>6
<1>4. CASE leaf.k = "none"
  <2> DEFINE new == Placeholder(n, "generated", leaf.name)
             slot == Generated(leaf.name)
  <2>1. Write(q, leaf) = Omitted(q, leaf)
    BY <1>4 DEF Write
  <2>2. CASE ~leaf.generated
    <3>1. Write(q, leaf) = Put(q, Word("DEFAULT"))
      BY <2>1, <2>2 DEF Omitted
    <3>2. Word("DEFAULT") \in Words(s) /\ Word("DEFAULT").n = 0
      BY WordOf DEF Word
    <3> QED BY <3>1, <3>2, PutWord
  <2>3. CASE leaf.generated
    <3>1. Write(q, leaf) = AddDeferredArg(q, leaf.name)
      BY <1>1, <2>1, <2>3 DEF Omitted
    <3>2. AddDeferredArg(q, leaf.name) = Put(AllocateSlot(q, slot), new)
      BY DEF AddDeferredArg, Generated
    <3>3. Write(q, leaf) = QueryOf(args, keys, q.indices, Append(q.slots, slot), Append(q.text, new))
      <4> HIDE DEF slot, new
      <4>1. AllocateSlot(q, slot)
              = QueryOf(args, keys, q.indices, Append(q.slots, slot), q.text)
        BY <1>1, QueryUpdates
      <4> QED BY <3>1, <3>2, <4>1, QueryUpdates
    <3>4. slot \in Slots(s, args)
      BY DEF Slots, LeafNames
    <3>5. new \in Words(s)
      BY <1>2, WordOf
    <3>6. new.n = n /\ new.kind = "generated" /\ new.name = leaf.name
      BY DEF Placeholder
    <3>7. BoundTo(args, new, slot)
      BY <3>6 DEF BoundTo
    <3>8. q.indices \in [Args -> 0..n]
      BY <1>1, <1>2
    <3> DEFINE indices == q.indices
    <3>9. \A b \in Args : indices[b] = q.indices[b] \/ (indices[b] = n /\ slot = Keyed(LastName(args, b)))
      OBVIOUS
    <3>10. indices \in [Args -> 0..n]
      BY <3>8
    <3>11. Write(q, leaf) = QueryOf(args, keys, indices, Append(q.slots, slot), Append(q.text, new))
      BY <3>3
    <3> HIDE DEF slot, new, indices
    <3> QED BY <3>4, <3>5, <3>6, <3>7, <3>9, <3>10, <3>11, PutNew
  <2> QED BY <2>2, <2>3
<1>5. CASE leaf.k = "col"
  <2>1. Write(q, leaf) = Put(q, Word(leaf.name))
    BY <1>5 DEF Write
  <2>2. Word(leaf.name) \in Words(s) /\ Word(leaf.name).n = 0
    BY WordOf DEF Word
  <2> QED BY <2>1, <2>2, PutWord
<1>6. CASE leaf.k \notin {"arg", "none", "col"}
  <2>1. Write(q, leaf) = Put(q, Word("literal"))
    BY <1>6 DEF Write
  <2>2. Word("literal") \in Words(s) /\ Word("literal").n = 0
    BY WordOf DEF Word
  <2> QED BY <2>1, <2>2, PutWord
<1> QED BY <1>3, <1>4, <1>5, <1>6

LEMMA NewIsHanded ==
  ASSUME NEW s, NEW args, NEW keys
  PROVE  Handed(NewQuery(args, keys, TRUE), s, args, keys)
<1> DEFINE q == NewQuery(args, keys, TRUE)
<1>1. q = QueryOf(args, keys, [a \in Args |-> 0], <<>>, <<>>)
  BY DEF NewQuery, QueryOf, QueryWith
<1> HIDE DEF q
<1>2. q.indices = [a \in Args |-> 0] /\ q.slots = <<>> /\ q.text = <<>>
  BY <1>1, QueryUpdates
<1>3. q = QueryOf(args, keys, q.indices, q.slots, q.text)
  BY <1>1, <1>2
<1>4. q.indices \in [Args -> 0..Len(q.slots)]
  BY <1>2
<1>5. q.slots \in Seq(Slots(s, args)) /\ q.text \in Seq(Words(s))
  BY <1>2
<1>6. Numbered(args, q.indices, q.slots)
  BY <1>2 DEF Numbered
<1>7. DOMAIN q.text = {} /\ DOMAIN q.slots = {}
  BY <1>2
<1>8. Bound(args, q.slots, q.text) /\ Used(q.slots, q.text)
  BY <1>7 DEF Bound, Used
<1> QED BY <1>3, <1>4, <1>5, <1>6, <1>8 DEF Handed, q

NextQuery(s, args, keys, g, i) ==
  IF i = 0 THEN NewQuery(args, keys, TRUE) ELSE Write(g[i - 1], s.leaves[i])

(* A statement that was rendered leaf by leaf.                              *)
LEMMA ToQueryHands ==
  ASSUME NEW s \in Preparable, NEW args \in Given, NEW keys, Named(args, keys)
  PROVE  Handed(ToQuery(s, args, keys, TRUE), s, args, keys)
<1> DEFINE n0 == Len(s.leaves)
           new == NewQuery(args, keys, TRUE)
           Fits(n, g) == g = [i \in 0..n |-> NextQuery(s, args, keys, g, i)]
           T == {n \in 0..n0 : \E g : Fits(n, g)}
<1>0. n0 \in Nat /\ DOMAIN s.leaves = 1..n0
  BY PreparableAssumption
<1> HIDE DEF n0
<1>1. 0 \in T
  <2>1. Fits(0, [i \in 0..0 |-> new])
    BY DEF NextQuery
  <2> HIDE DEF Fits
  <2> QED BY <1>0, <2>1
<1>2. ASSUME NEW n \in 0..n0, n \in T, n < n0
      PROVE  n + 1 \in T
  <2>1. PICK g : Fits(n, g)
    BY <1>2
  <2> DEFINE h == [i \in 0..n + 1 |-> IF i <= n THEN g[i] ELSE NextQuery(s, args, keys, g, n + 1)]
  <2>2. ASSUME NEW i \in 0..n + 1
        PROVE  h[i] = NextQuery(s, args, keys, h, i)
    <3>1. i = 0 \/ h[i - 1] = g[i - 1]
      BY <1>0
    <3>2. NextQuery(s, args, keys, h, i) = NextQuery(s, args, keys, g, i)
      <4> HIDE DEF h
      <4> QED BY <3>1, Zenon DEF NextQuery
    <3>3. h[i] = NextQuery(s, args, keys, g, i)
      BY <1>0, <2>1
    <3> QED BY <3>2, <3>3
  <2> HIDE DEF h
  <2>3. h = [i \in 0..n + 1 |-> h[i]]
    BY DEF h
  <2>4. Fits(n + 1, h)
    BY <2>2, <2>3
  <2> HIDE DEF Fits
  <2> QED BY <1>0, <1>2, <2>4
<1>3. n0 \in T
  <2> HIDE DEF T
  <2>1. \A n \in 0..n0 : n \in T
    BY <1>0, <1>1, <1>2, Upwards
  <2> QED BY <1>0, <2>1
<1> DEFINE query == CHOOSE g : Fits(n0, g)
<1>4. Fits(n0, query)
  BY <1>3
<1>5. ToQuery(s, args, keys, TRUE) = query[n0]
  BY DEF ToQuery, NextQuery, n0
<1> HIDE DEF query
<1>10. \A i \in 0..n0 : query[i] = NextQuery(s, args, keys, query, i)
  BY <1>4
<1>6. /\ query[0] = NewQuery(args, keys, TRUE)
      /\ \A i \in 1..n0 : query[i] = Write(query[i - 1], s.leaves[i])
  <2>1. 0 \in 0..n0 /\ \A i \in 1..n0 : i \in 0..n0 /\ i # 0
    BY <1>0
  <2> QED BY <1>10, <2>1 DEF NextQuery
<1> DEFINE H == {i \in 0..n0 : Handed(query[i], s, args, keys)}
<1>7. 0 \in H
  <2>1. 0 \in 0..n0
    BY <1>0
  <2>2. Handed(query[0], s, args, keys)
    BY <1>6, NewIsHanded
  <2> QED BY <2>1, <2>2
<1>8. ASSUME NEW i \in 0..n0, i \in H, i < n0
      PROVE  i + 1 \in H
  <2>1. i + 1 \in 1..n0 /\ (i + 1) - 1 = i
    BY <1>0, <1>8
  <2>2. query[i + 1] = Write(query[i], s.leaves[i + 1])
    BY <1>6, <2>1
  <2>3. Handed(query[i], s, args, keys)
    BY <1>8
  <2>4. Handed(query[i + 1], s, args, keys)
    BY <1>0, <2>1, <2>2, <2>3, WriteHands
  <2> QED BY <2>1, <2>4
<1>9. \A i \in 0..n0 : i \in H
  <2> HIDE DEF H
  <2> QED BY <1>0, <1>7, <1>8, Upwards
<1>11. n0 \in 0..n0
  BY <1>0
<1>12. n0 \in H
  BY <1>9, <1>11
<1>13. Handed(query[n0], s, args, keys)
  BY <1>12
<1> QED BY <1>5, <1>13

------------------------------------------------------------------------------
(* Statements that are kept, and the last run.                              *)

Kept(p) ==
  \E s \in Preparable, args \in Given :
    \E keys : Handed(prepared[p].query, s, args, keys)

(* The i-th argument of a run, for a slot.                                  *)
IsBound(bound, slot, values, since, i) ==
  /\ slot.key # "" => bound.column = "" /\ bound.value = values[slot.key]
  /\ slot.key = "" => /\ bound.column = slot.column
                      /\ slot.at = 0 => bound.at = since + i

Ran(run) ==
  LET query == prepared[run.statement].query
  IN  /\ run.statement \in DOMAIN prepared
      /\ run.since \in Nat
      /\ DOMAIN run.arguments = DOMAIN query.slots
      /\ \A i \in DOMAIN query.slots :
           IsBound(run.arguments[i], query.slots[i], run.values, run.since, i)

Inv ==
  /\ prepared \in Seq(ToSet(prepared))
  /\ clock \in Nat
  /\ \A p \in DOMAIN prepared : Kept(p)
  /\ sent.kind = "run" => Ran(sent)

LEMMA InitInv == PreparedInit => Inv
<1> SUFFICES ASSUME PreparedInit
             PROVE  Inv
  OBVIOUS
<1>1. prepared = <<>> /\ clock = 1 /\ sent.kind = "nothing"
  BY DEF PreparedInit, Nothing
<1>2. prepared \in Seq(ToSet(prepared)) /\ DOMAIN prepared = {}
  BY <1>1
<1> QED BY <1>1, <1>2 DEF Inv

(* A longer list of statements keeps those it had.                          *)
LEMMA Appended ==
  ASSUME NEW list, list \in Seq(ToSet(list)), NEW x
  PROVE  /\ Append(list, x) \in Seq(ToSet(Append(list, x)))
         /\ DOMAIN Append(list, x) = DOMAIN list \cup {Len(list) + 1}
         /\ \A i \in DOMAIN list : Append(list, x)[i] = list[i]
         /\ Append(list, x)[Len(list) + 1] = x
<1> DEFINE T == ToSet(list)
           both == T \cup {x}
           more == Append(list, x)
<1>1. list \in Seq(T)
  OBVIOUS
<1> HIDE DEF T
<1>2. list \in Seq(both)
  BY <1>1
<1> HIDE DEF both
<1>3. /\ more \in Seq(both) /\ Len(list) \in Nat /\ Len(more) = Len(list) + 1
      /\ DOMAIN list = 1..Len(list) /\ DOMAIN more = 1..Len(list) + 1
      /\ \A i \in DOMAIN list : more[i] = list[i]
      /\ more[Len(list) + 1] = x
  BY <1>2 DEF both
<1> HIDE DEF more
<1>4. \A i \in DOMAIN more : more[i] \in ToSet(more)
  BY DEF ToSet
<1>5. more \in Seq(ToSet(more))
  BY <1>3, <1>4
<1>6. DOMAIN more = DOMAIN list \cup {Len(list) + 1}
  BY <1>3
<1> QED BY <1>3, <1>5, <1>6 DEF more

LEMMA PrepareInv ==
  ASSUME Inv, NEW s \in Preparable, NEW args \in Given, Prepare(s, args)
  PROVE  Inv'
<1> DEFINE new == [statement |-> s, query |-> ToQuery(s, args, key', TRUE)]
<1>1. /\ key' = Renamed(args) /\ prepared' = Append(prepared, new)
      /\ clock' = clock /\ sent' = sent
  BY DEF Prepare
<1>2. Named(args, key')
  BY <1>1 DEF Named, Renamed
<1>3. Handed(new.query, s, args, key')
  BY <1>2, ToQueryHands
<1> HIDE DEF new
<1>4. /\ prepared' \in Seq(ToSet(prepared'))
      /\ DOMAIN prepared' = DOMAIN prepared \cup {Len(prepared) + 1}
      /\ \A p \in DOMAIN prepared : prepared'[p] = prepared[p]
      /\ prepared'[Len(prepared) + 1] = new
  BY <1>1, Appended DEF Inv
<1>5. ASSUME NEW p \in DOMAIN prepared'
      PROVE  Kept(p)'
  <2>1. CASE p \in DOMAIN prepared
    BY <1>4, <2>1 DEF Inv, Kept
  <2>2. CASE p = Len(prepared) + 1
    BY <1>3, <1>4, <2>2 DEF Kept
  <2> QED BY <1>4, <2>1, <2>2
<1>6. sent'.kind = "run" => Ran(sent)'
  <2> SUFFICES ASSUME sent.kind = "run"
               PROVE  Ran(sent)'
    BY <1>1
  <2>1. Ran(sent) /\ sent.statement \in DOMAIN prepared
    BY DEF Inv, Ran
  <2>2. sent'.statement = sent.statement /\ prepared'[sent.statement] = prepared[sent.statement]
    BY <1>1, <1>4, <2>1
  <2>3. sent'.statement \in DOMAIN prepared'
    BY <1>4, <2>1, <2>2
  <2>4. prepared'[sent'.statement].query = prepared[sent.statement].query
    BY <2>2
  <2> QED BY <1>1, <2>1, <2>3, <2>4, Zenon DEF Ran
<1> QED BY <1>1, <1>4, <1>5, <1>6 DEF Inv

LEMMA RunInv ==
  ASSUME Inv, NEW p \in DOMAIN prepared, NEW values, Run(p, values)
  PROVE  Inv'
<1> DEFINE slots == prepared[p].query.slots
           arguments == [i \in DOMAIN slots |-> Bind(slots[i], values, i)]
<1>1. /\ sent' = [kind |-> "run", statement |-> p, values |-> values, since |-> clock,
                  arguments |-> arguments]
      /\ clock' = clock + Len(slots) /\ prepared' = prepared /\ clock \in Nat
  BY DEF Run, Inv
<1>2. /\ sent'.statement = p /\ sent'.values = values /\ sent'.since = clock
      /\ sent'.arguments = arguments
  BY <1>1
<1>3. Len(slots) \in Nat
  <2>1. PICK s \in Preparable, args \in Given : \E keys : Handed(prepared[p].query, s, args, keys)
    BY DEF Inv, Kept
  <2>2. slots \in Seq(Slots(s, args))
    BY <2>1 DEF Handed
  <2> QED BY <2>2
<1>4. ASSUME NEW i \in DOMAIN slots
      PROVE  IsBound(arguments[i], slots[i], values, clock, i)
  <2> DEFINE slot == slots[i]
             bound == arguments[i]
  <2>1. bound = Bind(slot, values, i)
    OBVIOUS
  <2> HIDE DEF slot, bound
  <2>2. CASE slot.key # ""
    BY <2>1, <2>2 DEF Bind, IsBound
  <2>3. CASE slot.key = ""
    BY <2>1, <2>3 DEF Bind, IsBound
  <2> QED BY <2>2, <2>3 DEF slot, bound
<1>5. DOMAIN arguments = DOMAIN slots
  OBVIOUS
<1> HIDE DEF arguments
<1>6. Ran(sent)'
  BY <1>1, <1>2, <1>4, <1>5 DEF Ran
<1>7. \A r \in DOMAIN prepared' : Kept(r)'
  BY <1>1 DEF Inv, Kept
<1> QED BY <1>1, <1>3, <1>6, <1>7 DEF Inv

LEMMA StepInv == Inv /\ [PreparedNext]_statementVars => Inv'
<1> SUFFICES ASSUME Inv, [PreparedNext]_statementVars
             PROVE  Inv'
  OBVIOUS
<1>1. ASSUME NEW s \in Preparable, NEW args \in Given, Prepare(s, args)
      PROVE  Inv'
  BY <1>1, PrepareInv
<1>2. ASSUME NEW p \in DOMAIN prepared, NEW values, Run(p, values)
      PROVE  Inv'
  BY <1>2, RunInv
<1>3. CASE UNCHANGED statementVars
  BY <1>3 DEF statementVars, Inv, Kept, Ran
<1> QED BY <1>1, <1>2, <1>3 DEF PreparedNext

(* What a placeholder of a run carries, and that no other wrote there.      *)
LEMMA InvBinds == Inv => EveryPlaceholderBound
<1> SUFFICES ASSUME Inv, sent.kind = "run"
             PROVE  EveryPlaceholderBound
  BY DEF EveryPlaceholderBound
<1> DEFINE query == prepared[sent.statement].query
           places == {word \in ToSet(query.text) : word.n # 0}
<1>1. Ran(sent) /\ sent.statement \in DOMAIN prepared
  BY DEF Inv, Ran
<1>2. PICK s \in Preparable, args \in Given : \E keys : Handed(query, s, args, keys)
  BY <1>1 DEF Inv, Kept
<1>3. query.args = args
  BY <1>2, QueryUpdates DEF Handed
<1>4. /\ query.slots \in Seq(Slots(s, args)) /\ query.text \in Seq(Words(s))
      /\ Bound(args, query.slots, query.text) /\ Used(query.slots, query.text)
  BY <1>2 DEF Handed
<1>5. /\ sent.since \in Nat /\ DOMAIN sent.arguments = DOMAIN query.slots
      /\ \A i \in DOMAIN query.slots :
           IsBound(sent.arguments[i], query.slots[i], sent.values, sent.since, i)
  BY <1>1 DEF Ran
<1>6. DOMAIN query.slots = 1..Len(query.slots) /\ Len(query.slots) \in Nat
  BY <1>4
<1> HIDE DEF query
<1>7. ASSUME NEW place \in places
      PROVE  /\ place.n \in DOMAIN query.slots
             /\ BoundTo(args, place, query.slots[place.n])
             /\ place = Placeholder(place.n, place.kind, place.name)
  <2>1. PICK i \in DOMAIN query.text : query.text[i] = place
    BY DEF ToSet
  <2>2. place \in Words(s) /\ place.n # 0
    BY <1>4, <2>1
  <2>3. place = Placeholder(place.n, place.kind, place.name)
    <3>1. \A t : Word(t).n = 0
      BY DEF Word
    <3>2. PICK n \in Nat, kind \in {"arg", "generated"}, x \in LeafNames(s) :
            place = Placeholder(n, kind, x)
      BY <2>2, <3>1 DEF Words
    <3> QED BY <3>2 DEF Placeholder
  <2> QED BY <1>4, <2>1, <2>2, <2>3 DEF Bound
<1>8. ASSUME NEW place \in places, place.kind = "arg"
      PROVE  /\ place.name \in DOMAIN args
             /\ query.slots[place.n] = Keyed(LastName(args, args[place.name]))
             /\ LastName(args, args[place.name]) \in DOMAIN args
             /\ args[LastName(args, args[place.name])] = args[place.name]
             /\ LastName(args, args[place.name]) # ""
  <2>1. /\ place.name \in DOMAIN args
        /\ query.slots[place.n] = Keyed(LastName(args, args[place.name]))
    BY <1>7, <1>8 DEF BoundTo
  <2> QED BY <2>1, KeysHold, NamedByItsKey
<1>9. ASSUME NEW place \in places, place.kind # "arg"
      PROVE  place.kind = "generated" /\ query.slots[place.n] = Generated(place.name)
  BY <1>7, <1>9 DEF BoundTo
<1>10. ASSUME NEW place \in places
       PROVE  WhatWasWritten(place, sent, query.args)
  <2>1. CASE place.kind = "arg"
    <3> DEFINE k == LastName(args, args[place.name])
    <3>1. query.slots[place.n] = Keyed(k) /\ k # "" /\ k \in DOMAIN args
          /\ args[k] = args[place.name]
      BY <1>8, <2>1
    <3> HIDE DEF k
    <3>2. query.slots[place.n].key = k
      BY <3>1, SlotFields, Zenon
    <3>3. /\ sent.arguments[place.n].column = ""
          /\ sent.arguments[place.n].value = sent.values[k]
      BY <1>5, <1>7, <3>1, <3>2 DEF IsBound
    <3> QED BY <1>3, <2>1, <3>1, <3>3 DEF WhatWasWritten
  <2>2. CASE place.kind # "arg"
    <3>1. place.kind = "generated" /\ query.slots[place.n] = Generated(place.name)
      BY <1>9, <2>2
    <3>2. /\ query.slots[place.n].key = "" /\ query.slots[place.n].column = place.name
          /\ query.slots[place.n].at = 0
      <4> DEFINE c == place.name
      <4>1. query.slots[place.n] = Generated(c)
        BY <3>1
      <4> HIDE DEF c
      <4>2. /\ Generated(c).key = "" /\ Generated(c).column = c /\ Generated(c).at = 0
        BY SlotFields, Zenon
      <4> QED BY <4>1, <4>2 DEF c
    <3>3. /\ sent.arguments[place.n].column = place.name
          /\ sent.arguments[place.n].at = sent.since + place.n
      BY <1>5, <1>7, <3>2 DEF IsBound
    <3>4. sent.since + place.n > sent.since
      <4>1. place.n \in 1..Len(query.slots)
        BY <1>6, <1>7
      <4>2. sent.since \in Nat
        BY <1>5
      <4> HIDE DEF places
      <4> QED BY <1>6, <4>1, <4>2
    <3> QED BY <3>1, <3>3, <3>4 DEF WhatWasWritten
  <2> QED BY <2>1, <2>2
<1>11. ASSUME NEW x \in places, NEW y \in places, x.n = y.n, x.kind # "arg"
       PROVE  x = y
  <2>1. x.kind = "generated" /\ query.slots[x.n] = Generated(x.name)
    BY <1>9, <1>11
  <2>2. y.kind # "arg"
    <3> SUFFICES ASSUME y.kind = "arg"
                 PROVE  FALSE
      OBVIOUS
    <3> DEFINE k == LastName(args, args[y.name])
               c == x.name
    <3>1. query.slots[y.n] = Keyed(k) /\ k # ""
      BY <1>8
    <3>2. query.slots[y.n] = Generated(c)
      BY <1>11, <2>1
    <3> HIDE DEF k, c
    <3>3. Keyed(k).key = k /\ Generated(c).key = ""
      BY SlotFields, Zenon
    <3> QED BY <3>1, <3>2, <3>3
  <2>3. y.kind = "generated" /\ query.slots[y.n] = Generated(y.name)
    BY <1>9, <2>2
  <2>4. x.name = y.name
    <3> DEFINE c == x.name
               d == y.name
    <3>1. query.slots[x.n] = Generated(c) /\ query.slots[x.n] = Generated(d)
      BY <1>11, <2>1, <2>3
    <3> HIDE DEF c, d
    <3>2. Generated(c).column = c /\ Generated(d).column = d
      BY SlotFields, Zenon
    <3>3. c = d
      BY <3>1, <3>2
    <3> QED BY <3>3 DEF c, d
  <2>5. x = Placeholder(x.n, x.kind, x.name) /\ y = Placeholder(y.n, y.kind, y.name)
    BY <1>7
  <2> QED BY <1>11, <2>1, <2>3, <2>4, <2>5
<1>12. {place.n : place \in places} = DOMAIN sent.arguments
  <2>1. ASSUME NEW n \in DOMAIN query.slots
        PROVE  \E place \in places : place.n = n
    <3>1. PICK i \in DOMAIN query.text : query.text[i].n = n
      BY <1>4, <2>1 DEF Used
    <3>2. query.text[i] \in places
      BY <1>6, <3>1 DEF ToSet
    <3> QED BY <3>1, <3>2
  <2>2. \A place \in places : place.n \in DOMAIN query.slots
    BY <1>7
  <2>3. DOMAIN sent.arguments = DOMAIN query.slots
    BY <1>5
  <2> HIDE DEF places
  <2> QED BY <2>1, <2>2, <2>3
<1> HIDE DEF places
<1>13. \A x, y \in places : (x.n = y.n /\ x # y) => x.kind = "arg" /\ y.kind = "arg"
  BY <1>11
<1> QED BY <1>10, <1>12, <1>13 DEF EveryPlaceholderBound, places, query

(* Every $N of a run carries what the statement wrote at that place,        *)
(* whatever the statement, the objects of Args and their keys, and however  *)
(* many statements were prepared from the same Arg objects in between.      *)
THEOREM PlaceholdersBound == PreparedSpec => []EveryPlaceholderBound
<1> QED
  BY InitInv, StepInv, InvBinds, PTL DEF PreparedSpec
=============================================================================
