--------------------------- MODULE SnapshotsProofs --------------------------
(***************************************************************************)
(* Proofs about Snapshots, for all schemas that can be written down: where  *)
(* a generated migration leads when it is replayed (GenerateLeads), that    *)
(* this is what the schema says unless generate makes one of its known      *)
(* mistakes (OutcomeExactly), and that nothing is written only where        *)
(* nothing is to be done (NothingWritten).                                  *)
(*                                                                          *)
(* A script is a concatenation of parts; each part leads from one snapshot  *)
(* to the next (Leads), and a part with a statement for each of some items  *)
(* does so one item at a time: what holds when the first n items have been  *)
(* dealt with (First) is stated as a function of n and shown by going up    *)
(* from 0 (Upwards), the only induction there is.                           *)
(***************************************************************************)
EXTENDS Snapshots, FiniteSetTheorems, SequenceTheorems, TLAPS

-----------------------------------------------------------------------------
(* Numbers: the smallest of a set, and going up one at a time.              *)

LEMMA Smallest ==
  ASSUME NEW S, S \subseteq Nat, S # {}
  PROVE  \E x \in S : \A y \in S : x <= y
<1> DEFINE R == {p \in Nat \X Nat : p[1] < p[2]}
<1>1. IsWellFoundedOn(R, Nat)
  BY NatLessThanWellFounded DEF OpToRel
<1>2. PICK x \in S : \A y \in S : ~(<<y, x>> \in R)
  BY <1>1, WFMin
<1>3. ASSUME NEW y \in S
      PROVE  x <= y
  <2>1. x \in Nat /\ y \in Nat /\ ~(y < x)
    BY <1>2
  <2> QED BY <2>1
<1> QED BY <1>3

LEMMA Upwards ==
  ASSUME NEW n \in Nat, NEW T, 0 \in T,
         \A i \in 0..n : i \in T /\ i < n => i + 1 \in T
  PROVE  \A i \in 0..n : i \in T
<1> DEFINE F == {i \in 0..n : i \notin T}
<1> SUFFICES ASSUME F # {}
             PROVE  FALSE
  OBVIOUS
<1>1. F \subseteq Nat
  OBVIOUS
<1>2. PICK x \in F : \A y \in F : x <= y
  BY <1>1, Smallest
<1>3. x \in 0..n /\ x \notin T /\ x # 0
  BY <1>2
<1>4. x - 1 \in 0..n /\ x - 1 < n /\ (x - 1) + 1 = x
  BY <1>3
<1>5. x - 1 \notin F
  BY <1>2, <1>3, <1>4
<1> QED BY <1>3, <1>4, <1>5

-----------------------------------------------------------------------------
(* Sequences, whatever their items are.                                     *)

IsSeq(s) == s \in Seq(ToSet(s))

LEMMA SeqIsFunction ==
  ASSUME NEW s, IsSeq(s)
  PROVE  /\ Len(s) \in Nat /\ DOMAIN s = 1..Len(s)
         /\ s = [i \in 1..Len(s) |-> s[i]]
BY DEF IsSeq

LEMMA FunctionIsSeq ==
  ASSUME NEW n \in Nat, NEW s, s = [i \in 1..n |-> s[i]]
  PROVE  IsSeq(s) /\ Len(s) = n
<1>1. s \in [1..n -> ToSet(s)]
  BY DEF ToSet
<1> QED BY <1>1 DEF IsSeq

LEMMA SeqOfIsSeq ==
  ASSUME NEW S, NEW s \in Seq(S)
  PROVE  IsSeq(s) /\ ToSet(s) \subseteq S
<1>1. Len(s) \in Nat /\ s \in [1..Len(s) -> S]
  OBVIOUS
<1>2. s = [i \in 1..Len(s) |-> s[i]]
  BY <1>1
<1> QED BY <1>1, <1>2, FunctionIsSeq DEF ToSet

LEMMA Concat ==
  ASSUME NEW s, NEW t, IsSeq(s), IsSeq(t)
  PROVE  /\ IsSeq(s \o t) /\ Len(s \o t) = Len(s) + Len(t)
         /\ \A i \in 1..Len(s) : (s \o t)[i] = s[i]
         /\ \A i \in 1..Len(t) : (s \o t)[Len(s) + i] = t[i]
         /\ ToSet(s \o t) = ToSet(s) \cup ToSet(t)
<1> DEFINE S == ToSet(s) \cup ToSet(t)
<1>1. s \in Seq(S) /\ t \in Seq(S)
  BY DEF IsSeq
<1>2. s \o t \in Seq(S) /\ Len(s \o t) = Len(s) + Len(t)
  BY <1>1
<1>3. \A i \in 1..Len(s) : (s \o t)[i] = s[i]
  BY <1>1
<1>4. \A i \in 1..Len(t) : (s \o t)[Len(s) + i] = t[i]
  BY <1>1
<1>5. IsSeq(s \o t)
  <2> HIDE DEF S
  <2> QED BY <1>2, SeqOfIsSeq
<1>6. ASSUME NEW i \in 1..Len(s \o t)
      PROVE  i \in 1..Len(s) \/ (i - Len(s) \in 1..Len(t) /\ i = Len(s) + (i - Len(s)))
  BY <1>1, <1>2
<1>7. ToSet(s \o t) \subseteq S
  <2>1. DOMAIN (s \o t) = 1..Len(s \o t) /\ DOMAIN s = 1..Len(s) /\ DOMAIN t = 1..Len(t)
    BY <1>1, <1>2
  <2> QED BY <1>3, <1>4, <1>6, <2>1 DEF ToSet
<1>8. S \subseteq ToSet(s \o t)
  <2>1. DOMAIN (s \o t) = 1..Len(s \o t) /\ DOMAIN s = 1..Len(s) /\ DOMAIN t = 1..Len(t)
    BY <1>1, <1>2
  <2>2. \A i \in 1..Len(s) : i \in 1..Len(s \o t)
    BY <1>1, <1>2
  <2>3. \A i \in 1..Len(t) : Len(s) + i \in 1..Len(s \o t)
    BY <1>1, <1>2
  <2> QED BY <1>3, <1>4, <2>1, <2>2, <2>3 DEF ToSet
<1> QED BY <1>2, <1>3, <1>4, <1>5, <1>7, <1>8

LEMMA Singleton ==
  ASSUME NEW x
  PROVE  IsSeq(<<x>>) /\ Len(<<x>>) = 1 /\ <<x>>[1] = x /\ ToSet(<<x>>) = {x}
BY DEF IsSeq, ToSet

LEMMA NoItems ==
  IsSeq(<<>>) /\ Len(<<>>) = 0 /\ ToSet(<<>>) = {}
BY DEF IsSeq, ToSet

LEMMA ConcatNothing ==
  ASSUME NEW s, IsSeq(s)
  PROVE  s \o <<>> = s /\ <<>> \o s = s
BY DEF IsSeq

-----------------------------------------------------------------------------
(* FlattenSeq, one sequence after the other.                                *)

Joined(ss) ==
  LET flatten[i \in 1..Len(ss)] ==
        IF i = 1 THEN ss[i] ELSE flatten[i - 1] \o ss[i]
  IN  flatten

Join(ss, g, i) == IF i = 1 THEN ss[i] ELSE g[i - 1] \o ss[i]

LEMMA JoinedDefined ==
  ASSUME NEW ss, Len(ss) \in Nat
  PROVE  \A i \in 1..Len(ss) :
           Joined(ss)[i] = IF i = 1 THEN ss[i] ELSE Joined(ss)[i - 1] \o ss[i]
<1> DEFINE Fits(n, g) == g = [i \in 1..n |-> Join(ss, g, i)]
           T == {n \in 0..Len(ss) : \E g : Fits(n, g)}
<1>1. 0 \in T
  <2>1. Fits(0, [i \in 1..0 |-> Join(ss, <<>>, i)])
    OBVIOUS
  <2> HIDE DEF Fits
  <2> QED BY <2>1
<1>2. ASSUME NEW n \in 0..Len(ss), n \in T, n < Len(ss)
      PROVE  n + 1 \in T
  <2>1. PICK g : Fits(n, g)
    BY <1>2
  <2> DEFINE h == [i \in 1..n + 1 |-> IF i <= n THEN g[i] ELSE Join(ss, g, n + 1)]
  <2>2. ASSUME NEW i \in 1..n + 1
        PROVE  h[i] = Join(ss, h, i)
    <3>1. i = 1 \/ h[i - 1] = g[i - 1]
      OBVIOUS
    <3>2. Join(ss, h, i) = Join(ss, g, i)
      BY <3>1 DEF Join
    <3>3. h[i] = Join(ss, g, i)
      BY <2>1
    <3> QED BY <3>2, <3>3
  <2> HIDE DEF h
  <2>3. h = [i \in 1..n + 1 |-> h[i]]
    BY DEF h
  <2>4. Fits(n + 1, h)
    BY <2>2, <2>3
  <2> HIDE DEF Fits
  <2> QED BY <1>2, <2>4
<1>3. Len(ss) \in T
  <2> HIDE DEF T
  <2>1. \A n \in 0..Len(ss) : n \in T
    BY <1>1, <1>2, Upwards
  <2> QED BY <2>1
<1>4. PICK g : Fits(Len(ss), g)
  BY <1>3
<1>5. Joined(ss) = CHOOSE flatten : Fits(Len(ss), flatten)
  BY DEF Joined, Join
<1>6. Fits(Len(ss), Joined(ss))
  BY <1>4, <1>5
<1> QED BY <1>6 DEF Join

(* The beginnings of a flattened sequence. *)
Beginnings(ss) == [i \in 0..Len(ss) |-> IF i = 0 THEN <<>> ELSE Joined(ss)[i]]

IsSeqOfSeqs(ss) == IsSeq(ss) /\ \A i \in 1..Len(ss) : IsSeq(ss[i])

LEMMA BeginningsGrow ==
  ASSUME NEW ss, IsSeqOfSeqs(ss)
  PROVE  /\ Beginnings(ss)[0] = <<>>
         /\ \A i \in 1..Len(ss) :
              Beginnings(ss)[i] = Beginnings(ss)[i - 1] \o ss[i]
         /\ \A i \in 0..Len(ss) :
              /\ IsSeq(Beginnings(ss)[i])
              /\ ToSet(Beginnings(ss)[i]) = UNION {ToSet(ss[j]) : j \in 1..i}
         /\ Beginnings(ss)[Len(ss)] = FlattenSeq(ss)
<1> DEFINE n == Len(ss)
           B == Beginnings(ss)
           T == {i \in 0..n : /\ IsSeq(B[i])
                              /\ ToSet(B[i]) = UNION {ToSet(ss[j]) : j \in 1..i}}
<1>0. n \in Nat
  BY SeqIsFunction DEF IsSeqOfSeqs
<1>1. B[0] = <<>>
  BY <1>0 DEF Beginnings
<1>2. ASSUME NEW i \in 1..n
      PROVE  B[i] = B[i - 1] \o ss[i]
  <2>1. B[i] = Joined(ss)[i]
    BY <1>0 DEF Beginnings
  <2>2. CASE i = 1
    <3>1. B[i] = ss[i]
      BY <1>0, <2>1, <2>2, JoinedDefined
    <3>2. IsSeq(ss[i]) /\ B[i - 1] = <<>>
      BY <1>1, <2>2 DEF IsSeqOfSeqs
    <3> HIDE DEF B
    <3> QED BY <3>1, <3>2, ConcatNothing
  <2>3. CASE i # 1
    <3>1. B[i - 1] = Joined(ss)[i - 1]
      BY <1>0, <2>3 DEF Beginnings
    <3> QED BY <1>0, <2>1, <2>3, <3>1, JoinedDefined
  <2> QED BY <2>2, <2>3
<1>3. 0 \in T
  BY <1>0, <1>1, NoItems
<1>4. ASSUME NEW i \in 0..n, i \in T, i < n
      PROVE  i + 1 \in T
  <2>1. i + 1 \in 1..n /\ (i + 1) - 1 = i
    BY <1>0, <1>4
  <2>2. B[i + 1] = B[i] \o ss[i + 1]
    BY <1>2, <2>1
  <2>3. IsSeq(B[i + 1]) /\ ToSet(B[i + 1]) = ToSet(B[i]) \cup ToSet(ss[i + 1])
    BY <1>4, <2>1, <2>2, Concat DEF IsSeqOfSeqs
  <2>4. 1..i + 1 = 1..i \cup {i + 1}
    BY <1>0
  <2>5. UNION {ToSet(ss[j]) : j \in 1..i + 1}
          = (UNION {ToSet(ss[j]) : j \in 1..i}) \cup ToSet(ss[i + 1])
    BY <2>4, Zenon
  <2> QED BY <1>4, <2>1, <2>3, <2>5
<1>5. \A i \in 0..n : i \in T
  <2> HIDE DEF T
  <2> QED BY <1>0, <1>3, <1>4, Upwards
<1>6. B[n] = FlattenSeq(ss)
  <2>1. CASE n = 0
    <3>1. ss = <<>>
      BY <2>1 DEF IsSeqOfSeqs, IsSeq
    <3> QED BY <1>1, <2>1, <3>1 DEF FlattenSeq
  <2>2. CASE n # 0
    <3>1. B[n] = Joined(ss)[n]
      BY <1>0, <2>2 DEF Beginnings
    <3> QED BY <2>2, <3>1 DEF FlattenSeq, Joined
  <2> QED BY <2>1, <2>2
<1> QED BY <1>1, <1>2, <1>5, <1>6

LEMMA Flat ==
  ASSUME NEW ss, IsSeqOfSeqs(ss)
  PROVE  /\ IsSeq(FlattenSeq(ss))
         /\ ToSet(FlattenSeq(ss)) = UNION {ToSet(ss[i]) : i \in 1..Len(ss)}
<1>1. Len(ss) \in 0..Len(ss)
  BY SeqIsFunction DEF IsSeqOfSeqs
<1> QED BY <1>1, BeginningsGrow

-----------------------------------------------------------------------------
(* Replay, one statement after the other and one script after the other.    *)

Next1(s, script, g, i) == IF i = 0 THEN s ELSE Apply(g[i - 1], script[i])

LEMMA ReplayedDefined ==
  ASSUME NEW s, NEW script, Len(script) \in Nat
  PROVE  /\ Replayed(s, script)[0] = s
         /\ \A i \in 1..Len(script) :
              Replayed(s, script)[i] = Apply(Replayed(s, script)[i - 1], script[i])
<1> DEFINE Fits(n, g) == g = [i \in 0..n |-> Next1(s, script, g, i)]
           T == {n \in 0..Len(script) : \E g : Fits(n, g)}
<1>1. 0 \in T
  <2>1. Fits(0, [i \in 0..0 |-> s])
    BY DEF Next1
  <2> HIDE DEF Fits
  <2> QED BY <2>1
<1>2. ASSUME NEW n \in 0..Len(script), n \in T, n < Len(script)
      PROVE  n + 1 \in T
  <2>1. PICK g : Fits(n, g)
    BY <1>2
  <2> DEFINE h == [i \in 0..n + 1 |-> IF i <= n THEN g[i]
                                      ELSE Next1(s, script, g, n + 1)]
  <2>2. ASSUME NEW i \in 0..n + 1
        PROVE  h[i] = Next1(s, script, h, i)
    <3>1. i = 0 \/ h[i - 1] = g[i - 1]
      OBVIOUS
    <3>2. Next1(s, script, h, i) = Next1(s, script, g, i)
      BY <3>1 DEF Next1
    <3>3. h[i] = Next1(s, script, g, i)
      BY <2>1
    <3> QED BY <3>2, <3>3
  <2> HIDE DEF h
  <2>3. h = [i \in 0..n + 1 |-> h[i]]
    BY DEF h
  <2>4. Fits(n + 1, h)
    BY <2>2, <2>3
  <2> HIDE DEF Fits
  <2> QED BY <1>2, <2>4
<1>3. Len(script) \in T
  <2> HIDE DEF T
  <2>1. \A n \in 0..Len(script) : n \in T
    BY <1>1, <1>2, Upwards
  <2> QED BY <2>1
<1>4. PICK g : Fits(Len(script), g)
  BY <1>3
<1>5. Replayed(s, script) = CHOOSE after : Fits(Len(script), after)
  BY DEF Replayed, Next1
<1>6. Fits(Len(script), Replayed(s, script))
  BY <1>4, <1>5
<1>7. \A i \in 0..Len(script) :
        Replayed(s, script)[i] = Next1(s, script, Replayed(s, script), i)
  BY <1>6
<1> QED BY <1>7 DEF Next1

LEMMA ReplayConcat ==
  ASSUME NEW s, NEW a, NEW b, IsSeq(a), IsSeq(b)
  PROVE  Replay(s, a \o b) = Replay(Replay(s, a), b)
<1> DEFINE ab == a \o b
           R  == Replayed(s, ab)
           A  == Replayed(s, a)
           B  == Replayed(Replay(s, a), b)
           T  == {i \in 0..Len(a) : R[i] = A[i]}
           U  == {i \in 0..Len(b) : R[Len(a) + i] = B[i]}
<1>0. Len(a) \in Nat /\ Len(b) \in Nat /\ Len(ab) = Len(a) + Len(b)
  BY SeqIsFunction, Concat
<1>r. R[0] = s /\ \A i \in 1..Len(ab) : R[i] = Apply(R[i - 1], ab[i])
  <2>1. Len(ab) \in Nat
    BY <1>0
  <2> HIDE DEF ab
  <2> QED BY <2>1, ReplayedDefined
<1>a. A[0] = s /\ \A i \in 1..Len(a) : A[i] = Apply(A[i - 1], a[i])
  BY <1>0, ReplayedDefined
<1>b. B[0] = Replay(s, a) /\ \A i \in 1..Len(b) : B[i] = Apply(B[i - 1], b[i])
  BY <1>0, ReplayedDefined
<1>1. \A i \in 1..Len(a) : ab[i] = a[i]
  BY Concat
<1>2. \A i \in 1..Len(b) : ab[Len(a) + i] = b[i]
  BY Concat
<1> HIDE DEF ab, R, A, B
<1>3. \A i \in 0..Len(a) : R[i] = A[i]
  <2>1. 0 \in T
    BY <1>0, <1>r, <1>a
  <2>2. ASSUME NEW i \in 0..Len(a), i \in T, i < Len(a)
        PROVE  i + 1 \in T
    <3>1. i + 1 \in 1..Len(a) /\ i + 1 \in 1..Len(ab) /\ (i + 1) - 1 = i
      BY <1>0, <2>2
    <3> QED BY <1>r, <1>a, <1>1, <2>2, <3>1
  <2> HIDE DEF T
  <2>3. \A i \in 0..Len(a) : i \in T
    BY <1>0, <2>1, <2>2, Upwards
  <2> QED BY <2>3 DEF T
<1>4. \A i \in 0..Len(b) : R[Len(a) + i] = B[i]
  <2>1. 0 \in U
    BY <1>0, <1>3, <1>b DEF Replay, A
  <2>2. ASSUME NEW i \in 0..Len(b), i \in U, i < Len(b)
        PROVE  i + 1 \in U
    <3>1. i + 1 \in 1..Len(b) /\ Len(a) + (i + 1) \in 1..Len(ab) /\ (i + 1) - 1 = i
          /\ (Len(a) + (i + 1)) - 1 = Len(a) + i
      BY <1>0, <2>2
    <3> QED BY <1>r, <1>b, <1>2, <2>2, <3>1
  <2> HIDE DEF U
  <2>3. \A i \in 0..Len(b) : i \in U
    BY <1>0, <2>1, <2>2, Upwards
  <2> QED BY <2>3 DEF U
<1>5. R[Len(ab)] = B[Len(b)]
  BY <1>0, <1>4
<1> QED BY <1>5 DEF Replay, R, B, ab

LEMMA ReplayFew ==
  ASSUME NEW s, NEW st
  PROVE  Replay(s, <<>>) = s /\ Replay(s, <<st>>) = Apply(s, st)
<1>1. Replay(s, <<>>) = s
  BY NoItems, ReplayedDefined DEF Replay
<1>2. Replay(s, <<st>>) = Apply(s, st)
  <2>1. Len(<<st>>) = 1 /\ <<st>>[1] = st
    BY Singleton
  <2> QED BY <2>1, ReplayedDefined DEF Replay
<1> QED BY <1>1, <1>2

(* A part of a script leads from one snapshot to another. *)
Leads(part, s, u) == IsSeq(part) /\ Replay(s, part) = u

LEMMA LeadsOn ==
  ASSUME NEW a, NEW b, NEW s, NEW t, NEW u, Leads(a, s, t), Leads(b, t, u)
  PROVE  Leads(a \o b, s, u)
BY Concat, ReplayConcat DEF Leads

(* The snapshot after each of some scripts. *)
Stages(s, ss) == [i \in 0..Len(ss) |-> Replay(s, Beginnings(ss)[i])]

LEMMA StagesFollow ==
  ASSUME NEW s, NEW ss, IsSeqOfSeqs(ss)
  PROVE  /\ Len(ss) \in Nat
         /\ Stages(s, ss)[0] = s
         /\ \A i \in 1..Len(ss) :
              Stages(s, ss)[i] = Replay(Stages(s, ss)[i - 1], ss[i])
         /\ Stages(s, ss)[Len(ss)] = Replay(s, FlattenSeq(ss))
<1>0. Len(ss) \in Nat
  BY SeqIsFunction DEF IsSeqOfSeqs
<1>1. Stages(s, ss)[0] = s
  <2>1. Stages(s, ss)[0] = Replay(s, Beginnings(ss)[0])
    BY <1>0 DEF Stages
  <2> QED BY <2>1, BeginningsGrow, ReplayFew
<1>2. ASSUME NEW i \in 1..Len(ss)
      PROVE  Stages(s, ss)[i] = Replay(Stages(s, ss)[i - 1], ss[i])
  <2>1. i \in 0..Len(ss) /\ i - 1 \in 0..Len(ss)
    BY <1>0
  <2>2. /\ Beginnings(ss)[i] = Beginnings(ss)[i - 1] \o ss[i]
        /\ IsSeq(Beginnings(ss)[i - 1]) /\ IsSeq(ss[i])
    BY <2>1, BeginningsGrow DEF IsSeqOfSeqs
  <2>3. Stages(s, ss)[i] = Replay(s, Beginnings(ss)[i])
    BY <2>1 DEF Stages
  <2>4. Stages(s, ss)[i - 1] = Replay(s, Beginnings(ss)[i - 1])
    BY <2>1 DEF Stages
  <2> QED BY <2>2, <2>3, <2>4, ReplayConcat
<1>3. Stages(s, ss)[Len(ss)] = Replay(s, FlattenSeq(ss))
  <2>1. Stages(s, ss)[Len(ss)] = Replay(s, Beginnings(ss)[Len(ss)])
    BY <1>0 DEF Stages
  <2> QED BY <2>1, BeginningsGrow
<1> QED BY <1>0, <1>1, <1>2, <1>3

-----------------------------------------------------------------------------
(* A sequence that has each member of a set once, and what has been of it   *)
(* so far.                                                                  *)

Lists(e, S) ==
  IsSeq(e) /\ ToSet(e) = S /\ \A i, j \in 1..Len(e) : e[i] = e[j] => i = j

First(e, n) == {e[i] : i \in 1..n}

LEMMA OneMore ==
  ASSUME NEW e, NEW S, Lists(e, S)
  PROVE  /\ Len(e) \in Nat /\ First(e, 0) = {} /\ First(e, Len(e)) = S
         /\ \A i \in 1..Len(e) :
              /\ e[i] \in S /\ e[i] \notin First(e, i - 1)
              /\ First(e, i) = First(e, i - 1) \cup {e[i]}
              /\ First(e, i) \subseteq S
<1>1. Len(e) \in Nat /\ DOMAIN e = 1..Len(e)
  BY SeqIsFunction DEF Lists
<1>2. First(e, Len(e)) = S /\ First(e, 0) = {}
  BY <1>1 DEF First, Lists, ToSet
<1>3. ASSUME NEW i \in 1..Len(e)
      PROVE  /\ e[i] \in S /\ e[i] \notin First(e, i - 1)
             /\ First(e, i) = First(e, i - 1) \cup {e[i]}
             /\ First(e, i) \subseteq S
  <2>1. 1..i = 1..(i - 1) \cup {i} /\ 1..i \subseteq 1..Len(e)
    BY <1>1
  <2>2. First(e, i) = First(e, i - 1) \cup {e[i]}
    BY <2>1 DEF First
  <2>3. e[i] \in S /\ First(e, i) \subseteq S
    BY <1>1, <2>1 DEF First, Lists, ToSet
  <2>4. e[i] \notin First(e, i - 1)
    BY <1>1, <2>1 DEF First, Lists
  <2> QED BY <2>2, <2>3, <2>4
<1> QED BY <1>1, <1>2, <1>3

LEMMA SetToSeqLists ==
  ASSUME NEW S, IsFiniteSet(S)
  PROVE  Lists(SetToSeq(S), S)
<1> DEFINE n == Cardinality(S)
           e == SetToSeq(S)
<1>1. n \in Nat /\ ExistsBijection(1..n, S)
  BY FS_CardinalityType
<1>2. PICK f \in [1..n -> S] : IsInjective(f)
  BY <1>1 DEF ExistsBijection, Bijection, Injection
<1>3. e \in [1..n -> S] /\ IsInjective(e)
  BY <1>2 DEF SetToSeq
<1>4. IsFiniteSet(1..n) /\ Cardinality(1..n) = n
  BY <1>1, FS_Interval
<1> HIDE DEF e
<1>5. e \in Surjection(1..n, S)
  BY <1>3, <1>4, FS_Injection DEF Injection
<1>6. e = [i \in 1..n |-> e[i]]
  BY <1>3
<1>7. IsSeq(e) /\ Len(e) = n
  BY <1>1, <1>6, FunctionIsSeq
<1>8. ToSet(e) = S
  BY <1>3, <1>5 DEF Surjection, ToSet
<1> QED BY <1>3, <1>7, <1>8 DEF Lists, IsInjective, e

-----------------------------------------------------------------------------
(* Blocks of statements.                                                    *)

(* f goes through the snapshots of a replay. *)
LEMMA Block ==
  ASSUME NEW script, Len(script) \in Nat, NEW f,
         \A i \in 1..Len(script) : f[i] = Apply(f[i - 1], script[i])
  PROVE  Replay(f[0], script) = f[Len(script)]
<1> DEFINE n == Len(script)
           R == Replayed(f[0], script)
           T == {i \in 0..n : R[i] = f[i]}
<1>1. R[0] = f[0] /\ \A i \in 1..n : R[i] = Apply(R[i - 1], script[i])
  BY ReplayedDefined
<1> HIDE DEF R
<1>2. 0 \in T
  BY <1>1
<1>3. ASSUME NEW i \in 0..n, i \in T, i < n
      PROVE  i + 1 \in T
  <2>1. i + 1 \in 1..n /\ (i + 1) - 1 = i
    BY <1>3
  <2> QED BY <1>1, <1>3, <2>1
<1>4. \A i \in 0..n : i \in T
  <2> HIDE DEF T
  <2> QED BY <1>2, <1>3, Upwards
<1> QED BY <1>4 DEF R, Replay

Snap(T, E, Q) == [tables |-> T, enums |-> E, sequences |-> Q]

IsFcn(f) == f = [x \in DOMAIN f |-> f[x]]

(* A statement for each item of a sequence. *)
LEMMA OnePerItem ==
  ASSUME NEW e, IsSeq(e), NEW script, script = [i \in DOMAIN e |-> script[i]]
  PROVE  /\ IsSeq(script) /\ Len(script) = Len(e) /\ Len(script) \in Nat
         /\ DOMAIN e = 1..Len(e)
<1>1. Len(e) \in Nat /\ DOMAIN e = 1..Len(e)
  BY SeqIsFunction
<1>2. script = [i \in 1..Len(e) |-> script[i]]
  BY <1>1
<1> QED BY <1>1, <1>2, FunctionIsSeq

LEMMA FirstItems ==
  ASSUME NEW e, IsSeq(e)
  PROVE  /\ First(e, 0) = {} /\ First(e, Len(e)) = ToSet(e)
         /\ \A i \in 1..Len(e) : First(e, i) = First(e, i - 1) \cup {e[i]}
<1>1. Len(e) \in Nat /\ DOMAIN e = 1..Len(e)
  BY SeqIsFunction
<1>2. \A i \in 1..Len(e) : 1..i = 1..(i - 1) \cup {i}
  BY <1>1
<1> QED BY <1>1, <1>2 DEF First, ToSet

(* Schemas are not part of a snapshot. *)
LEMMA SchemaBlock ==
  ASSUME NEW s, NEW script, IsSeq(script),
         \A i \in 1..Len(script) : script[i].op \in {"createSchema", "dropSchema"}
  PROVE  Replay(s, script) = s
<1> DEFINE f == [i \in 0..Len(script) |-> s]
<1>1. Len(script) \in Nat
  BY SeqIsFunction
<1>2. \A i \in 1..Len(script) : Apply(s, script[i]) = s
  BY DEF Apply
<1>3. \A i \in 1..Len(script) : f[i] = Apply(f[i - 1], script[i])
  BY <1>1, <1>2
<1>4. f[0] = s /\ f[Len(script)] = s
  BY <1>1
<1> HIDE DEF f
<1> QED BY <1>1, <1>3, <1>4, Block

(* A map of which keys are taken away, to which they are added, or of which  *)
(* they are replaced, so far.                                               *)
Dropped(f, e, i) == Restrict(f, DOMAIN f \ First(e, i))
Extended(f, g, S) == [x \in DOMAIN f \cup S |-> IF x \in S THEN g[x] ELSE f[x]]
Renamed(f, r, D) ==
  [x \in (DOMAIN f \ D) \cup {r[o] : o \in D} |-> f[OldKey(r, x)]]

LEMMA Dropping ==
  ASSUME NEW f, IsFcn(f), NEW e, IsSeq(e)
  PROVE  /\ Dropped(f, e, 0) = f
         /\ Dropped(f, e, Len(e)) = Restrict(f, DOMAIN f \ ToSet(e))
         /\ \A i \in 1..Len(e) : Without(Dropped(f, e, i - 1), e[i]) = Dropped(f, e, i)
<1>1. ASSUME NEW i \in 1..Len(e)
      PROVE  Without(Dropped(f, e, i - 1), e[i]) = Dropped(f, e, i)
  <2>1. First(e, i) = First(e, i - 1) \cup {e[i]}
    BY FirstItems
  <2>2. DOMAIN Dropped(f, e, i - 1) = DOMAIN f \ First(e, i - 1)
    BY DEF Dropped, Restrict
  <2>3. (DOMAIN f \ First(e, i - 1)) \ {e[i]} = DOMAIN f \ First(e, i)
    BY <2>1
  <2> QED BY <2>2, <2>3 DEF Without, Restrict, Dropped
<1>2. Dropped(f, e, 0) = f /\ Dropped(f, e, Len(e)) = Restrict(f, DOMAIN f \ ToSet(e))
  BY FirstItems DEF Dropped, Restrict, IsFcn
<1> QED BY <1>1, <1>2

LEMMA ExtendingOnce ==
  ASSUME NEW f, IsFcn(f), NEW g, NEW e, IsSeq(e), NEW i \in 1..Len(e)
  PROVE  With(Extended(f, g, First(e, i - 1)), e[i], g[e[i]])
           = Extended(f, g, First(e, i))
<1> DEFINE D == First(e, i - 1)
           x == e[i]
<1>1. First(e, i) = D \cup {x}
  BY FirstItems
<1> HIDE DEF D, x
<1>2. DOMAIN Extended(f, g, D) = DOMAIN f \cup D
  BY DEF Extended
<1>3. With(Extended(f, g, D), x, g[x])
        = [y \in DOMAIN f \cup (D \cup {x}) |->
             IF y = x THEN g[x] ELSE Extended(f, g, D)[y]]
  BY <1>2 DEF With
<1>4. ASSUME NEW y \in DOMAIN f \cup (D \cup {x})
      PROVE  (IF y = x THEN g[x] ELSE Extended(f, g, D)[y])
               = IF y \in D \cup {x} THEN g[y] ELSE f[y]
  BY <1>2 DEF Extended
<1>5. With(Extended(f, g, D), x, g[x]) = Extended(f, g, D \cup {x})
  BY <1>3, <1>4 DEF Extended
<1> QED BY <1>1, <1>5 DEF D, x

LEMMA Extending ==
  ASSUME NEW f, IsFcn(f), NEW g, NEW e, IsSeq(e)
  PROVE  /\ Extended(f, g, First(e, 0)) = f
         /\ Extended(f, g, First(e, Len(e))) = Extended(f, g, ToSet(e))
<1>1. Extended(f, g, First(e, 0)) = f
  BY FirstItems DEF Extended, IsFcn
<1> QED BY <1>1, FirstItems

LEMMA Renaming ==
  ASSUME NEW f, IsFcn(f), NEW r, IsInjective(r), DOMAIN r \subseteq DOMAIN f,
         Range(r) \cap DOMAIN f = {}, NEW e, Lists(e, DOMAIN r)
  PROVE  /\ Renamed(f, r, First(e, 0)) = f
         /\ Renamed(f, r, First(e, Len(e))) = Renamed(f, r, DOMAIN r)
         /\ \A i \in 1..Len(e) :
              Moved(Renamed(f, r, First(e, i - 1)), e[i], r[e[i]])
                = Renamed(f, r, First(e, i))
<1>0. \A x \in DOMAIN f : OldKey(r, x) = x
  BY DEF OldKey
<1>1. ASSUME NEW i \in 1..Len(e)
      PROVE  Moved(Renamed(f, r, First(e, i - 1)), e[i], r[e[i]])
                = Renamed(f, r, First(e, i))
  <2> DEFINE D == First(e, i - 1)
             x == e[i]
             g == Renamed(f, r, D)
  <2>1. First(e, i) = D \cup {x} /\ x \in DOMAIN r /\ x \notin D /\ D \subseteq DOMAIN r
    BY OneMore DEF Lists
  <2> HIDE DEF D, x
  <2>2. DOMAIN g = (DOMAIN f \ D) \cup {r[o] : o \in D}
    BY DEF Renamed
  <2>3. r[x] \in Range(r) /\ r[x] \notin DOMAIN f /\ x \notin {r[o] : o \in D}
    BY <2>1 DEF Range
  <2>4. x \in DOMAIN g /\ g[x] = f[x]
    BY <1>0, <2>1, <2>2 DEF Renamed
  <2>5. OldKey(r, r[x]) = x
    BY <2>1, <2>3 DEF OldKey, IsInjective
  <2> DEFINE h == Restrict(g, DOMAIN g \ {x})
  <2>6. DOMAIN h = DOMAIN g \ {x} /\ \A y \in DOMAIN g \ {x} : h[y] = g[y]
    BY DEF Restrict
  <2>7. (DOMAIN g \ {x}) \cup {r[x]} = (DOMAIN f \ (D \cup {x})) \cup {r[o] : o \in D \cup {x}}
    BY <2>1, <2>2, <2>3
  <2>8. Moved(g, x, r[x]) = [y \in DOMAIN h \cup {r[x]} |-> IF y = r[x] THEN g[x] ELSE h[y]]
    BY <2>4 DEF Moved, With, Without
  <2> HIDE DEF g, h
  <2>9. ASSUME NEW y \in (DOMAIN g \ {x}) \cup {r[x]}
        PROVE  (IF y = r[x] THEN g[x] ELSE h[y]) = f[OldKey(r, y)]
    <3>1. CASE y = r[x]
      BY <2>4, <2>5, <3>1
    <3>2. CASE y # r[x]
      BY <2>6, <3>2 DEF g, Renamed
    <3> QED BY <3>1, <3>2
  <2>10. Moved(g, x, r[x]) = Renamed(f, r, D \cup {x})
    BY <2>6, <2>7, <2>8, <2>9 DEF Renamed
  <2> QED BY <2>1, <2>10 DEF D, x, g
<1>2. Renamed(f, r, First(e, 0)) = f
  <2>1. Renamed(f, r, {}) = [x \in DOMAIN f |-> f[OldKey(r, x)]]
    BY DEF Renamed
  <2>2. First(e, 0) = {}
    BY OneMore
  <2>3. f = [x \in DOMAIN f |-> f[x]]
    BY DEF IsFcn
  <2> QED BY <1>0, <2>1, <2>2, <2>3
<1> QED BY <1>1, <1>2, OneMore

LEMMA ApplyDropTable ==
  ASSUME NEW T, NEW E, NEW Q, NEW k
  PROVE  Apply(Snap(T, E, Q), [op |-> "dropTable", key |-> k]) = Snap(Without(T, k), E, Q)
BY DEF Apply, Snap

LEMMA ApplyRenameTable ==
  ASSUME NEW T, NEW E, NEW Q, NEW k, NEW to
  PROVE  Apply(Snap(T, E, Q), [op |-> "renameTable", key |-> k, to |-> to])
           = Snap(Moved(T, k, to), E, Q)
BY DEF Apply, Snap

LEMMA ApplyCreateTable ==
  ASSUME NEW T, NEW E, NEW Q, NEW k, NEW t
  PROVE  Apply(Snap(T, E, Q), [op |-> "createTable", key |-> k, def |-> t])
           = Snap(With(T, k, t), E, Q)
BY DEF Apply, Snap

LEMMA ApplyDropType ==
  ASSUME NEW T, NEW E, NEW Q, NEW k
  PROVE  Apply(Snap(T, E, Q), [op |-> "dropType", key |-> k]) = Snap(T, Without(E, k), Q)
BY DEF Apply, Snap

LEMMA ApplyCreateType ==
  ASSUME NEW T, NEW E, NEW Q, NEW k, NEW v
  PROVE  Apply(Snap(T, E, Q), [op |-> "createType", key |-> k, values |-> v])
           = Snap(T, With(E, k, v), Q)
BY DEF Apply, Snap

LEMMA ApplyDropSequence ==
  ASSUME NEW T, NEW E, NEW Q, NEW k
  PROVE  Apply(Snap(T, E, Q), [op |-> "dropSequence", key |-> k]) = Snap(T, E, Q \ {k})
BY DEF Apply, Snap

LEMMA ApplyCreateSequence ==
  ASSUME NEW T, NEW E, NEW Q, NEW k
  PROVE  Apply(Snap(T, E, Q), [op |-> "createSequence", key |-> k]) = Snap(T, E, Q \cup {k})
BY DEF Apply, Snap

RenamesTables(script, e, r) ==
  script = [i \in DOMAIN e |-> [op |-> "renameTable", key |-> e[i], to |-> r[e[i]]]]

LEMMA RenameTableBlock ==
  ASSUME NEW T, NEW E, NEW Q, IsFcn(T), NEW r, IsInjective(r),
         DOMAIN r \subseteq DOMAIN T, Range(r) \cap DOMAIN T = {},
         NEW e, Lists(e, DOMAIN r), NEW script,
         RenamesTables(script, e, r)
  PROVE  Leads(script, Snap(T, E, Q),
               Snap(Renamed(T, r, DOMAIN r), E, Q))
<1> DEFINE State(i) == Snap(Renamed(T, r, First(e, i)), E, Q)
           f == [i \in 0..Len(e) |-> State(i)]
<1>0. IsSeq(e)
  BY DEF Lists
<1>1. /\ IsSeq(script) /\ Len(script) = Len(e) /\ Len(script) \in Nat
      /\ DOMAIN e = 1..Len(e)
  BY <1>0, OnePerItem DEF RenamesTables
<1>2. ASSUME NEW i \in 1..Len(e)
      PROVE  f[i] = Apply(f[i - 1], script[i])
  <2>1. Moved(Renamed(T, r, First(e, i - 1)), e[i], r[e[i]]) = Renamed(T, r, First(e, i))
    BY Renaming
  <2>2. script[i] = [op |-> "renameTable", key |-> e[i], to |-> r[e[i]]]
    BY <1>1 DEF RenamesTables
  <2>3. Apply(State(i - 1), script[i]) = State(i)
    BY <2>1, <2>2, ApplyRenameTable
  <2>4. f[i] = State(i) /\ f[i - 1] = State(i - 1)
    BY <1>1
  <2> HIDE DEF State, f
  <2> QED BY <2>3, <2>4
<1>3. f[0] = State(0) /\ f[Len(e)] = State(Len(e))
  BY <1>1
<1>4. State(0) = Snap(T, E, Q) /\ State(Len(e)) = Snap(Renamed(T, r, DOMAIN r), E, Q)
  BY Renaming
<1> HIDE DEF f, State
<1> QED BY <1>1, <1>2, <1>3, <1>4, Block DEF Leads

DropsTables(script, e) ==
  script = [i \in DOMAIN e |-> [op |-> "dropTable", key |-> e[i]]]

LEMMA DropTableBlock ==
  ASSUME NEW T, NEW E, NEW Q, IsFcn(T), NEW e, IsSeq(e), NEW script,
         DropsTables(script, e)
  PROVE  Leads(script, Snap(T, E, Q),
               Snap(Restrict(T, DOMAIN T \ ToSet(e)), E, Q))
<1> DEFINE State(i) == Snap(Dropped(T, e, i), E, Q)
           f == [i \in 0..Len(e) |-> State(i)]
<1>0. IsSeq(e)
  OBVIOUS
<1>1. /\ IsSeq(script) /\ Len(script) = Len(e) /\ Len(script) \in Nat
      /\ DOMAIN e = 1..Len(e)
  BY <1>0, OnePerItem DEF DropsTables
<1>2. ASSUME NEW i \in 1..Len(e)
      PROVE  f[i] = Apply(f[i - 1], script[i])
  <2>1. Without(Dropped(T, e, i - 1), e[i]) = Dropped(T, e, i)
    BY Dropping
  <2>2. script[i] = [op |-> "dropTable", key |-> e[i]]
    BY <1>1 DEF DropsTables
  <2>3. Apply(State(i - 1), script[i]) = State(i)
    BY <2>1, <2>2, ApplyDropTable
  <2>4. f[i] = State(i) /\ f[i - 1] = State(i - 1)
    BY <1>1
  <2> HIDE DEF State, f
  <2> QED BY <2>3, <2>4
<1>3. f[0] = State(0) /\ f[Len(e)] = State(Len(e))
  BY <1>1
<1>4. State(0) = Snap(T, E, Q) /\ State(Len(e)) = Snap(Restrict(T, DOMAIN T \ ToSet(e)), E, Q)
  BY Dropping
<1> HIDE DEF f, State
<1> QED BY <1>1, <1>2, <1>3, <1>4, Block DEF Leads

DropsTypes(script, e) ==
  script = [i \in DOMAIN e |-> [op |-> "dropType", key |-> e[i]]]

LEMMA DropTypeBlock ==
  ASSUME NEW T, NEW E, NEW Q, IsFcn(E), NEW e, IsSeq(e), NEW script,
         DropsTypes(script, e)
  PROVE  Leads(script, Snap(T, E, Q),
               Snap(T, Restrict(E, DOMAIN E \ ToSet(e)), Q))
<1> DEFINE State(i) == Snap(T, Dropped(E, e, i), Q)
           f == [i \in 0..Len(e) |-> State(i)]
<1>0. IsSeq(e)
  OBVIOUS
<1>1. /\ IsSeq(script) /\ Len(script) = Len(e) /\ Len(script) \in Nat
      /\ DOMAIN e = 1..Len(e)
  BY <1>0, OnePerItem DEF DropsTypes
<1>2. ASSUME NEW i \in 1..Len(e)
      PROVE  f[i] = Apply(f[i - 1], script[i])
  <2>1. Without(Dropped(E, e, i - 1), e[i]) = Dropped(E, e, i)
    BY Dropping
  <2>2. script[i] = [op |-> "dropType", key |-> e[i]]
    BY <1>1 DEF DropsTypes
  <2>3. Apply(State(i - 1), script[i]) = State(i)
    BY <2>1, <2>2, ApplyDropType
  <2>4. f[i] = State(i) /\ f[i - 1] = State(i - 1)
    BY <1>1
  <2> HIDE DEF State, f
  <2> QED BY <2>3, <2>4
<1>3. f[0] = State(0) /\ f[Len(e)] = State(Len(e))
  BY <1>1
<1>4. State(0) = Snap(T, E, Q) /\ State(Len(e)) = Snap(T, Restrict(E, DOMAIN E \ ToSet(e)), Q)
  BY Dropping
<1> HIDE DEF f, State
<1> QED BY <1>1, <1>2, <1>3, <1>4, Block DEF Leads

DropsSequences(script, e) ==
  script = [i \in DOMAIN e |-> [op |-> "dropSequence", key |-> e[i]]]

LEMMA DropSequenceBlock ==
  ASSUME NEW T, NEW E, NEW Q, NEW e, IsSeq(e), NEW script,
         DropsSequences(script, e)
  PROVE  Leads(script, Snap(T, E, Q),
               Snap(T, E, Q \ ToSet(e)))
<1> DEFINE State(i) == Snap(T, E, Q \ First(e, i))
           f == [i \in 0..Len(e) |-> State(i)]
<1>0. IsSeq(e)
  OBVIOUS
<1>1. /\ IsSeq(script) /\ Len(script) = Len(e) /\ Len(script) \in Nat
      /\ DOMAIN e = 1..Len(e)
  BY <1>0, OnePerItem DEF DropsSequences
<1>2. ASSUME NEW i \in 1..Len(e)
      PROVE  f[i] = Apply(f[i - 1], script[i])
  <2>1. First(e, i) = First(e, i - 1) \cup {e[i]}
    BY FirstItems
  <2>2. script[i] = [op |-> "dropSequence", key |-> e[i]]
    BY <1>1 DEF DropsSequences
  <2>3. Apply(State(i - 1), script[i]) = State(i)
    BY <2>1, <2>2, ApplyDropSequence
  <2>4. f[i] = State(i) /\ f[i - 1] = State(i - 1)
    BY <1>1
  <2> HIDE DEF State, f
  <2> QED BY <2>3, <2>4
<1>3. f[0] = State(0) /\ f[Len(e)] = State(Len(e))
  BY <1>1
<1>4. State(0) = Snap(T, E, Q) /\ State(Len(e)) = Snap(T, E, Q \ ToSet(e))
  BY <1>0, FirstItems
<1> HIDE DEF f, State
<1> QED BY <1>1, <1>2, <1>3, <1>4, Block DEF Leads

CreatesSequences(script, e) ==
  script = [i \in DOMAIN e |-> [op |-> "createSequence", key |-> e[i]]]

LEMMA CreateSequenceBlock ==
  ASSUME NEW T, NEW E, NEW Q, NEW e, IsSeq(e), NEW script,
         CreatesSequences(script, e)
  PROVE  Leads(script, Snap(T, E, Q),
               Snap(T, E, Q \cup ToSet(e)))
<1> DEFINE State(i) == Snap(T, E, Q \cup First(e, i))
           f == [i \in 0..Len(e) |-> State(i)]
<1>0. IsSeq(e)
  OBVIOUS
<1>1. /\ IsSeq(script) /\ Len(script) = Len(e) /\ Len(script) \in Nat
      /\ DOMAIN e = 1..Len(e)
  BY <1>0, OnePerItem DEF CreatesSequences
<1>2. ASSUME NEW i \in 1..Len(e)
      PROVE  f[i] = Apply(f[i - 1], script[i])
  <2>1. First(e, i) = First(e, i - 1) \cup {e[i]}
    BY FirstItems
  <2>2. script[i] = [op |-> "createSequence", key |-> e[i]]
    BY <1>1 DEF CreatesSequences
  <2>3. Apply(State(i - 1), script[i]) = State(i)
    BY <2>1, <2>2, ApplyCreateSequence
  <2>4. f[i] = State(i) /\ f[i - 1] = State(i - 1)
    BY <1>1
  <2> HIDE DEF State, f
  <2> QED BY <2>3, <2>4
<1>3. f[0] = State(0) /\ f[Len(e)] = State(Len(e))
  BY <1>1
<1>4. State(0) = Snap(T, E, Q) /\ State(Len(e)) = Snap(T, E, Q \cup ToSet(e))
  BY <1>0, FirstItems
<1> HIDE DEF f, State
<1> QED BY <1>1, <1>2, <1>3, <1>4, Block DEF Leads

-----------------------------------------------------------------------------
(* Statements about one table.                                              *)

Tab(C, X, N) == [columns |-> C, indexes |-> X, constraints |-> N]
Col(type, unique, references) ==
  [type |-> type, unique |-> unique, references |-> references]

TableOps ==
  {"addColumn", "dropColumn", "renameColumn", "alterColumnType", "addUnique",
   "addForeignKey", "dropForeignKey", "addConstraint", "dropConstraint",
   "createIndex"}

LEMMA WithTwice ==
  ASSUME NEW f, NEW x, NEW v, NEW w
  PROVE  With(With(f, x, v), x, w) = With(f, x, w)
<1>1. DOMAIN With(f, x, v) = DOMAIN f \cup {x}
  BY DEF With
<1>2. \A y \in DOMAIN f \cup {x} : With(f, x, v)[y] = IF y = x THEN v ELSE f[y]
  BY DEF With
<1>3. With(With(f, x, v), x, w)
        = [y \in DOMAIN f \cup {x} |-> IF y = x THEN w ELSE With(f, x, v)[y]]
  BY <1>1 DEF With
<1>4. \A y \in DOMAIN f \cup {x} :
        (IF y = x THEN w ELSE With(f, x, v)[y]) = IF y = x THEN w ELSE f[y]
  BY <1>2
<1> QED BY <1>3, <1>4 DEF With

(* A statement about table k. *)
About(st, k) == st.op \in TableOps /\ st.key = k

LEMMA ApplyInTable ==
  ASSUME NEW T, NEW E, NEW Q, NEW k, NEW t, NEW st, About(st, k)
  PROVE  Apply(Snap(With(T, k, t), E, Q), st)
           = Snap(With(T, k, ApplyToTable(t, st)), E, Q)
<1> DEFINE s == Snap(With(T, k, t), E, Q)
           U == With(T, k, t)
<1>1. Apply(s, st) =
        [s EXCEPT !.tables = [u \in DOMAIN @ |->
           IF u = st.key THEN ApplyToTable(@[u], st) ELSE @[u]]]
  BY DEF Apply, TableOps, About
<1>2. s.tables = U /\ s.enums = E /\ s.sequences = Q
  BY DEF Snap
<1>3. Apply(s, st) = Snap([u \in DOMAIN U |-> IF u = k THEN ApplyToTable(U[u], st)
                                                ELSE U[u]], E, Q)
  BY <1>1 DEF Snap, About
<1>4. DOMAIN U = DOMAIN T \cup {k} /\ \A u \in DOMAIN U : U[u] = IF u = k THEN t ELSE T[u]
  BY DEF With
<1> HIDE DEF U
<1>5. [u \in DOMAIN U |-> IF u = k THEN ApplyToTable(U[u], st) ELSE U[u]]
        = [u \in DOMAIN T \cup {k} |-> IF u = k THEN ApplyToTable(t, st) ELSE T[u]]
  BY <1>4
<1> QED BY <1>3, <1>5 DEF With

(* f goes through the contents of a table, from t to u. *)
Follows(f, script, k, t, u) ==
  /\ f[0] = t /\ f[Len(script)] = u
  /\ \A i \in 1..Len(script) :
       About(script[i], k) /\ f[i] = ApplyToTable(f[i - 1], script[i])

LEMMA TableBlock ==
  ASSUME NEW T, NEW E, NEW Q, NEW k, NEW script, Len(script) \in Nat, NEW f,
         NEW t, NEW u, Follows(f, script, k, t, u)
  PROVE  Replay(Snap(With(T, k, t), E, Q), script) = Snap(With(T, k, u), E, Q)
<1> DEFINE g == [i \in 0..Len(script) |-> Snap(With(T, k, f[i]), E, Q)]
<1>1. ASSUME NEW i \in 1..Len(script)
      PROVE  g[i] = Apply(g[i - 1], script[i])
  <2> DEFINE now == f[i - 1]
             st  == script[i]
  <2>1. g[i] = Snap(With(T, k, f[i]), E, Q) /\ g[i - 1] = Snap(With(T, k, now), E, Q)
    OBVIOUS
  <2>2. About(st, k) /\ f[i] = ApplyToTable(now, st)
    BY DEF Follows
  <2> HIDE DEF g, now, st
  <2>3. Apply(Snap(With(T, k, now), E, Q), st)
          = Snap(With(T, k, ApplyToTable(now, st)), E, Q)
    BY <2>2, ApplyInTable
  <2>4. g[i] = Apply(g[i - 1], st)
    BY <2>1, <2>2, <2>3
  <2> QED BY <2>4 DEF st
<1>2. /\ g[0] = Snap(With(T, k, t), E, Q)
      /\ g[Len(script)] = Snap(With(T, k, u), E, Q)
  BY DEF Follows
<1> HIDE DEF g
<1> QED BY <1>1, <1>2, Block

LEMMA ApplyAddColumn ==
  ASSUME NEW C, NEW X, NEW N, NEW k, NEW c, NEW v
  PROVE  ApplyToTable(Tab(C, X, N), [op |-> "addColumn", key |-> k, column |-> c, def |-> v])
           = Tab(With(C, c, v), X, N)
BY DEF ApplyToTable, Tab

LEMMA ApplyDropColumn ==
  ASSUME NEW C, NEW X, NEW N, NEW k, NEW c
  PROVE  ApplyToTable(Tab(C, X, N), [op |-> "dropColumn", key |-> k, column |-> c])
           = Tab(Without(C, c), X, N)
BY DEF ApplyToTable, Tab

LEMMA ApplyRenameColumn ==
  ASSUME NEW C, NEW X, NEW N, NEW k, NEW c, NEW to
  PROVE  ApplyToTable(Tab(C, X, N), [op |-> "renameColumn", key |-> k, column |-> c, to |-> to])
           = Tab(Moved(C, c, to), X, N)
BY DEF ApplyToTable, Tab

LEMMA ApplyAddConstraint ==
  ASSUME NEW C, NEW X, NEW N, NEW k, NEW n, NEW v
  PROVE  ApplyToTable(Tab(C, X, N), [op |-> "addConstraint", key |-> k, name |-> n, columns |-> v])
           = Tab(C, X, With(N, n, v))
BY DEF ApplyToTable, Tab

LEMMA ApplyCreateIndex ==
  ASSUME NEW C, NEW X, NEW N, NEW k, NEW n, NEW v
  PROVE  ApplyToTable(Tab(C, X, N), [op |-> "createIndex", key |-> k, name |-> n, columns |-> v])
           = Tab(C, With(X, n, v), N)
BY DEF ApplyToTable, Tab

RenamesColumns(script, e, k, r) ==
  script = [i \in DOMAIN e |->
    [op |-> "renameColumn", key |-> k, column |-> e[i], to |-> r[e[i]]]]

LEMMA RenameColumnBlock ==
  ASSUME NEW T, NEW E, NEW Q, NEW k, NEW C, NEW X, NEW N,
         IsFcn(C), NEW r, IsInjective(r), DOMAIN r \subseteq DOMAIN C,
         Range(r) \cap DOMAIN C = {}, NEW e, Lists(e, DOMAIN r), NEW script,
         RenamesColumns(script, e, k, r)
  PROVE  Leads(script, Snap(With(T, k, Tab(C, X, N)), E, Q),
               Snap(With(T, k, Tab(Renamed(C, r, DOMAIN r), X, N)), E, Q))
<1> DEFINE State(i) == Tab(Renamed(C, r, First(e, i)), X, N)
           f == [i \in 0..Len(e) |-> State(i)]
<1>0. IsSeq(e)
  BY DEF Lists
<1>1. /\ IsSeq(script) /\ Len(script) = Len(e) /\ Len(script) \in Nat
      /\ DOMAIN e = 1..Len(e)
  BY <1>0, OnePerItem DEF RenamesColumns
<1>2. ASSUME NEW i \in 1..Len(script)
      PROVE  /\ About(script[i], k)
             /\ f[i] = ApplyToTable(f[i - 1], script[i])
  <2>0. i \in 1..Len(e)
    BY <1>1
  <2>1. Moved(Renamed(C, r, First(e, i - 1)), e[i], r[e[i]]) = Renamed(C, r, First(e, i))
    BY <2>0, Renaming
  <2>2. script[i] = [op |-> "renameColumn", key |-> k, column |-> e[i], to |-> r[e[i]]]
    BY <1>1 DEF RenamesColumns
  <2>3. ApplyToTable(State(i - 1), script[i]) = State(i)
    BY <2>1, <2>2, ApplyRenameColumn
  <2>4. f[i] = State(i) /\ f[i - 1] = State(i - 1)
    BY <1>1
  <2>5. About(script[i], k)
    BY <2>2 DEF TableOps, About
  <2> HIDE DEF State, f
  <2> QED BY <2>3, <2>4, <2>5
<1>3. f[0] = State(0) /\ f[Len(e)] = State(Len(e))
  BY <1>1
<1>4. State(0) = Tab(C, X, N) /\ State(Len(e)) = Tab(Renamed(C, r, DOMAIN r), X, N)
  BY <1>0, Renaming
<1>5. Follows(f, script, k, Tab(C, X, N), Tab(Renamed(C, r, DOMAIN r), X, N))
  BY <1>1, <1>2, <1>3, <1>4 DEF Follows
<1> HIDE DEF f, State
<1> QED BY <1>1, <1>5, TableBlock DEF Leads

DropsColumns(script, e, k) ==
  script = [i \in DOMAIN e |-> [op |-> "dropColumn", key |-> k, column |-> e[i]]]

LEMMA DropColumnBlock ==
  ASSUME NEW T, NEW E, NEW Q, NEW k, NEW C, NEW X, NEW N,
         IsFcn(C), NEW e, IsSeq(e), NEW script,
         DropsColumns(script, e, k)
  PROVE  Leads(script, Snap(With(T, k, Tab(C, X, N)), E, Q),
               Snap(With(T, k, Tab(Restrict(C, DOMAIN C \ ToSet(e)), X, N)), E, Q))
<1> DEFINE State(i) == Tab(Dropped(C, e, i), X, N)
           f == [i \in 0..Len(e) |-> State(i)]
<1>0. IsSeq(e)
  OBVIOUS
<1>1. /\ IsSeq(script) /\ Len(script) = Len(e) /\ Len(script) \in Nat
      /\ DOMAIN e = 1..Len(e)
  BY <1>0, OnePerItem DEF DropsColumns
<1>2. ASSUME NEW i \in 1..Len(script)
      PROVE  /\ About(script[i], k)
             /\ f[i] = ApplyToTable(f[i - 1], script[i])
  <2>0. i \in 1..Len(e)
    BY <1>1
  <2>1. Without(Dropped(C, e, i - 1), e[i]) = Dropped(C, e, i)
    BY <1>0, <2>0, Dropping
  <2>2. script[i] = [op |-> "dropColumn", key |-> k, column |-> e[i]]
    BY <1>1 DEF DropsColumns
  <2>3. ApplyToTable(State(i - 1), script[i]) = State(i)
    BY <2>1, <2>2, ApplyDropColumn
  <2>4. f[i] = State(i) /\ f[i - 1] = State(i - 1)
    BY <1>1
  <2>5. About(script[i], k)
    BY <2>2 DEF TableOps, About
  <2> HIDE DEF State, f
  <2> QED BY <2>3, <2>4, <2>5
<1>3. f[0] = State(0) /\ f[Len(e)] = State(Len(e))
  BY <1>1
<1>4. State(0) = Tab(C, X, N) /\ State(Len(e)) = Tab(Restrict(C, DOMAIN C \ ToSet(e)), X, N)
  BY <1>0, Dropping
<1>5. Follows(f, script, k, Tab(C, X, N), Tab(Restrict(C, DOMAIN C \ ToSet(e)), X, N))
  BY <1>1, <1>2, <1>3, <1>4 DEF Follows
<1> HIDE DEF f, State
<1> QED BY <1>1, <1>5, TableBlock DEF Leads

AddsConstraints(script, e, k, g) ==
  script = [i \in DOMAIN e |->
    [op |-> "addConstraint", key |-> k, name |-> e[i], columns |-> g[e[i]]]]

LEMMA AddConstraintBlock ==
  ASSUME NEW T, NEW E, NEW Q, NEW k, NEW C, NEW X, NEW N,
         IsFcn(N), NEW g, NEW e, IsSeq(e), NEW script,
         AddsConstraints(script, e, k, g)
  PROVE  Leads(script, Snap(With(T, k, Tab(C, X, N)), E, Q),
               Snap(With(T, k, Tab(C, X, Extended(N, g, ToSet(e)))), E, Q))
<1> DEFINE State(i) == Tab(C, X, Extended(N, g, First(e, i)))
           f == [i \in 0..Len(e) |-> State(i)]
<1>0. IsSeq(e)
  OBVIOUS
<1>1. /\ IsSeq(script) /\ Len(script) = Len(e) /\ Len(script) \in Nat
      /\ DOMAIN e = 1..Len(e)
  BY <1>0, OnePerItem DEF AddsConstraints
<1>2. ASSUME NEW i \in 1..Len(script)
      PROVE  /\ About(script[i], k)
             /\ f[i] = ApplyToTable(f[i - 1], script[i])
  <2>0. i \in 1..Len(e)
    BY <1>1
  <2>1. With(Extended(N, g, First(e, i - 1)), e[i], g[e[i]]) = Extended(N, g, First(e, i))
    BY <1>0, <2>0, ExtendingOnce
  <2>2. script[i] = [op |-> "addConstraint", key |-> k, name |-> e[i], columns |-> g[e[i]]]
    BY <1>1 DEF AddsConstraints
  <2>3. ApplyToTable(State(i - 1), script[i]) = State(i)
    BY <2>1, <2>2, ApplyAddConstraint
  <2>4. f[i] = State(i) /\ f[i - 1] = State(i - 1)
    BY <1>1
  <2>5. About(script[i], k)
    BY <2>2 DEF TableOps, About
  <2> HIDE DEF State, f
  <2> QED BY <2>3, <2>4, <2>5
<1>3. f[0] = State(0) /\ f[Len(e)] = State(Len(e))
  BY <1>1
<1>4. State(0) = Tab(C, X, N) /\ State(Len(e)) = Tab(C, X, Extended(N, g, ToSet(e)))
  BY <1>0, Extending
<1>5. Follows(f, script, k, Tab(C, X, N), Tab(C, X, Extended(N, g, ToSet(e))))
  BY <1>1, <1>2, <1>3, <1>4 DEF Follows
<1> HIDE DEF f, State
<1> QED BY <1>1, <1>5, TableBlock DEF Leads

CreatesIndexes(script, e, k, g) ==
  script = [i \in DOMAIN e |->
    [op |-> "createIndex", key |-> k, name |-> e[i], columns |-> g[e[i]]]]

LEMMA CreateIndexBlock ==
  ASSUME NEW T, NEW E, NEW Q, NEW k, NEW C, NEW X, NEW N,
         IsFcn(X), NEW g, NEW e, IsSeq(e), NEW script,
         CreatesIndexes(script, e, k, g)
  PROVE  Leads(script, Snap(With(T, k, Tab(C, X, N)), E, Q),
               Snap(With(T, k, Tab(C, Extended(X, g, ToSet(e)), N)), E, Q))
<1> DEFINE State(i) == Tab(C, Extended(X, g, First(e, i)), N)
           f == [i \in 0..Len(e) |-> State(i)]
<1>0. IsSeq(e)
  OBVIOUS
<1>1. /\ IsSeq(script) /\ Len(script) = Len(e) /\ Len(script) \in Nat
      /\ DOMAIN e = 1..Len(e)
  BY <1>0, OnePerItem DEF CreatesIndexes
<1>2. ASSUME NEW i \in 1..Len(script)
      PROVE  /\ About(script[i], k)
             /\ f[i] = ApplyToTable(f[i - 1], script[i])
  <2>0. i \in 1..Len(e)
    BY <1>1
  <2>1. With(Extended(X, g, First(e, i - 1)), e[i], g[e[i]]) = Extended(X, g, First(e, i))
    BY <1>0, <2>0, ExtendingOnce
  <2>2. script[i] = [op |-> "createIndex", key |-> k, name |-> e[i], columns |-> g[e[i]]]
    BY <1>1 DEF CreatesIndexes
  <2>3. ApplyToTable(State(i - 1), script[i]) = State(i)
    BY <2>1, <2>2, ApplyCreateIndex
  <2>4. f[i] = State(i) /\ f[i - 1] = State(i - 1)
    BY <1>1
  <2>5. About(script[i], k)
    BY <2>2 DEF TableOps, About
  <2> HIDE DEF State, f
  <2> QED BY <2>3, <2>4, <2>5
<1>3. f[0] = State(0) /\ f[Len(e)] = State(Len(e))
  BY <1>1
<1>4. State(0) = Tab(C, X, N) /\ State(Len(e)) = Tab(C, Extended(X, g, ToSet(e)), N)
  BY <1>0, Extending
<1>5. Follows(f, script, k, Tab(C, X, N), Tab(C, Extended(X, g, ToSet(e)), N))
  BY <1>1, <1>2, <1>3, <1>4 DEF Follows
<1> HIDE DEF f, State
<1> QED BY <1>1, <1>5, TableBlock DEF Leads

(* The columns of a table whose own constraints have gone with some names. *)
Cleared(C, k, S) ==
  [c \in DOMAIN C |->
     Col(C[c].type, C[c].unique /\ ~\E n \in S : OwnConstraint(k, c, n),
         C[c].references)]

AreColumns(C) ==
  \A c \in DOMAIN C : /\ C[c] = Col(C[c].type, C[c].unique, C[c].references)
                      /\ C[c].unique \in BOOLEAN

LEMMA ApplyDropConstraint ==
  ASSUME NEW C, AreColumns(C), NEW X, NEW N, NEW k, NEW n
  PROVE  ApplyToTable(Tab(C, X, N), [op |-> "dropConstraint", key |-> k, name |-> n])
           = Tab(Cleared(C, k, {n}), X, Without(N, n))
<1> DEFINE D == [c \in DOMAIN C |-> IF OwnConstraint(k, c, n)
                                    THEN [C[c] EXCEPT !.unique = FALSE] ELSE C[c]]
<1>1. ApplyToTable(Tab(C, X, N), [op |-> "dropConstraint", key |-> k, name |-> n])
        = Tab(D, X, Without(N, n))
  BY DEF ApplyToTable, Tab
<1>2. ASSUME NEW c \in DOMAIN C
      PROVE  D[c] = Col(C[c].type, C[c].unique /\ ~\E m \in {n} : OwnConstraint(k, c, m),
                        C[c].references)
  <2>1. C[c] = Col(C[c].type, C[c].unique, C[c].references) /\ C[c].unique \in BOOLEAN
    BY DEF AreColumns
  <2>2. CASE OwnConstraint(k, c, n)
    <3>1. D[c] = [C[c] EXCEPT !.unique = FALSE]
      BY <2>2
    <3>2. D[c] = Col(C[c].type, FALSE, C[c].references)
      BY <2>1, <3>1 DEF Col
    <3> QED BY <2>2, <3>2
  <2>3. CASE ~OwnConstraint(k, c, n)
    <3>1. (C[c].unique /\ ~\E m \in {n} : OwnConstraint(k, c, m)) = C[c].unique
      BY <2>1, <2>3
    <3> QED BY <2>1, <2>3, <3>1
  <2> QED BY <2>2, <2>3
<1>3. D = Cleared(C, k, {n})
  <2>1. D = [c \in DOMAIN C |-> D[c]]
    OBVIOUS
  <2> HIDE DEF D
  <2> QED BY <1>2, <2>1 DEF Cleared
<1> QED BY <1>1, <1>3

LEMMA Clearing ==
  ASSUME NEW C, IsFcn(C), AreColumns(C), NEW k
  PROVE  /\ Cleared(C, k, {}) = C
         /\ \A S : AreColumns(Cleared(C, k, S))
<1>1. Cleared(C, k, {}) = C
  <2>1. \A c \in DOMAIN C :
          Col(C[c].type, C[c].unique /\ ~\E n \in {} : OwnConstraint(k, c, n),
              C[c].references) = C[c]
    <3> TAKE c \in DOMAIN C
    <3>1. C[c] = Col(C[c].type, C[c].unique, C[c].references) /\ C[c].unique \in BOOLEAN
      BY DEF AreColumns
    <3>2. (C[c].unique /\ ~\E n \in {} : OwnConstraint(k, c, n)) = C[c].unique
      BY <3>1
    <3> QED BY <3>1, <3>2
  <2> QED BY <2>1 DEF Cleared, IsFcn
<1>2. ASSUME NEW S, NEW c \in DOMAIN C
      PROVE  LET v == Cleared(C, k, S)[c] IN
             /\ v.type = C[c].type /\ v.references = C[c].references
             /\ v.unique = (C[c].unique /\ ~\E n \in S : OwnConstraint(k, c, n))
             /\ v = Col(v.type, v.unique, v.references)
  BY DEF Cleared, Col
<1>3. \A S : DOMAIN Cleared(C, k, S) = DOMAIN C
  BY DEF Cleared
<1>4. ASSUME NEW S
      PROVE  AreColumns(Cleared(C, k, S))
  <2>1. \A c \in DOMAIN C : C[c].unique \in BOOLEAN
    BY DEF AreColumns
  <2>2. \A c \in DOMAIN C : Cleared(C, k, S)[c].unique \in BOOLEAN
    BY <1>2, <2>1
  <2> QED BY <1>2, <1>3, <2>2 DEF AreColumns
<1> QED BY <1>1, <1>4

LEMMA ClearedTwice ==
  ASSUME NEW C, NEW k, NEW S, NEW R
  PROVE  Cleared(Cleared(C, k, S), k, R) = Cleared(C, k, S \cup R)
<1> DEFINE D == Cleared(C, k, S)
<1>1. DOMAIN D = DOMAIN C
  BY DEF Cleared
<1>2. ASSUME NEW c \in DOMAIN C
      PROVE  /\ D[c].type = C[c].type /\ D[c].references = C[c].references
             /\ D[c].unique = (C[c].unique /\ ~\E n \in S : OwnConstraint(k, c, n))
  BY DEF Cleared, Col
<1> HIDE DEF D
<1>3. ASSUME NEW c \in DOMAIN C
      PROVE  Col(D[c].type, D[c].unique /\ ~\E n \in R : OwnConstraint(k, c, n), D[c].references)
               = Col(C[c].type, C[c].unique /\ ~\E n \in S \cup R : OwnConstraint(k, c, n),
                     C[c].references)
  <2>1. (D[c].unique /\ ~\E n \in R : OwnConstraint(k, c, n))
          = (C[c].unique /\ ~\E n \in S \cup R : OwnConstraint(k, c, n))
    BY <1>2
  <2> QED BY <1>2, <2>1
<1>4. Cleared(D, k, R) = Cleared(C, k, S \cup R)
  BY <1>1, <1>3 DEF Cleared
<1> QED BY <1>4 DEF D

DropsConstraints(script, e, k) ==
  script = [i \in DOMAIN e |-> [op |-> "dropConstraint", key |-> k, name |-> e[i]]]

LEMMA DropConstraintBlock ==
  ASSUME NEW T, NEW E, NEW Q, NEW k, NEW C, NEW X, NEW N,
         IsFcn(C), AreColumns(C), IsFcn(N), NEW e, IsSeq(e), NEW script,
         DropsConstraints(script, e, k)
  PROVE  Leads(script, Snap(With(T, k, Tab(C, X, N)), E, Q),
               Snap(With(T, k, Tab(Cleared(C, k, ToSet(e)), X, Restrict(N, DOMAIN N \ ToSet(e)))), E, Q))
<1> DEFINE State(i) == Tab(Cleared(C, k, First(e, i)), X, Dropped(N, e, i))
           f == [i \in 0..Len(e) |-> State(i)]
<1>0. IsSeq(e)
  OBVIOUS
<1>1. /\ IsSeq(script) /\ Len(script) = Len(e) /\ Len(script) \in Nat
      /\ DOMAIN e = 1..Len(e)
  BY <1>0, OnePerItem DEF DropsConstraints
<1>2. ASSUME NEW i \in 1..Len(script)
      PROVE  /\ About(script[i], k)
             /\ f[i] = ApplyToTable(f[i - 1], script[i])
  <2>0. i \in 1..Len(e)
    BY <1>1
  <2>1. /\ Without(Dropped(N, e, i - 1), e[i]) = Dropped(N, e, i)
        /\ Cleared(Cleared(C, k, First(e, i - 1)), k, {e[i]}) = Cleared(C, k, First(e, i))
        /\ AreColumns(Cleared(C, k, First(e, i - 1)))
    <3>1. First(e, i) = First(e, i - 1) \cup {e[i]}
      BY <1>0, <2>0, FirstItems
    <3>2. Without(Dropped(N, e, i - 1), e[i]) = Dropped(N, e, i)
      BY <1>0, <2>0, Dropping
    <3> DEFINE S == First(e, i - 1)
               x == e[i]
    <3> HIDE DEF S, x
    <3>3. Cleared(Cleared(C, k, S), k, {x}) = Cleared(C, k, S \cup {x})
      BY ClearedTwice
    <3>4. AreColumns(Cleared(C, k, S))
      BY Clearing
    <3> QED BY <3>1, <3>2, <3>3, <3>4 DEF S, x
  <2>2. script[i] = [op |-> "dropConstraint", key |-> k, name |-> e[i]]
    BY <1>1 DEF DropsConstraints
  <2>3. ApplyToTable(State(i - 1), script[i]) = State(i)
    BY <2>1, <2>2, ApplyDropConstraint
  <2>4. f[i] = State(i) /\ f[i - 1] = State(i - 1)
    BY <1>1
  <2>5. About(script[i], k)
    BY <2>2 DEF TableOps, About
  <2> HIDE DEF State, f
  <2> QED BY <2>3, <2>4, <2>5
<1>3. f[0] = State(0) /\ f[Len(e)] = State(Len(e))
  BY <1>1
<1>4. State(0) = Tab(C, X, N) /\ State(Len(e)) = Tab(Cleared(C, k, ToSet(e)), X, Restrict(N, DOMAIN N \ ToSet(e)))
  BY <1>0, Dropping, Clearing, FirstItems
<1>5. Follows(f, script, k, Tab(C, X, N), Tab(Cleared(C, k, ToSet(e)), X, Restrict(N, DOMAIN N \ ToSet(e))))
  BY <1>1, <1>2, <1>3, <1>4 DEF Follows
<1> HIDE DEF f, State
<1> QED BY <1>1, <1>5, TableBlock DEF Leads

-----------------------------------------------------------------------------
(* Indexes, which are dropped by their names alone.                        *)

(* Tables that differ in their indexes only. *)
AreTables(T) ==
  /\ IsFcn(T)
  /\ \A u \in DOMAIN T :
       T[u] = Tab(T[u].columns, T[u].indexes, T[u].constraints) /\ IsMap(T[u].indexes)

SameButIndexes(T, U) ==
  /\ DOMAIN U = DOMAIN T
  /\ \A u \in DOMAIN T : /\ U[u].columns = T[u].columns
                         /\ U[u].constraints = T[u].constraints

LEMMA TabFields ==
  ASSUME NEW C, NEW X, NEW N
  PROVE  /\ Tab(C, X, N).columns = C /\ Tab(C, X, N).indexes = X
         /\ Tab(C, X, N).constraints = N
BY DEF Tab

LEMMA WithSame ==
  ASSUME NEW T, IsFcn(T), NEW k \in DOMAIN T
  PROVE  With(T, k, T[k]) = T
<1>1. With(T, k, T[k]) = [y \in DOMAIN T |-> IF y = k THEN T[k] ELSE T[y]]
  <2>1. DOMAIN T \cup {k} = DOMAIN T
    OBVIOUS
  <2> QED BY <2>1 DEF With
<1>2. \A y \in DOMAIN T : (IF y = k THEN T[k] ELSE T[y]) = T[y]
  OBVIOUS
<1> QED BY <1>1, <1>2 DEF IsFcn

LEMMA MapWithout ==
  ASSUME NEW f, IsMap(f), NEW S
  PROVE  IsMap(Restrict(f, DOMAIN f \ S))
<1> DEFINE D == DOMAIN f \ S
<1>1. IsFiniteSet(D)
  BY FS_Subset DEF IsMap
<1> HIDE DEF D
<1>2. IsMap(Restrict(f, D))
  BY <1>1 DEF IsMap, Restrict
<1> QED BY <1>2 DEF D

(* DROP INDEX at a table that has the index. *)
LEMMA DropIndexAt ==
  ASSUME NEW T, NEW E, NEW Q, NEW n, AreTables(T),
         NEW k \in {u \in DOMAIN T : n \in DOMAIN T[u].indexes},
         k = CHOOSE owner \in {u \in DOMAIN T : n \in DOMAIN T[u].indexes} : TRUE
  PROVE  Apply(Snap(T, E, Q), [op |-> "dropIndex", name |-> n])
           = Snap(With(T, k, Tab(T[k].columns, Without(T[k].indexes, n), T[k].constraints)), E, Q)
<1> DEFINE s == Snap(T, E, Q)
           t == T[k]
           v == Tab(t.columns, Without(t.indexes, n), t.constraints)
           r == [s EXCEPT !.tables[k].indexes = Without(@, n)]
<1>1. Apply(s, [op |-> "dropIndex", name |-> n]) = r
  BY DEF Apply, Snap
<1>2. t = Tab(t.columns, t.indexes, t.constraints)
  BY DEF AreTables
<1>3. [t EXCEPT !.indexes = Without(@, n)] = v
  <2> HIDE DEF t
  <2> QED BY <1>2 DEF Tab
<1>4. r = Snap([T EXCEPT ![k] = v], E, Q)
  <2> DEFINE w == [t EXCEPT !.indexes = Without(@, n)]
  <2>1. r = [s EXCEPT !.tables = [s.tables EXCEPT ![k] = [s.tables[k] EXCEPT !.indexes = Without(s.tables[k].indexes, n)]]]
    OBVIOUS
  <2>2. s.tables = T
    BY DEF Snap
  <2>3. r = [s EXCEPT !.tables = [T EXCEPT ![k] = w]]
    BY <2>1, <2>2
  <2> HIDE DEF w, v, r
  <2>4. r = Snap([T EXCEPT ![k] = w], E, Q)
    BY <2>3 DEF Snap
  <2> QED BY <1>3, <2>4 DEF w
<1>5. [T EXCEPT ![k] = v] = With(T, k, v)
  <2> HIDE DEF v
  <2>1. DOMAIN T \cup {k} = DOMAIN T
    OBVIOUS
  <2>2. With(T, k, v) = [y \in DOMAIN T |-> IF y = k THEN v ELSE T[y]]
    BY <2>1 DEF With
  <2>3. [T EXCEPT ![k] = v] = [y \in DOMAIN T |-> IF y = k THEN v ELSE T[y]]
    BY DEF AreTables, IsFcn
  <2> QED BY <2>2, <2>3
<1> QED BY <1>1, <1>4, <1>5

LEMMA ApplyDropIndex ==
  ASSUME NEW T, NEW E, NEW Q, NEW n, AreTables(T)
  PROVE  \E U : /\ Apply(Snap(T, E, Q), [op |-> "dropIndex", name |-> n]) = Snap(U, E, Q)
                /\ AreTables(U) /\ SameButIndexes(T, U)
<1> DEFINE owners == {u \in DOMAIN T : n \in DOMAIN T[u].indexes}
           st == [op |-> "dropIndex", name |-> n]
<1>1. CASE owners = {}
  <2>1. Apply(Snap(T, E, Q), st) = Snap(T, E, Q)
    BY <1>1 DEF Apply, Snap
  <2>2. SameButIndexes(T, T)
    BY DEF SameButIndexes
  <2> QED BY <2>1, <2>2
<1>2. CASE owners # {}
  <2> DEFINE k == CHOOSE owner \in owners : TRUE
             v == Tab(T[k].columns, Without(T[k].indexes, n), T[k].constraints)
             U == With(T, k, v)
  <2>1. k \in owners
    BY <1>2
  <2>2. Apply(Snap(T, E, Q), st) = Snap(U, E, Q)
    BY <2>1, DropIndexAt
  <2>3. IsMap(Without(T[k].indexes, n))
    BY <2>1, MapWithout DEF AreTables, Without
  <2>4. v.columns = T[k].columns /\ v.indexes = Without(T[k].indexes, n) /\ v.constraints = T[k].constraints
    BY TabFields
  <2>5. k \in DOMAIN T
    BY <2>1
  <2> HIDE DEF k
  <2>6. v = Tab(v.columns, v.indexes, v.constraints)
    BY <2>4
  <2> HIDE DEF v
  <2>7. DOMAIN U = DOMAIN T /\ U[k] = v /\ \A y \in DOMAIN T : y # k => U[y] = T[y]
    <3>1. DOMAIN U = DOMAIN T \cup {k} /\ U[k] = v
      BY DEF With
    <3>2. \A y \in DOMAIN T : y # k => U[y] = T[y]
      BY DEF With
    <3>3. DOMAIN T \cup {k} = DOMAIN T
      BY <2>5
    <3> QED BY <3>1, <3>2, <3>3
  <2>8. IsFcn(U)
    BY DEF With, IsFcn
  <2> HIDE DEF U
  <2>9. SameButIndexes(T, U)
    BY <2>4, <2>7 DEF SameButIndexes
  <2>10. ASSUME NEW u \in DOMAIN U
         PROVE  U[u] = Tab(U[u].columns, U[u].indexes, U[u].constraints) /\ IsMap(U[u].indexes)
    <3>1. CASE u = k
      BY <2>3, <2>4, <2>6, <2>7, <3>1
    <3>2. CASE u # k
      BY <2>7, <3>2 DEF AreTables
    <3> QED BY <3>1, <3>2
  <2>11. AreTables(U)
    BY <2>8, <2>10 DEF AreTables
  <2> QED BY <2>2, <2>9, <2>11
<1> QED BY <1>1, <1>2

DropsIndexes(script, e) ==
  script = [i \in DOMAIN e |-> [op |-> "dropIndex", name |-> e[i]]]

(* Some tables, which differ from T in their indexes only. *)
Differing(s, T, E, Q) ==
  \E U : s = Snap(U, E, Q) /\ AreTables(U) /\ SameButIndexes(T, U)

LEMMA DifferingOnce ==
  ASSUME NEW T, NEW E, NEW Q, NEW s, Differing(s, T, E, Q), NEW n
  PROVE  Differing(Apply(s, [op |-> "dropIndex", name |-> n]), T, E, Q)
<1>1. PICK U : s = Snap(U, E, Q) /\ AreTables(U) /\ SameButIndexes(T, U)
  BY DEF Differing
<1>2. PICK V : /\ Apply(Snap(U, E, Q), [op |-> "dropIndex", name |-> n]) = Snap(V, E, Q)
               /\ AreTables(V) /\ SameButIndexes(U, V)
  BY <1>1, ApplyDropIndex
<1>3. SameButIndexes(T, V)
  BY <1>1, <1>2 DEF SameButIndexes
<1> QED BY <1>1, <1>2, <1>3 DEF Differing

(* Whoever loses the indexes: nothing else changes. *)
LEMMA DropIndexBlockAnyway ==
  ASSUME NEW T, NEW E, NEW Q, AreTables(T), NEW e, IsSeq(e), NEW script,
         DropsIndexes(script, e)
  PROVE  IsSeq(script) /\ Differing(Replay(Snap(T, E, Q), script), T, E, Q)
<1> DEFINE R == Replayed(Snap(T, E, Q), script)
           J == {i \in 0..Len(script) : Differing(R[i], T, E, Q)}
<1>1. /\ IsSeq(script) /\ Len(script) = Len(e) /\ Len(script) \in Nat
      /\ DOMAIN e = 1..Len(e)
  BY OnePerItem DEF DropsIndexes
<1>2. R[0] = Snap(T, E, Q) /\ \A i \in 1..Len(script) : R[i] = Apply(R[i - 1], script[i])
  BY <1>1, ReplayedDefined
<1>3. \A i \in 1..Len(script) : script[i] = [op |-> "dropIndex", name |-> e[i]]
  BY <1>1 DEF DropsIndexes
<1>4. Replay(Snap(T, E, Q), script) = R[Len(script)]
  BY DEF Replay
<1> HIDE DEF R
<1>5. 0 \in J
  <2>1. SameButIndexes(T, T)
    BY DEF SameButIndexes
  <2> QED BY <1>1, <1>2, <2>1 DEF Differing
<1>6. ASSUME NEW i \in 0..Len(script), i \in J, i < Len(script)
      PROVE  i + 1 \in J
  <2> DEFINE x == e[i + 1]
             s == R[i]
  <2>1. i + 1 \in 1..Len(script) /\ (i + 1) - 1 = i
    BY <1>1, <1>6
  <2>2. R[i + 1] = Apply(s, script[i + 1]) /\ script[i + 1] = [op |-> "dropIndex", name |-> x]
    BY <1>2, <1>3, <2>1
  <2>3. Differing(s, T, E, Q)
    BY <1>6
  <2> HIDE DEF x, s
  <2>4. Differing(R[i + 1], T, E, Q)
    BY <2>2, <2>3, DifferingOnce
  <2> QED BY <2>1, <2>4
<1>7. \A i \in 0..Len(script) : i \in J
  <2> HIDE DEF J
  <2> QED BY <1>1, <1>5, <1>6, Upwards
<1>8. Len(script) \in J
  BY <1>1, <1>7
<1> QED BY <1>1, <1>4, <1>8

(* No other table has an index of one of these names. *)
Alone(T, k, S) ==
  \A u \in DOMAIN T \ {k} : DOMAIN T[u].indexes \cap S = {}

LEMMA DropIndexBlockAlone ==
  ASSUME NEW T, NEW E, NEW Q, AreTables(T), NEW k \in DOMAIN T,
         NEW C, NEW X, NEW N, T[k] = Tab(C, X, N),
         NEW S, S \subseteq DOMAIN X, Alone(T, k, S),
         NEW e, Lists(e, S), NEW script, DropsIndexes(script, e)
  PROVE  Leads(script, Snap(T, E, Q),
               Snap(With(T, k, Tab(C, Restrict(X, DOMAIN X \ S), N)), E, Q))
<1> DEFINE W(i) == With(T, k, Tab(C, Dropped(X, e, i), N))
           State(i) == Snap(W(i), E, Q)
           f == [i \in 0..Len(e) |-> State(i)]
<1>0. IsSeq(e)
  BY DEF Lists
<1>1. /\ IsSeq(script) /\ Len(script) = Len(e) /\ Len(script) \in Nat
      /\ DOMAIN e = 1..Len(e)
  BY <1>0, OnePerItem DEF DropsIndexes
<1>x. IsMap(X) /\ IsFcn(X) /\ IsFcn(T)
  <2>1. T[k].indexes = X
    BY TabFields
  <2> QED BY <2>1 DEF AreTables, IsMap, IsFcn
<1>2. ASSUME NEW i \in 1..Len(e)
      PROVE  f[i] = Apply(f[i - 1], script[i])
  <2> DEFINE n == e[i]
             Y == Dropped(X, e, i - 1)
             V == With(T, k, Tab(C, Y, N))
             st == [op |-> "dropIndex", name |-> n]
  <2>1. n \in S /\ n \notin First(e, i - 1)
    BY OneMore
  <2>2. Without(Y, n) = Dropped(X, e, i)
    BY <1>0, <1>x, Dropping
  <2>3. IsMap(Y)
    BY <1>x, MapWithout DEF Dropped
  <2>4. n \in DOMAIN Y
    BY <2>1 DEF Dropped, Restrict
  <2>5. script[i] = st
    BY <1>1 DEF DropsIndexes
  <2>f. f[i] = State(i) /\ f[i - 1] = Snap(V, E, Q)
    BY <1>1
  <2> HIDE DEF n, Y, f
  <2>6. /\ DOMAIN V = DOMAIN T /\ V[k] = Tab(C, Y, N) /\ IsFcn(V)
        /\ \A u \in DOMAIN T : u # k => V[u] = T[u]
    <3> DEFINE w == Tab(C, Y, N)
    <3> HIDE DEF w
    <3>1. /\ DOMAIN With(T, k, w) = DOMAIN T \cup {k} /\ With(T, k, w)[k] = w
          /\ IsFcn(With(T, k, w))
          /\ \A u \in DOMAIN T : u # k => With(T, k, w)[u] = T[u]
      BY DEF With, IsFcn
    <3>2. DOMAIN T \cup {k} = DOMAIN T
      OBVIOUS
    <3> QED BY <3>1, <3>2 DEF w
  <2> HIDE DEF V
  <2>7. V[k].columns = C /\ V[k].indexes = Y /\ V[k].constraints = N
    BY <2>6, TabFields
  <2>8. AreTables(V)
    <3> SUFFICES ASSUME NEW u \in DOMAIN V
                 PROVE  V[u] = Tab(V[u].columns, V[u].indexes, V[u].constraints)
                        /\ IsMap(V[u].indexes)
      BY <2>6 DEF AreTables
    <3>1. CASE u = k
      BY <2>3, <2>6, <2>7, <3>1
    <3>2. CASE u # k
      BY <2>6, <3>2 DEF AreTables
    <3> QED BY <3>1, <3>2
  <2> DEFINE owners == {u \in DOMAIN V : n \in DOMAIN V[u].indexes}
  <2>9. owners = {k}
    <3>1. k \in owners
      BY <2>4, <2>6, <2>7
    <3>2. ASSUME NEW u \in DOMAIN V, u # k
          PROVE  n \notin DOMAIN V[u].indexes
      BY <2>1, <2>6, <3>2 DEF Alone
    <3> QED BY <3>1, <3>2
  <2>10. k \in owners /\ k = CHOOSE owner \in owners : TRUE
    BY <2>9
  <2>11. Apply(Snap(V, E, Q), st)
           = Snap(With(V, k, Tab(V[k].columns, Without(V[k].indexes, n), V[k].constraints)), E, Q)
    BY <2>8, <2>10, DropIndexAt
  <2>12. With(V, k, Tab(C, Without(Y, n), N)) = W(i)
    BY <2>2, WithTwice DEF V
  <2>13. Apply(Snap(V, E, Q), st) = State(i)
    BY <2>7, <2>11, <2>12
  <2> HIDE DEF State, st
  <2> QED BY <2>f, <2>5, <2>13
<1>3. f[0] = State(0) /\ f[Len(e)] = State(Len(e))
  BY <1>1
<1>4. W(0) = T
  BY <1>0, <1>x, Dropping, WithSame
<1>5. W(Len(e)) = With(T, k, Tab(C, Restrict(X, DOMAIN X \ S), N))
  BY <1>0, <1>x, Dropping DEF Lists
<1>6. Replay(f[0], script) = f[Len(e)]
  <2> HIDE DEF f
  <2> QED BY <1>1, <1>2, Block
<1> HIDE DEF f, W
<1>7. Replay(Snap(T, E, Q), script)
        = Snap(With(T, k, Tab(C, Restrict(X, DOMAIN X \ S), N)), E, Q)
  BY <1>3, <1>4, <1>5, <1>6
<1> QED BY <1>1, <1>7 DEF Leads

-----------------------------------------------------------------------------
(* The columns of a table, altered one after the other.                     *)

(* A part of a script that is one statement or none, and the table before   *)
(* and after it.                                                            *)
Optional(part, st, t, u) ==
  \/ part = <<st>> /\ u = ApplyToTable(t, st)
  \/ part = <<>> /\ u = t

LEMMA OptionalInTable ==
  ASSUME NEW T, NEW E, NEW Q, NEW k, NEW t, NEW u, NEW st, About(st, k), NEW part,
         Optional(part, st, t, u)
  PROVE  /\ IsSeq(part)
         /\ Replay(Snap(With(T, k, t), E, Q), part) = Snap(With(T, k, u), E, Q)
<1> DEFINE s == Snap(With(T, k, t), E, Q)
<1>1. Replay(s, <<>>) = s /\ Replay(s, <<st>>) = Apply(s, st)
  BY ReplayFew
<1>2. Apply(s, st) = Snap(With(T, k, ApplyToTable(t, st)), E, Q)
  BY ApplyInTable
<1>3. IsSeq(<<>>) /\ IsSeq(<<st>>)
  BY NoItems, Singleton
<1> HIDE DEF s
<1>4. CASE part = <<st>> /\ u = ApplyToTable(t, st)
  BY <1>1, <1>2, <1>3, <1>4 DEF s
<1>5. CASE part = <<>> /\ u = t
  BY <1>1, <1>3, <1>5 DEF s
<1> QED BY <1>4, <1>5 DEF Optional

(* A column is replaced by an altered one. *)
Replaced(W, c, v) == [d \in DOMAIN W |-> IF d = c THEN v ELSE W[d]]

LEMMA ReplacedOnce ==
  ASSUME NEW C, NEW c, NEW v, NEW w
  PROVE  Replaced(With(C, c, v), c, w) = With(C, c, w)
<1>1. DOMAIN With(C, c, v) = DOMAIN C \cup {c}
  BY DEF With
<1>2. \A d \in DOMAIN C \cup {c} :
        (IF d = c THEN w ELSE With(C, c, v)[d]) = IF d = c THEN w ELSE C[d]
  BY DEF With
<1> QED BY <1>1, <1>2 DEF With, Replaced

LEMMA ReplacedIn ==
  ASSUME NEW C, NEW X, NEW N, NEW c, NEW v, NEW w
  PROVE  [Tab(With(C, c, v), X, N) EXCEPT !.columns = Replaced(With(C, c, v), c, w)]
           = Tab(With(C, c, w), X, N)
BY ReplacedOnce DEF Tab

LEMMA AlterType ==
  ASSUME NEW C, NEW X, NEW N, NEW k, NEW c, NEW a, NEW b, NEW d, NEW v
  PROVE  ApplyToTable(Tab(With(C, c, Col(a, b, d)), X, N),
           [op |-> "alterColumnType", key |-> k, column |-> c, type |-> v])
           = Tab(With(C, c, Col(v, b, d)), X, N)
<1> DEFINE W == With(C, c, Col(a, b, d))
           D == [x \in DOMAIN W |-> IF x = c THEN [W[x] EXCEPT !.type = v] ELSE W[x]]
           t == Tab(W, X, N)
<1>1. ApplyToTable(t, [op |-> "alterColumnType", key |-> k, column |-> c, type |-> v])
        = [t EXCEPT !.columns = D]
  BY DEF ApplyToTable, Tab
<1>2. W[c] = Col(a, b, d)
  BY DEF With
<1>3. [W[c] EXCEPT !.type = v] = Col(v, b, d)
  BY <1>2 DEF Col
<1> HIDE DEF W
<1>4. D = Replaced(W, c, Col(v, b, d))
  BY <1>3 DEF Replaced
<1>5. [t EXCEPT !.columns = Replaced(W, c, Col(v, b, d))]
        = Tab(With(C, c, Col(v, b, d)), X, N)
  BY ReplacedIn DEF W
<1> QED BY <1>1, <1>4, <1>5 DEF W

Holds(b) == b = TRUE

LEMMA AlterAddUnique ==
  ASSUME NEW C, NEW X, NEW N, NEW k, NEW c, NEW a, NEW b, NEW d, NEW yes, Holds(yes)
  PROVE  ApplyToTable(Tab(With(C, c, Col(a, b, d)), X, N),
           [op |-> "addUnique", key |-> k, column |-> c])
           = Tab(With(C, c, Col(a, yes, d)), X, N)
<1> DEFINE W == With(C, c, Col(a, b, d))
           D == [x \in DOMAIN W |-> IF x = c THEN [W[x] EXCEPT !.unique = yes] ELSE W[x]]
           t == Tab(W, X, N)
<1>1. ApplyToTable(t, [op |-> "addUnique", key |-> k, column |-> c])
        = [t EXCEPT !.columns = D]
  BY DEF ApplyToTable, Tab, Holds
<1>2. W[c] = Col(a, b, d)
  BY DEF With
<1>3. [W[c] EXCEPT !.unique = yes] = Col(a, yes, d)
  BY <1>2 DEF Col
<1> HIDE DEF W
<1>4. D = Replaced(W, c, Col(a, yes, d))
  BY <1>3 DEF Replaced
<1>5. [t EXCEPT !.columns = Replaced(W, c, Col(a, yes, d))]
        = Tab(With(C, c, Col(a, yes, d)), X, N)
  BY ReplacedIn DEF W
<1>6. ApplyToTable(t, [op |-> "addUnique", key |-> k, column |-> c])
        = Tab(With(C, c, Col(a, yes, d)), X, N)
  BY <1>1, <1>4, <1>5
<1> QED BY <1>6 DEF W

LEMMA AlterAddReference ==
  ASSUME NEW C, NEW X, NEW N, NEW k, NEW c, NEW a, NEW b, NEW d, NEW n, NEW v
  PROVE  ApplyToTable(Tab(With(C, c, Col(a, b, d)), X, N),
           [op |-> "addForeignKey", key |-> k, column |-> c, name |-> n, to |-> v])
           = Tab(With(C, c, Col(a, b, v)), X, N)
<1> DEFINE W == With(C, c, Col(a, b, d))
           D == [x \in DOMAIN W |-> IF x = c THEN [W[x] EXCEPT !.references = v] ELSE W[x]]
           t == Tab(W, X, N)
<1>1. ApplyToTable(t, [op |-> "addForeignKey", key |-> k, column |-> c, name |-> n, to |-> v])
        = [t EXCEPT !.columns = D]
  BY DEF ApplyToTable, Tab
<1>2. W[c] = Col(a, b, d)
  BY DEF With
<1>3. [W[c] EXCEPT !.references = v] = Col(a, b, v)
  BY <1>2 DEF Col
<1> HIDE DEF W
<1>4. D = Replaced(W, c, Col(a, b, v))
  BY <1>3 DEF Replaced
<1>5. [t EXCEPT !.columns = Replaced(W, c, Col(a, b, v))]
        = Tab(With(C, c, Col(a, b, v)), X, N)
  BY ReplacedIn DEF W
<1> QED BY <1>1, <1>4, <1>5 DEF W

LEMMA AlterDropReference ==
  ASSUME NEW C, NEW X, NEW N, NEW k, NEW c, NEW a, NEW b, NEW d, NEW n
  PROVE  ApplyToTable(Tab(With(C, c, Col(a, b, d)), X, N),
           [op |-> "dropForeignKey", key |-> k, column |-> c, name |-> n])
           = Tab(With(C, c, Col(a, b, None)), X, N)
<1> DEFINE W == With(C, c, Col(a, b, d))
           D == [x \in DOMAIN W |-> IF x = c THEN [W[x] EXCEPT !.references = None] ELSE W[x]]
           t == Tab(W, X, N)
<1>1. ApplyToTable(t, [op |-> "dropForeignKey", key |-> k, column |-> c, name |-> n])
        = [t EXCEPT !.columns = D]
  BY DEF ApplyToTable, Tab
<1>2. W[c] = Col(a, b, d)
  BY DEF With
<1>3. [W[c] EXCEPT !.references = None] = Col(a, b, None)
  BY <1>2 DEF Col
<1> HIDE DEF W
<1>4. D = Replaced(W, c, Col(a, b, None))
  BY <1>3 DEF Replaced
<1>5. [t EXCEPT !.columns = Replaced(W, c, Col(a, b, None))]
        = Tab(With(C, c, Col(a, b, None)), X, N)
  BY ReplacedIn DEF W
<1> QED BY <1>1, <1>4, <1>5 DEF W

IsColumn(v) ==
  v = Col(v.type, v.unique, v.references) /\ v.unique \in BOOLEAN

LEMMA ColFields ==
  ASSUME NEW a, NEW b, NEW d
  PROVE  Col(a, b, d).type = a /\ Col(a, b, d).unique = b /\ Col(a, b, d).references = d
BY DEF Col

(* What is left of the uniqueness of a column whose constraint is dropped. *)
Left(c) == IF c \in KeyColumns THEN TRUE ELSE FALSE

LEMMA AlterDropUnique ==
  ASSUME NEW C, AreColumns(C), NEW X, NEW N, NEW k, NEW c, NEW a, NEW b, Holds(b), NEW d
  PROVE  ApplyToTable(Tab(With(C, c, Col(a, b, d)), X, N),
           [op |-> "dropConstraint", key |-> k, name |-> AutoName(k, c, "key")])
           = Tab(With(C, c, Col(a, Left(c), d)), X, Without(N, AutoName(k, c, "key")))
<1> DEFINE W == With(C, c, Col(a, b, d))
           n == AutoName(k, c, "key")
           l == Left(c)
<1>0. DOMAIN W = DOMAIN C \cup {c} /\ W[c] = Col(a, b, d)
      /\ \A x \in DOMAIN C : x # c => W[x] = C[x]
  BY DEF With
<1>l. l \in BOOLEAN /\ (l = TRUE <=> c \in KeyColumns)
  BY DEF Left
<1> HIDE DEF W, l
<1>w. W[c].type = a /\ W[c].unique = b /\ W[c].references = d
  BY <1>0 DEF Col
<1>1. AreColumns(W)
  BY <1>0, <1>w DEF AreColumns, Holds
<1>2. ApplyToTable(Tab(W, X, N), [op |-> "dropConstraint", key |-> k, name |-> n])
        = Tab(Cleared(W, k, {n}), X, Without(N, n))
  BY <1>1, ApplyDropConstraint
<1>3. OwnConstraint(k, c, n) <=> c \notin KeyColumns
  BY NamesakesAssumption DEF OwnConstraint, AutoName
<1>4. \A x \in DOMAIN C : x # c => ~OwnConstraint(k, x, n)
  BY NamesakesAssumption DEF OwnConstraint, AutoName
<1> HIDE DEF n
<1>5. ASSUME NEW x \in DOMAIN C \cup {c}
      PROVE  Col(W[x].type, W[x].unique /\ ~\E m \in {n} : OwnConstraint(k, x, m), W[x].references)
               = IF x = c THEN Col(a, l, d) ELSE C[x]
  <2>1. CASE x = c
    <3>1. (W[c].unique /\ ~\E m \in {n} : OwnConstraint(k, c, m)) = l
      BY <1>w, <1>l, <1>3 DEF Holds
    <3> QED BY <1>w, <2>1, <3>1
  <2>2. CASE x # c
    <3>1. W[x] = C[x] /\ C[x] = Col(C[x].type, C[x].unique, C[x].references)
          /\ C[x].unique \in BOOLEAN
      BY <1>0, <2>2 DEF AreColumns
    <3>2. (W[x].unique /\ ~\E m \in {n} : OwnConstraint(k, x, m)) = C[x].unique
      BY <1>4, <2>2, <3>1
    <3> QED BY <2>2, <3>1, <3>2
  <2> QED BY <2>1, <2>2
<1>6. Cleared(W, k, {n}) = With(C, c, Col(a, l, d))
  BY <1>0, <1>5 DEF Cleared, With
<1>7. ApplyToTable(Tab(W, X, N), [op |-> "dropConstraint", key |-> k, name |-> n])
        = Tab(With(C, c, Col(a, l, d)), X, Without(N, n))
  BY <1>2, <1>6
<1> QED BY <1>7 DEF W, n, l

(* What the statements for a column make of it and of the table's names. *)
Altered(c, p, q) ==
  Col(q.type, IF q.unique THEN TRUE ELSE IF p.unique THEN Left(c) ELSE FALSE, q.references)

Named(N, k, c, p, q) ==
  IF p.unique /\ ~q.unique THEN Without(N, AutoName(k, c, "key")) ELSE N

LEMMA AlterColumnReplay ==
  ASSUME NEW T, NEW E, NEW Q, NEW C, AreColumns(C), NEW X, NEW N, NEW k, NEW c,
         NEW p, IsColumn(p), NEW q, IsColumn(q)
  PROVE  /\ IsSeq(AlterColumn(k, c, p, q))
         /\ Replay(Snap(With(T, k, Tab(With(C, c, p), X, N)), E, Q), AlterColumn(k, c, p, q))
              = Snap(With(T, k, Tab(With(C, c, Altered(c, p, q)), X, Named(N, k, c, p, q))), E, Q)
<1> DEFINE a0 == p.type
           b0 == p.unique
           d0 == p.references
           a5 == q.type
           d5 == q.references
           b2 == IF p.unique THEN TRUE ELSE q.unique
           b3 == IF q.unique THEN TRUE ELSE IF p.unique THEN Left(c) ELSE FALSE
           d4 == IF p.references \notin {q.references, None} THEN None ELSE p.references
           M  == Named(N, k, c, p, q)
           n  == AutoName(k, c, "key")
           g  == AutoName(k, c, "fkey")
           t0 == Tab(With(C, c, Col(a0, b0, d0)), X, N)
           t1 == Tab(With(C, c, Col(a5, b0, d0)), X, N)
           t2 == Tab(With(C, c, Col(a5, b2, d0)), X, N)
           t3 == Tab(With(C, c, Col(a5, b3, d0)), X, M)
           t4 == Tab(With(C, c, Col(a5, b3, d4)), X, M)
           t5 == Tab(With(C, c, Col(a5, b3, d5)), X, M)
           st1 == [op |-> "alterColumnType", key |-> k, column |-> c, type |-> a5]
           st2 == [op |-> "addUnique", key |-> k, column |-> c]
           st3 == [op |-> "dropConstraint", key |-> k, name |-> n]
           st4 == [op |-> "dropForeignKey", key |-> k, column |-> c, name |-> g]
           st5 == [op |-> "addForeignKey", key |-> k, column |-> c, name |-> g, to |-> d5]
           p1 == When(p.type # q.type, st1)
           p2 == When(q.unique /\ ~p.unique, st2)
           p3 == When(p.unique /\ ~q.unique, st3)
           p4 == When(p.references \notin {q.references, None}, st4)
           p5 == When(q.references \notin {p.references, None}, st5)
           S(t) == Snap(With(T, k, t), E, Q)
<1>0. p = Col(a0, b0, d0) /\ p.unique \in BOOLEAN /\ q.unique \in BOOLEAN
  BY DEF IsColumn
<1>1. About(st1, k) /\ About(st2, k) /\ About(st3, k) /\ About(st4, k) /\ About(st5, k)
  BY DEF About, TableOps
<1>2. Optional(p1, st1, t0, t1)
  <2>1. CASE p.type # q.type
    <3>1. p1 = <<st1>>
      BY <2>1 DEF When
    <3> HIDE DEF a0, b0, d0, a5
    <3>2. t1 = ApplyToTable(t0, st1)
      BY AlterType
    <3> QED BY <3>1, <3>2 DEF Optional
  <2>2. CASE p.type = q.type
    <3>1. p1 = <<>>
      BY <2>2 DEF When
    <3> QED BY <2>2, <3>1 DEF Optional
  <2> QED BY <2>1, <2>2
<1>3. Optional(p2, st2, t1, t2)
  <2>1. CASE q.unique /\ ~p.unique
    <3>1. p2 = <<st2>> /\ Holds(b2)
      BY <1>0, <2>1 DEF When, Holds
    <3> HIDE DEF b2, b0, d0, a5, st2
    <3>2. t2 = ApplyToTable(t1, st2)
      BY <3>1, AlterAddUnique DEF st2
    <3> QED BY <3>1, <3>2 DEF Optional
  <2>2. CASE ~(q.unique /\ ~p.unique)
    <3>1. p2 = <<>> /\ b2 = b0
      BY <1>0, <2>2 DEF When
    <3> HIDE DEF b2, b0, p2
    <3> QED BY <3>1 DEF Optional
  <2> QED BY <2>1, <2>2
<1>4. Optional(p3, st3, t2, t3)
  <2>1. CASE p.unique /\ ~q.unique
    <3>1. p3 = <<st3>> /\ Holds(b2) /\ b3 = Left(c) /\ M = Without(N, n)
      BY <1>0, <2>1 DEF When, Holds, Named
    <3> HIDE DEF b2, b3, d0, a5, M
    <3>2. t3 = ApplyToTable(t2, st3)
      BY <3>1, AlterDropUnique
    <3> QED BY <3>1, <3>2 DEF Optional
  <2>2. CASE ~(p.unique /\ ~q.unique)
    <3>1. p3 = <<>> /\ b3 = b2 /\ M = N
      BY <1>0, <2>2 DEF When, Named
    <3> HIDE DEF b2, b3, p3, M
    <3> QED BY <3>1 DEF Optional
  <2> QED BY <2>1, <2>2
<1>5. Optional(p4, st4, t3, t4)
  <2>1. CASE p.references \notin {q.references, None}
    <3>1. p4 = <<st4>> /\ d4 = None
      BY <2>1 DEF When
    <3> HIDE DEF b3, d4, d0, a5, M, g
    <3>2. t4 = ApplyToTable(t3, st4)
      BY <3>1, AlterDropReference
    <3> QED BY <3>1, <3>2 DEF Optional
  <2>2. CASE ~(p.references \notin {q.references, None})
    <3>1. p4 = <<>> /\ d4 = d0
      BY <2>2 DEF When
    <3> HIDE DEF d4, d0, p4, M, b3
    <3> QED BY <3>1 DEF Optional
  <2> QED BY <2>1, <2>2
<1>6. Optional(p5, st5, t4, t5)
  <2>1. CASE q.references \notin {p.references, None}
    <3>1. p5 = <<st5>>
      BY <2>1 DEF When
    <3> HIDE DEF b3, d4, d5, a5, M, g
    <3>2. t5 = ApplyToTable(t4, st5)
      BY AlterAddReference
    <3> QED BY <3>1, <3>2 DEF Optional
  <2>2. CASE ~(q.references \notin {p.references, None})
    <3>1. p5 = <<>> /\ d5 = d4
      BY <2>2 DEF When
    <3> HIDE DEF d4, d5, p5, M, b3
    <3> QED BY <3>1 DEF Optional
  <2> QED BY <2>1, <2>2
<1> HIDE DEF p1, p2, p3, p4, p5, st1, st2, st3, st4, st5, t0, t1, t2, t3, t4, t5
<1>7. /\ Leads(p1, S(t0), S(t1))
      /\ Leads(p2, S(t1), S(t2))
      /\ Leads(p3, S(t2), S(t3))
      /\ Leads(p4, S(t3), S(t4))
      /\ Leads(p5, S(t4), S(t5))
  <2>1. Leads(p1, S(t0), S(t1))
    BY <1>1, <1>2, OptionalInTable DEF Leads
  <2>2. Leads(p2, S(t1), S(t2))
    BY <1>1, <1>3, OptionalInTable DEF Leads
  <2>3. Leads(p3, S(t2), S(t3))
    BY <1>1, <1>4, OptionalInTable DEF Leads
  <2>4. Leads(p4, S(t3), S(t4))
    BY <1>1, <1>5, OptionalInTable DEF Leads
  <2>5. Leads(p5, S(t4), S(t5))
    BY <1>1, <1>6, OptionalInTable DEF Leads
  <2> QED BY <2>1, <2>2, <2>3, <2>4, <2>5
<1>8. AlterColumn(k, c, p, q) = p1 \o p2 \o p3 \o p4 \o p5
  BY DEF AlterColumn, p1, p2, p3, p4, p5, st1, st2, st3, st4, st5
<1> HIDE DEF S
<1>9. Leads(AlterColumn(k, c, p, q), S(t0), S(t5))
  <2>1. Leads(p1 \o p2, S(t0), S(t2))
    BY <1>7, LeadsOn
  <2>2. Leads(p1 \o p2 \o p3, S(t0), S(t3))
    BY <1>7, <2>1, LeadsOn
  <2>3. Leads(p1 \o p2 \o p3 \o p4, S(t0), S(t4))
    BY <1>7, <2>2, LeadsOn
  <2> QED BY <1>7, <1>8, <2>3, LeadsOn
<1>10. t0 = Tab(With(C, c, p), X, N) /\ t5 = Tab(With(C, c, Altered(c, p, q)), X, M)
  BY <1>0 DEF t0, t5, Altered
<1> QED BY <1>9, <1>10 DEF S, Leads

(* Scripts of which each leads on from where the one before it leads. *)
Chain(f, ss, s, u) ==
  /\ f[0] = s /\ f[Len(ss)] = u
  /\ \A i \in 1..Len(ss) : Leads(ss[i], f[i - 1], f[i])

LEMMA ChainLeads ==
  ASSUME NEW ss, IsSeq(ss), NEW f, NEW s, NEW u, Chain(f, ss, s, u)
  PROVE  Leads(FlattenSeq(ss), s, u)
<1> DEFINE R == Stages(s, ss)
           J == {i \in 0..Len(ss) : R[i] = f[i]}
<1>1. IsSeqOfSeqs(ss)
  BY DEF Chain, Leads, IsSeqOfSeqs
<1>2. /\ Len(ss) \in Nat /\ R[0] = s
      /\ \A i \in 1..Len(ss) : R[i] = Replay(R[i - 1], ss[i])
      /\ R[Len(ss)] = Replay(s, FlattenSeq(ss))
  BY <1>1, StagesFollow
<1> HIDE DEF R
<1>3. 0 \in J
  BY <1>2 DEF Chain
<1>4. ASSUME NEW i \in 0..Len(ss), i \in J, i < Len(ss)
      PROVE  i + 1 \in J
  <2>1. i + 1 \in 1..Len(ss) /\ (i + 1) - 1 = i
    BY <1>2, <1>4
  <2>2. R[i + 1] = Replay(R[i], ss[i + 1])
    BY <1>2, <2>1
  <2>3. Leads(ss[i + 1], f[i], f[i + 1])
    BY <2>1 DEF Chain
  <2>4. R[i + 1] = f[i + 1]
    BY <1>4, <2>2, <2>3 DEF Leads
  <2> QED BY <2>1, <2>4
<1>5. \A i \in 0..Len(ss) : i \in J
  <2> HIDE DEF J
  <2> QED BY <1>2, <1>3, <1>4, Upwards
<1>6. Len(ss) \in J
  BY <1>2, <1>5
<1>7. R[Len(ss)] = u
  BY <1>6 DEF Chain
<1> QED BY <1>1, <1>2, <1>7, Flat DEF Leads

-----------------------------------------------------------------------------
(* The columns of a table that stays: P are the ones it has, G those it is   *)
(* to have.                                                                 *)

AlteredAll(P, G) ==
  [c \in DOMAIN G |-> IF c \in DOMAIN P THEN Altered(c, P[c], G[c]) ELSE G[c]]

(* The names that go with the uniqueness of columns in D. *)
LostNames(k, P, G, D) ==
  {AutoName(k, c, "key") :
     c \in {d \in D \cap DOMAIN P : P[d].unique /\ ~G[d].unique}}

ColumnPart(k, c, P, G) ==
  IF c \in DOMAIN P THEN AlterColumn(k, c, P[c], G[c])
  ELSE <<[op |-> "addColumn", key |-> k, column |-> c, def |-> G[c]]>>

ColumnParts(ss, e, k, P, G) == ss = [i \in DOMAIN e |-> ColumnPart(k, e[i], P, G)]

LEMMA AlteredColumns ==
  ASSUME NEW P, IsFcn(P), AreColumns(P), NEW G, AreColumns(G), NEW D, D \subseteq DOMAIN G
  PROVE  AreColumns(AlteredAll(P, G)) /\ AreColumns(Extended(P, AlteredAll(P, G), D))
<1> DEFINE A == AlteredAll(P, G)
<1>1. ASSUME NEW c \in DOMAIN G
      PROVE  A[c] = Col(A[c].type, A[c].unique, A[c].references) /\ A[c].unique \in BOOLEAN
  <2>1. CASE c \in DOMAIN P
    <3> DEFINE b == IF G[c].unique THEN TRUE ELSE IF P[c].unique THEN Left(c) ELSE FALSE
    <3>1. A[c] = Col(G[c].type, b, G[c].references)
      BY <2>1 DEF AlteredAll, Altered
    <3>2. b \in BOOLEAN
      BY DEF Left
    <3> HIDE DEF b, A
    <3> QED BY <3>1, <3>2, ColFields
  <2>2. CASE c \notin DOMAIN P
    BY <2>2 DEF AlteredAll, AreColumns
  <2> QED BY <2>1, <2>2
<1>2. DOMAIN A = DOMAIN G
  BY DEF AlteredAll
<1> HIDE DEF A
<1>3. AreColumns(A)
  BY <1>1, <1>2 DEF AreColumns
<1>4. AreColumns(Extended(P, A, D))
  <2>1. DOMAIN Extended(P, A, D) = DOMAIN P \cup D
    BY DEF Extended
  <2>2. \A c \in DOMAIN P \cup D : Extended(P, A, D)[c] = IF c \in D THEN A[c] ELSE P[c]
    BY DEF Extended
  <2> QED BY <1>1, <2>1, <2>2 DEF AreColumns
<1> QED BY <1>3, <1>4 DEF A

LEMMA ColumnPartLeads ==
  ASSUME NEW T, NEW E, NEW Q, NEW k, NEW C, IsFcn(C), AreColumns(C), NEW X, NEW N,
         NEW P, NEW G, AreColumns(P), AreColumns(G), NEW c \in DOMAIN G,
         c \in DOMAIN P => c \in DOMAIN C /\ C[c] = P[c]
  PROVE  Leads(ColumnPart(k, c, P, G), Snap(With(T, k, Tab(C, X, N)), E, Q),
               Snap(With(T, k, Tab(With(C, c, AlteredAll(P, G)[c]), X,
                 IF c \in DOMAIN P THEN Named(N, k, c, P[c], G[c]) ELSE N)), E, Q))
<1>1. CASE c \in DOMAIN P
  <2> DEFINE p == P[c]
             q == G[c]
  <2>1. IsColumn(p) /\ IsColumn(q)
    BY <1>1 DEF AreColumns, IsColumn
  <2>2. AlteredAll(P, G)[c] = Altered(c, p, q)
    BY <1>1 DEF AlteredAll
  <2>3. ColumnPart(k, c, P, G) = AlterColumn(k, c, p, q)
    BY <1>1 DEF ColumnPart
  <2>4. With(C, c, p) = C
    BY <1>1, WithSame
  <2> HIDE DEF p, q
  <2>5. Leads(AlterColumn(k, c, p, q), Snap(With(T, k, Tab(With(C, c, p), X, N)), E, Q),
              Snap(With(T, k, Tab(With(C, c, Altered(c, p, q)), X, Named(N, k, c, p, q))), E, Q))
    BY <2>1, AlterColumnReplay DEF Leads
  <2> QED BY <1>1, <2>2, <2>3, <2>4, <2>5 DEF p, q
<1>2. CASE c \notin DOMAIN P
  <2> DEFINE v == G[c]
             st == [op |-> "addColumn", key |-> k, column |-> c, def |-> v]
             t == Tab(C, X, N)
             u == Tab(With(C, c, v), X, N)
  <2>1. About(st, k)
    BY DEF About, TableOps
  <2>2. u = ApplyToTable(t, st)
    BY ApplyAddColumn
  <2>3. Optional(<<st>>, st, t, u)
    BY <2>2 DEF Optional
  <2>4. ColumnPart(k, c, P, G) = <<st>> /\ AlteredAll(P, G)[c] = v
    BY <1>2 DEF ColumnPart, AlteredAll
  <2> HIDE DEF st, t, u
  <2>5. Leads(<<st>>, Snap(With(T, k, t), E, Q), Snap(With(T, k, u), E, Q))
    BY <2>1, <2>3, OptionalInTable DEF Leads
  <2> QED BY <1>2, <2>4, <2>5 DEF t, u
<1> QED BY <1>1, <1>2

(* The names a table keeps, when the columns in D are altered. *)
Keeping(N, k, P, G, D) == Restrict(N, DOMAIN N \ LostNames(k, P, G, D))

(* The names, after column c is altered or added. *)
NamedAt(M, k, c, P, G) ==
  IF c \in DOMAIN P THEN Named(M, k, c, P[c], G[c]) ELSE M

LEMMA KeepingOnce ==
  ASSUME NEW N, NEW k, NEW P, NEW G, NEW D, NEW c
  PROVE  Keeping(N, k, P, G, D \cup {c}) = NamedAt(Keeping(N, k, P, G, D), k, c, P, G)
<1> DEFINE L == LostNames(k, P, G, D)
           M == Keeping(N, k, P, G, D)
           n == AutoName(k, c, "key")
           lost == c \in DOMAIN P /\ P[c].unique /\ ~G[c].unique
<1>1. CASE lost
  <2>1. {d \in (D \cup {c}) \cap DOMAIN P : P[d].unique /\ ~G[d].unique}
          = {d \in D \cap DOMAIN P : P[d].unique /\ ~G[d].unique} \cup {c}
    BY <1>1
  <2>2. LostNames(k, P, G, D \cup {c}) = L \cup {n}
    BY <2>1 DEF LostNames
  <2> HIDE DEF L, n
  <2>3. Without(M, n) = Restrict(N, DOMAIN N \ (L \cup {n}))
    <3>1. M = Restrict(N, DOMAIN N \ L)
      BY DEF Keeping, L
    <3>2. DOMAIN M = DOMAIN N \ L /\ \A x \in DOMAIN N \ L : M[x] = N[x]
      BY <3>1 DEF Restrict
    <3> HIDE DEF M
    <3>3. (DOMAIN N \ L) \ {n} = DOMAIN N \ (L \cup {n})
      OBVIOUS
    <3> QED BY <3>2, <3>3 DEF Without, Restrict
  <2>4. Keeping(N, k, P, G, D \cup {c}) = Without(M, n)
    BY <2>2, <2>3 DEF Keeping
  <2> QED BY <1>1, <2>4 DEF Named, NamedAt, n
<1>2. CASE ~lost
  <2>1. {d \in (D \cup {c}) \cap DOMAIN P : P[d].unique /\ ~G[d].unique}
          = {d \in D \cap DOMAIN P : P[d].unique /\ ~G[d].unique}
    BY <1>2
  <2>2. Keeping(N, k, P, G, D \cup {c}) = M
    BY <2>1 DEF Keeping, LostNames
  <2> QED BY <1>2, <2>2 DEF Named, NamedAt
<1> QED BY <1>1, <1>2

LEMMA ColumnsBlock ==
  ASSUME NEW T, NEW E, NEW Q, NEW k, NEW X, NEW N, IsFcn(N),
         NEW P, IsFcn(P), AreColumns(P), NEW G, AreColumns(G),
         DOMAIN P \subseteq DOMAIN G,
         NEW e, Lists(e, DOMAIN G), NEW ss, ColumnParts(ss, e, k, P, G)
  PROVE  Leads(FlattenSeq(ss), Snap(With(T, k, Tab(P, X, N)), E, Q),
               Snap(With(T, k, Tab(AlteredAll(P, G), X,
                                   Keeping(N, k, P, G, DOMAIN G))), E, Q))
<1> DEFINE A == AlteredAll(P, G)
           State(D) == Snap(With(T, k, Tab(Extended(P, A, D), X, Keeping(N, k, P, G, D))), E, Q)
           f == [i \in 0..Len(e) |-> State(First(e, i))]
           s == State({})
           u == State(DOMAIN G)
<1>0. IsSeq(e)
  BY DEF Lists
<1>1. /\ IsSeq(ss) /\ Len(ss) = Len(e) /\ Len(ss) \in Nat
      /\ DOMAIN e = 1..Len(e)
  BY <1>0, OnePerItem DEF ColumnParts
<1>2. ASSUME NEW i \in 1..Len(ss)
      PROVE  Leads(ss[i], f[i - 1], f[i])
  <2> DEFINE c == e[i]
             D == First(e, i - 1)
             C == Extended(P, A, D)
             M == Keeping(N, k, P, G, D)
  <2>1. c \in DOMAIN G /\ c \notin D /\ First(e, i) = D \cup {c} /\ D \subseteq DOMAIN G
    <3>1. i \in 1..Len(e)
      BY <1>1
    <3>2. c \in DOMAIN G /\ c \notin D /\ First(e, i) = D \cup {c} /\ First(e, i) \subseteq DOMAIN G
      BY <3>1, OneMore
    <3> QED BY <3>2
  <2>2. ss[i] = ColumnPart(k, c, P, G)
    BY <1>1 DEF ColumnParts
  <2>3. f[i - 1] = State(D) /\ f[i] = State(D \cup {c})
    <3>1. i \in 0..Len(e) /\ i - 1 \in 0..Len(e)
      BY <1>1
    <3> HIDE DEF State, D, c
    <3>2. f[i - 1] = State(First(e, i - 1)) /\ f[i] = State(First(e, i))
      BY <3>1
    <3> HIDE DEF f
    <3> QED BY <2>1, <3>2 DEF D
  <2>4. With(C, c, A[c]) = Extended(P, A, D \cup {c})
    <3>1. i \in 1..Len(e)
      BY <1>1
    <3> HIDE DEF A
    <3>2. With(Extended(P, A, First(e, i - 1)), e[i], A[e[i]]) = Extended(P, A, First(e, i))
      BY <1>0, <3>1, ExtendingOnce
    <3> QED BY <2>1, <3>2
  <2> HIDE DEF c, D
  <2>5. IsFcn(C) /\ AreColumns(C)
    <3>1. AreColumns(C)
      BY <2>1, AlteredColumns
    <3>2. IsFcn(C)
      BY DEF Extended, IsFcn
    <3> QED BY <3>1, <3>2
  <2>6. c \in DOMAIN P => c \in DOMAIN C /\ C[c] = P[c]
    BY <2>1 DEF Extended
  <2> DEFINE K == NamedAt(M, k, c, P, G)
             v == A[c]
  <2>7. K = Keeping(N, k, P, G, D \cup {c})
    BY KeepingOnce
  <2> HIDE DEF C, M
  <2>8. Leads(ColumnPart(k, c, P, G), Snap(With(T, k, Tab(C, X, M)), E, Q),
              Snap(With(T, k, Tab(With(C, c, AlteredAll(P, G)[c]), X, K)), E, Q))
    BY <2>1, <2>5, <2>6, ColumnPartLeads DEF NamedAt
  <2> HIDE DEF K, f
  <2>9. Leads(ColumnPart(k, c, P, G), State(D), State(D \cup {c}))
    BY <2>4, <2>7, <2>8 DEF C, M
  <2> QED BY <2>2, <2>3, <2>9
<1>3. Chain(f, ss, s, u)
  <2>1. First(e, 0) = {} /\ First(e, Len(e)) = DOMAIN G
    BY OneMore
  <2>2. f[0] = State(First(e, 0)) /\ f[Len(e)] = State(First(e, Len(e)))
    <3> HIDE DEF State
    <3> QED BY <1>1
  <2> HIDE DEF f, State
  <2>3. f[0] = s /\ f[Len(ss)] = u
    BY <1>1, <2>1, <2>2
  <2> HIDE DEF s, u
  <2> QED BY <1>2, <2>3 DEF Chain
<1>4. Leads(FlattenSeq(ss), s, u)
  <2> HIDE DEF f, s, u
  <2> QED BY <1>1, <1>3, ChainLeads
<1>5. Extended(P, A, {}) = P /\ Keeping(N, k, P, G, {}) = N
  <2>1. Extended(P, A, {}) = P
    BY DEF Extended, IsFcn
  <2>2. LostNames(k, P, G, {}) = {}
    BY DEF LostNames
  <2>3. Keeping(N, k, P, G, {}) = N
    BY <2>2 DEF Keeping, Restrict, IsFcn
  <2> QED BY <2>1, <2>3
<1>6. Extended(P, A, DOMAIN G) = A
  <2>1. DOMAIN P \cup DOMAIN G = DOMAIN G
    OBVIOUS
  <2>2. Extended(P, A, DOMAIN G) = [x \in DOMAIN G |-> A[x]]
    BY <2>1 DEF Extended
  <2>3. A = [x \in DOMAIN G |-> A[x]]
    BY DEF AlteredAll
  <2> QED BY <2>2, <2>3
<1> QED BY <1>4, <1>5, <1>6

IsRenaming(r, C, G) ==
  /\ IsInjective(r)
  /\ DOMAIN r \subseteq DOMAIN C \ DOMAIN G
  /\ Range(r) \subseteq DOMAIN G \ DOMAIN C

(* The columns that stay, under their new names. *)
Stayed(C, G, r) ==
  [c \in {d \in DOMAIN G : OldKey(r, d) \in DOMAIN C} |-> C[OldKey(r, c)]]

LEMMA OldKeys ==
  ASSUME NEW C, NEW G, NEW r, IsRenaming(r, C, G)
  PROVE  /\ \A o \in DOMAIN r : OldKey(r, r[o]) = o
         /\ \A x : x \notin Range(r) => OldKey(r, x) = x
         /\ \A c \in Range(r) : OldKey(r, c) \in DOMAIN r /\ r[OldKey(r, c)] = c
<1>1. \A c \in Range(r) : OldKey(r, c) \in DOMAIN r /\ r[OldKey(r, c)] = c
  BY DEF OldKey, Range
<1>2. \A x : x \notin Range(r) => OldKey(r, x) = x
  BY DEF OldKey
<1>3. ASSUME NEW o \in DOMAIN r
      PROVE  OldKey(r, r[o]) = o
  <2>1. r[o] \in Range(r)
    BY DEF Range
  <2>2. OldKey(r, r[o]) \in DOMAIN r /\ r[OldKey(r, r[o])] = r[o]
    BY <1>1, <2>1
  <2> QED BY <2>2 DEF IsRenaming, IsInjective
<1> QED BY <1>1, <1>2, <1>3

LEMMA StayedAfter ==
  ASSUME NEW C, NEW G, NEW r, IsRenaming(r, C, G),
         NEW S, S = DOMAIN C \ (DOMAIN G \cup DOMAIN r)
  PROVE  Restrict(Renamed(C, r, DOMAIN r), DOMAIN Renamed(C, r, DOMAIN r) \ S)
           = Stayed(C, G, r)
<1> DEFINE R == Renamed(C, r, DOMAIN r)
           D == DOMAIN R \ S
<1>1. DOMAIN R = (DOMAIN C \ DOMAIN r) \cup Range(r)
  BY DEF Renamed, Range
<1>2. ASSUME NEW x
      PROVE  x \in D <=> x \in DOMAIN G /\ OldKey(r, x) \in DOMAIN C
  <2>1. CASE x \in Range(r)
    <3>1. x \in DOMAIN G /\ x \notin DOMAIN C
      BY <2>1 DEF IsRenaming
    <3>2. OldKey(r, x) \in DOMAIN r
      BY <2>1, OldKeys
    <3>3. OldKey(r, x) \in DOMAIN C
      BY <3>2 DEF IsRenaming
    <3> QED BY <1>1, <2>1, <3>1, <3>3
  <2>2. CASE x \notin Range(r)
    <3>1. OldKey(r, x) = x
      BY <2>2, OldKeys
    <3>2. x \in DOMAIN r => x \notin DOMAIN G
      BY DEF IsRenaming
    <3> QED BY <1>1, <2>2, <3>1, <3>2
  <2> QED BY <2>1, <2>2
<1>3. D = {d \in DOMAIN G : OldKey(r, d) \in DOMAIN C}
  BY <1>2
<1>4. \A x \in D : R[x] = C[OldKey(r, x)]
  <2>1. \A x \in DOMAIN R : R[x] = C[OldKey(r, x)]
    BY DEF Renamed
  <2> HIDE DEF R
  <2> QED BY <2>1
<1>5. Restrict(R, D) = [x \in D |-> C[OldKey(r, x)]]
  <2>1. Restrict(R, D) = [x \in D |-> R[x]]
    BY DEF Restrict
  <2> HIDE DEF R, D
  <2> QED BY <1>4, <2>1
<1> QED BY <1>3, <1>5 DEF Stayed

LEMMA StayedColumns ==
  ASSUME NEW C, AreColumns(C), NEW G, NEW r
  PROVE  /\ IsFcn(Stayed(C, G, r)) /\ AreColumns(Stayed(C, G, r))
         /\ DOMAIN Stayed(C, G, r) \subseteq DOMAIN G
<1> DEFINE P == Stayed(C, G, r)
<1>1. DOMAIN P = {d \in DOMAIN G : OldKey(r, d) \in DOMAIN C} /\ IsFcn(P)
  BY DEF Stayed, IsFcn
<1>2. \A c \in DOMAIN P : P[c] = C[OldKey(r, c)]
  BY DEF Stayed
<1> HIDE DEF P
<1>3. AreColumns(P)
  BY <1>1, <1>2 DEF AreColumns
<1> QED BY <1>1, <1>3 DEF P

(* A map that is changed where it is to be another one is that one. *)
Patched(f, f0, g) ==
  Extended(Restrict(f, DOMAIN f \ Changed(f0, g)), g, Changed(g, f0))

LEMMA MapChange ==
  ASSUME NEW f, NEW g, IsFcn(g)
  PROVE  Patched(f, f, g) = g
<1> DEFINE h == Restrict(f, DOMAIN f \ Changed(f, g))
<1>1. DOMAIN h = DOMAIN f \ Changed(f, g) /\ \A x \in DOMAIN h : h[x] = f[x]
  BY DEF Restrict
<1> HIDE DEF h
<1>2. DOMAIN h \cup Changed(g, f) = DOMAIN g
  BY <1>1 DEF Changed
<1>3. ASSUME NEW x \in DOMAIN g
      PROVE  (IF x \in Changed(g, f) THEN g[x] ELSE h[x]) = g[x]
  BY <1>1, <1>2 DEF Changed
<1>4. Extended(h, g, Changed(g, f)) = [x \in DOMAIN g |-> IF x \in Changed(g, f) THEN g[x] ELSE h[x]]
  BY <1>2 DEF Extended
<1>5. Extended(h, g, Changed(g, f)) = g
  BY <1>3, <1>4 DEF IsFcn
<1> QED BY <1>5 DEF Patched, h

LEMMA PatchedIsMap ==
  ASSUME NEW f, IsMap(f), NEW g, IsMap(g), NEW f0
  PROVE  IsMap(Patched(f, f0, g))
<1> DEFINE D == DOMAIN f \ Changed(f0, g)
           h == Restrict(f, D)
<1>1. IsFiniteSet(D) /\ IsFiniteSet(Changed(g, f0))
  BY FS_Subset DEF IsMap, Changed
<1>2. DOMAIN h = D
  BY DEF Restrict
<1> HIDE DEF h, D
<1>3. IsFiniteSet(DOMAIN h \cup Changed(g, f0))
  BY <1>1, <1>2, FS_Union
<1>4. IsMap(Extended(h, g, Changed(g, f0)))
  BY <1>3 DEF IsMap, Extended
<1> QED BY <1>4 DEF Patched, h, D

-----------------------------------------------------------------------------
(* The table that ALTER TABLE statements make of p, which is to be q.       *)

NewColumns(k, p, q, r) ==
  Cleared(AlteredAll(Stayed(p.columns, q.columns, r), q.columns), k,
          Changed(p.constraints, q.constraints))

NewConstraints(k, p, q, r) ==
  Patched(Keeping(p.constraints, k, Stayed(p.columns, q.columns, r), q.columns,
                  DOMAIN q.columns),
          p.constraints, q.constraints)

IsTable(t) ==
  /\ t = Tab(t.columns, t.indexes, t.constraints)
  /\ IsMap(t.columns) /\ IsMap(t.indexes) /\ IsMap(t.constraints)
  /\ AreColumns(t.columns)

LEMMA WellFormedTables ==
  ASSUME NEW t
  PROVE  WellFormedTable(t) <=> IsTable(t)
BY DEF WellFormedTable, IsTable, AreColumns, Tab, Col

(* What follows the dropping of indexes in an ALTER TABLE. *)
LEMMA AlterTableReplay ==
  ASSUME NEW T, NEW E, NEW Q, NEW k, NEW p, IsTable(p), NEW q, IsTable(q),
         NEW r, IsRenaming(r, p.columns, q.columns), NEW X, IsMap(X),
         NEW s, NEW pa,
         pa = ForEach(Changed(p.indexes, q.indexes), LAMBDA n : [op |-> "dropIndex", name |-> n]),
         Leads(pa, s, Snap(With(T, k, Tab(p.columns, X, p.constraints)), E, Q))
  PROVE  Leads(AlterTable(k, p, q, r), s,
               Snap(With(T, k, Tab(NewColumns(k, p, q, r),
                                   Extended(X, q.indexes, Changed(q.indexes, p.indexes)),
                                   NewConstraints(k, p, q, r))), E, Q))
<1> DEFINE C == p.columns
           G == q.columns
           N == p.constraints
           M == q.constraints
           P == Stayed(C, G, r)
           A == AlteredAll(P, G)
           N4 == Keeping(N, k, P, G, DOMAIN G)
           S5 == Changed(N, M)
           C5 == Cleared(A, k, S5)
           N5 == Restrict(N4, DOMAIN N4 \ S5)
           S6 == Changed(M, N)
           N6 == Extended(N5, M, S6)
           S7 == Changed(q.indexes, p.indexes)
           X7 == Extended(X, q.indexes, S7)
           S3 == DOMAIN C \ (DOMAIN G \cup DOMAIN r)
           R  == Renamed(C, r, DOMAIN r)
           e2 == SetToSeq(DOMAIN r)
           e3 == SetToSeq(S3)
           e4 == SetToSeq(DOMAIN G)
           e5 == SetToSeq(S5)
           e6 == SetToSeq(S6)
           e7 == SetToSeq(S7)
           pb == ForEach(DOMAIN r, LAMBDA c : [op |-> "renameColumn", key |-> k, column |-> c, to |-> r[c]])
           pc == ForEach(S3, LAMBDA c : [op |-> "dropColumn", key |-> k, column |-> c])
           ss == ForEach(DOMAIN G, LAMBDA c :
                   IF OldKey(r, c) \in DOMAIN C THEN AlterColumn(k, c, C[OldKey(r, c)], G[c])
                   ELSE <<[op |-> "addColumn", key |-> k, column |-> c, def |-> G[c]]>>)
           pd == FlattenSeq(ss)
           pe == ForEach(S5, LAMBDA n : [op |-> "dropConstraint", key |-> k, name |-> n])
           pf == ForEach(S6, LAMBDA n : [op |-> "addConstraint", key |-> k, name |-> n, columns |-> M[n]])
           pg == CreateIndexes(k, q, S7)
           State(t) == Snap(With(T, k, t), E, Q)
<1>1. AlterTable(k, p, q, r) = pa \o pb \o pc \o pd \o pe \o pf \o pg
  BY DEF AlterTable, OldKey
<1>f. /\ IsFcn(C) /\ AreColumns(C) /\ IsFiniteSet(DOMAIN C)
      /\ IsFcn(G) /\ AreColumns(G) /\ IsFiniteSet(DOMAIN G)
      /\ IsFcn(N) /\ IsFiniteSet(DOMAIN N) /\ IsFcn(M) /\ IsFiniteSet(DOMAIN M)
      /\ IsFcn(X) /\ IsFiniteSet(DOMAIN q.indexes)
  BY DEF IsTable, IsMap, IsFcn
<1>s. /\ IsFiniteSet(DOMAIN r) /\ IsFiniteSet(S3) /\ IsFiniteSet(S5)
      /\ IsFiniteSet(S6) /\ IsFiniteSet(S7)
  <2>1. DOMAIN r \subseteq DOMAIN C /\ S3 \subseteq DOMAIN C
    BY DEF IsRenaming
  <2>2. S5 \subseteq DOMAIN N /\ S6 \subseteq DOMAIN M /\ S7 \subseteq DOMAIN q.indexes
    BY DEF Changed
  <2> HIDE DEF S3, S5, S6, S7, C, G, N, M
  <2> QED BY <1>f, <2>1, <2>2, FS_Subset
<1>e. /\ Lists(e2, DOMAIN r) /\ Lists(e3, S3) /\ Lists(e4, DOMAIN G)
      /\ Lists(e5, S5) /\ Lists(e6, S6) /\ Lists(e7, S7)
  <2> HIDE DEF S3, S5, S6, S7, C, G, N, M
  <2> QED BY <1>f, <1>s, SetToSeqLists
<1>t. /\ IsSeq(e3) /\ ToSet(e3) = S3 /\ IsSeq(e5) /\ ToSet(e5) = S5
      /\ IsSeq(e6) /\ ToSet(e6) = S6 /\ IsSeq(e7) /\ ToSet(e7) = S7
  <2> HIDE DEF S3, S5, S6, S7, C, G, N, M, e3, e5, e6, e7
  <2> QED BY <1>e DEF Lists
<1>r. IsRenaming(r, C, G) /\ IsInjective(r) /\ DOMAIN r \subseteq DOMAIN C /\ Range(r) \cap DOMAIN C = {}
  BY DEF IsRenaming
<1>p. IsFcn(P) /\ AreColumns(P) /\ DOMAIN P \subseteq DOMAIN G
  BY <1>f, StayedColumns
<1>2. Leads(pb, State(Tab(C, X, N)), State(Tab(R, X, N)))
  <2>1. RenamesColumns(pb, e2, k, r)
    BY DEF RenamesColumns, ForEach
  <2> HIDE DEF C, G, N, M, e2, pb
  <2> QED BY <1>e, <1>f, <1>r, <2>1, RenameColumnBlock
<1>3. Leads(pc, State(Tab(R, X, N)), State(Tab(P, X, N)))
  <2>1. DropsColumns(pc, e3, k)
    BY DEF DropsColumns, ForEach
  <2>2. IsFcn(R)
    BY DEF IsFcn, Renamed
  <2>3. Restrict(R, DOMAIN R \ S3) = P
    BY <1>r, StayedAfter
  <2> HIDE DEF C, G, N, M, e3, pc, R, P, S3
  <2>4. Leads(pc, State(Tab(R, X, N)), State(Tab(Restrict(R, DOMAIN R \ ToSet(e3)), X, N)))
    BY <1>t, <2>1, <2>2, DropColumnBlock
  <2> QED BY <1>t, <2>3, <2>4
<1>4. Leads(pd, State(Tab(P, X, N)), State(Tab(A, X, N4)))
  <2>1. ColumnParts(ss, e4, k, P, G)
    <3>1. ss = [i \in DOMAIN e4 |-> IF OldKey(r, e4[i]) \in DOMAIN C
                   THEN AlterColumn(k, e4[i], C[OldKey(r, e4[i])], G[e4[i]])
                   ELSE <<[op |-> "addColumn", key |-> k, column |-> e4[i], def |-> G[e4[i]]]>>]
      BY DEF ForEach
    <3>2. ASSUME NEW c \in DOMAIN G
          PROVE  (IF OldKey(r, c) \in DOMAIN C
                  THEN AlterColumn(k, c, C[OldKey(r, c)], G[c])
                  ELSE <<[op |-> "addColumn", key |-> k, column |-> c, def |-> G[c]]>>)
                   = ColumnPart(k, c, P, G)
      BY DEF ColumnPart, Stayed
    <3>3. \A i \in DOMAIN e4 : e4[i] \in DOMAIN G
      BY <1>e DEF Lists, ToSet
    <3> HIDE DEF ss, e4, P, C, G
    <3>4. ASSUME NEW i \in DOMAIN e4
          PROVE  (IF OldKey(r, e4[i]) \in DOMAIN C
                   THEN AlterColumn(k, e4[i], C[OldKey(r, e4[i])], G[e4[i]])
                   ELSE <<[op |-> "addColumn", key |-> k, column |-> e4[i], def |-> G[e4[i]]]>>)
                   = ColumnPart(k, e4[i], P, G)
      <4> DEFINE x == e4[i]
      <4>1. x \in DOMAIN G
        BY <3>3
      <4> HIDE DEF x
      <4>2. (IF OldKey(r, x) \in DOMAIN C
                   THEN AlterColumn(k, x, C[OldKey(r, x)], G[x])
                   ELSE <<[op |-> "addColumn", key |-> k, column |-> x, def |-> G[x]]>>)
                   = ColumnPart(k, x, P, G)
        BY <3>2, <4>1
      <4> QED BY <4>2 DEF x
    <3> QED BY <3>1, <3>4 DEF ColumnParts
  <2> HIDE DEF C, G, N, M, e4, ss, P
  <2> QED BY <1>e, <1>f, <1>p, <2>1, ColumnsBlock
<1>a. IsFcn(A) /\ AreColumns(A)
  <2>1. AreColumns(A)
    BY <1>f, <1>p, AlteredColumns
  <2>2. IsFcn(A)
    BY DEF IsFcn, AlteredAll
  <2> QED BY <2>1, <2>2
<1>k. IsFcn(N4) /\ IsFcn(N5)
  BY DEF IsFcn, Keeping, Restrict
<1>5. Leads(pe, State(Tab(A, X, N4)), State(Tab(C5, X, N5)))
  <2>1. DropsConstraints(pe, e5, k)
    BY DEF DropsConstraints, ForEach
  <2> HIDE DEF C, G, N, M, e5, pe, P, A, N4, S5
  <2>2. Leads(pe, State(Tab(A, X, N4)),
              State(Tab(Cleared(A, k, ToSet(e5)), X, Restrict(N4, DOMAIN N4 \ ToSet(e5)))))
    BY <1>t, <1>a, <1>k, <2>1, DropConstraintBlock
  <2> QED BY <1>t, <2>2
<1>6. Leads(pf, State(Tab(C5, X, N5)), State(Tab(C5, X, N6)))
  <2>1. AddsConstraints(pf, e6, k, M)
    BY DEF AddsConstraints, ForEach
  <2> HIDE DEF C, G, N, M, e6, pf, P, A, N4, S5, S6, C5, N5
  <2>2. Leads(pf, State(Tab(C5, X, N5)), State(Tab(C5, X, Extended(N5, M, ToSet(e6)))))
    BY <1>t, <1>k, <2>1, AddConstraintBlock
  <2> QED BY <1>t, <2>2
<1>7. Leads(pg, State(Tab(C5, X, N6)), State(Tab(C5, X7, N6)))
  <2>1. CreatesIndexes(pg, e7, k, q.indexes)
    BY DEF CreatesIndexes, CreateIndexes, ForEach
  <2> HIDE DEF C, G, N, M, e7, pg, P, A, N4, S5, S6, C5, N6, S7
  <2>2. Leads(pg, State(Tab(C5, X, N6)), State(Tab(C5, Extended(X, q.indexes, ToSet(e7)), N6)))
    BY <1>f, <1>t, <2>1, CreateIndexBlock
  <2> QED BY <1>t, <2>2
<1>8. C5 = NewColumns(k, p, q, r) /\ N6 = NewConstraints(k, p, q, r)
  BY DEF NewColumns, NewConstraints, Patched
<1>9. Leads(pa, s, State(Tab(C, X, N)))
  OBVIOUS
<1> HIDE DEF pb, pc, pd, pe, pf, pg, State, C, N, R, P, A, N4, C5, N5, N6, X7
<1>10. Leads(pa \o pb \o pc \o pd \o pe \o pf \o pg, s, State(Tab(C5, X7, N6)))
  <2>1. Leads(pa \o pb, s, State(Tab(R, X, N)))
    BY <1>9, <1>2, LeadsOn
  <2>2. Leads(pa \o pb \o pc, s, State(Tab(P, X, N)))
    BY <2>1, <1>3, LeadsOn
  <2>3. Leads(pa \o pb \o pc \o pd, s, State(Tab(A, X, N4)))
    BY <2>2, <1>4, LeadsOn
  <2>4. Leads(pa \o pb \o pc \o pd \o pe, s, State(Tab(C5, X, N5)))
    BY <2>3, <1>5, LeadsOn
  <2>5. Leads(pa \o pb \o pc \o pd \o pe \o pf, s, State(Tab(C5, X, N6)))
    BY <2>4, <1>6, LeadsOn
  <2> QED BY <2>5, <1>7, LeadsOn
<1> QED BY <1>1, <1>8, <1>10 DEF State, X7

LEMMA ExtendedIsMap ==
  ASSUME NEW f, IsMap(f), NEW g, IsMap(g), NEW S, S \subseteq DOMAIN g
  PROVE  IsMap(Extended(f, g, S))
<1>1. IsFiniteSet(DOMAIN f \cup S)
  BY FS_Subset, FS_Union DEF IsMap
<1> QED BY <1>1 DEF IsMap, Extended

(* The tables before ALTER TABLE statements for table k. *)
Altering(T, k, p, q, r) ==
  /\ AreTables(T) /\ k \in DOMAIN T
  /\ IsTable(p) /\ IsTable(q) /\ IsRenaming(r, p.columns, q.columns)
  /\ T[k].columns = p.columns /\ T[k].constraints = p.constraints

LEMMA DropIndexPart ==
  ASSUME NEW T, NEW E, NEW Q, NEW k, NEW p, NEW q, NEW r, Altering(T, k, p, q, r), NEW pa,
         pa = ForEach(Changed(p.indexes, q.indexes), LAMBDA n : [op |-> "dropIndex", name |-> n])
  PROVE  /\ IsSeq(pa) /\ Differing(Replay(Snap(T, E, Q), pa), T, E, Q)
         /\ T[k].indexes = p.indexes /\ Alone(T, k, Changed(p.indexes, q.indexes)) =>
              Leads(pa, Snap(T, E, Q),
                Snap(With(T, k, Tab(p.columns,
                       Restrict(p.indexes, DOMAIN p.indexes \ Changed(p.indexes, q.indexes)),
                       p.constraints)), E, Q))
<1> DEFINE S == Changed(p.indexes, q.indexes)
           e == SetToSeq(S)
<1>1. IsFiniteSet(S) /\ S \subseteq DOMAIN p.indexes
  BY FS_Subset DEF Changed, Altering, IsTable, IsMap
<1>2. DropsIndexes(pa, e)
  BY DEF DropsIndexes, ForEach
<1>t. AreTables(T) /\ k \in DOMAIN T /\ T[k].columns = p.columns /\ T[k].constraints = p.constraints
  BY DEF Altering
<1> HIDE DEF S
<1>3. Lists(e, S) /\ IsSeq(e)
  BY <1>1, SetToSeqLists DEF Lists
<1> HIDE DEF e
<1>4. IsSeq(pa) /\ Differing(Replay(Snap(T, E, Q), pa), T, E, Q)
  BY <1>2, <1>3, <1>t, DropIndexBlockAnyway
<1>5. ASSUME T[k].indexes = p.indexes, Alone(T, k, S)
      PROVE  Leads(pa, Snap(T, E, Q),
               Snap(With(T, k, Tab(p.columns, Restrict(p.indexes, DOMAIN p.indexes \ S),
                                   p.constraints)), E, Q))
  <2>1. T[k] = Tab(p.columns, p.indexes, p.constraints)
    BY <1>5, <1>t DEF AreTables
  <2> QED BY <1>1, <1>2, <1>3, <1>5, <1>t, <2>1, DropIndexBlockAlone
<1> QED BY <1>4, <1>5 DEF S

LEMMA AlterTableAnyway ==
  ASSUME NEW T, NEW E, NEW Q, NEW k, NEW p, NEW q, NEW r, Altering(T, k, p, q, r)
  PROVE  \E U, X : /\ AreTables(U) /\ SameButIndexes(T, U) /\ IsMap(X)
                   /\ Leads(AlterTable(k, p, q, r), Snap(T, E, Q),
                            Snap(With(U, k, Tab(NewColumns(k, p, q, r), X,
                                                NewConstraints(k, p, q, r))), E, Q))
<1> DEFINE pa == ForEach(Changed(p.indexes, q.indexes), LAMBDA n : [op |-> "dropIndex", name |-> n])
<1>1. IsSeq(pa) /\ Differing(Replay(Snap(T, E, Q), pa), T, E, Q)
  BY DropIndexPart
<1>2. PICK U : Replay(Snap(T, E, Q), pa) = Snap(U, E, Q) /\ AreTables(U) /\ SameButIndexes(T, U)
  BY <1>1 DEF Differing
<1> DEFINE Y == U[k].indexes
           X == Extended(Y, q.indexes, Changed(q.indexes, p.indexes))
<1>3. k \in DOMAIN U /\ U[k] = Tab(p.columns, Y, p.constraints) /\ IsMap(Y)
  <2>1. k \in DOMAIN U /\ U[k].columns = p.columns /\ U[k].constraints = p.constraints
    BY <1>2 DEF SameButIndexes, Altering
  <2>2. U[k] = Tab(U[k].columns, U[k].indexes, U[k].constraints) /\ IsMap(U[k].indexes)
    BY <1>2, <2>1 DEF AreTables
  <2> QED BY <2>1, <2>2
<1>4. With(U, k, Tab(p.columns, Y, p.constraints)) = U
  BY <1>2, <1>3, WithSame DEF AreTables
<1>5. Leads(pa, Snap(T, E, Q), Snap(With(U, k, Tab(p.columns, Y, p.constraints)), E, Q))
  BY <1>1, <1>2, <1>4 DEF Leads
<1>6. IsMap(X)
  <2>1. Changed(q.indexes, p.indexes) \subseteq DOMAIN q.indexes /\ IsMap(q.indexes)
    BY DEF Changed, Altering, IsTable
  <2> HIDE DEF Y
  <2> QED BY <1>3, <2>1, ExtendedIsMap
<1>7. Leads(AlterTable(k, p, q, r), Snap(T, E, Q),
            Snap(With(U, k, Tab(NewColumns(k, p, q, r), X, NewConstraints(k, p, q, r))), E, Q))
  <2>1. IsTable(p) /\ IsTable(q) /\ IsRenaming(r, p.columns, q.columns)
    BY DEF Altering
  <2> DEFINE s == Snap(T, E, Q)
  <2> HIDE DEF Y, s
  <2> QED BY <1>3, <1>5, <2>1, AlterTableReplay
<1> QED BY <1>2, <1>6, <1>7

LEMMA AlterTableAlone ==
  ASSUME NEW T, NEW E, NEW Q, NEW k, NEW p, NEW q, NEW r, Altering(T, k, p, q, r),
         T[k].indexes = p.indexes, Alone(T, k, Changed(p.indexes, q.indexes))
  PROVE  Leads(AlterTable(k, p, q, r), Snap(T, E, Q),
               Snap(With(T, k, Tab(NewColumns(k, p, q, r), q.indexes,
                                   NewConstraints(k, p, q, r))), E, Q))
<1> DEFINE pa == ForEach(Changed(p.indexes, q.indexes), LAMBDA n : [op |-> "dropIndex", name |-> n])
           Y == Restrict(p.indexes, DOMAIN p.indexes \ Changed(p.indexes, q.indexes))
           X == Extended(Y, q.indexes, Changed(q.indexes, p.indexes))
           s == Snap(T, E, Q)
<1>1. Leads(pa, s, Snap(With(T, k, Tab(p.columns, Y, p.constraints)), E, Q))
  BY DropIndexPart
<1>2. IsTable(p) /\ IsTable(q) /\ IsRenaming(r, p.columns, q.columns) /\ IsFcn(q.indexes)
  BY DEF Altering, IsTable, IsMap, IsFcn
<1>3. IsMap(Y)
  BY <1>2, MapWithout DEF IsTable
<1>4. X = q.indexes
  BY <1>2, MapChange DEF Patched
<1> HIDE DEF s, Y
<1>5. Leads(AlterTable(k, p, q, r), s,
            Snap(With(T, k, Tab(NewColumns(k, p, q, r), X, NewConstraints(k, p, q, r))), E, Q))
  BY <1>1, <1>2, <1>3, AlterTableReplay
<1> QED BY <1>4, <1>5 DEF s

-----------------------------------------------------------------------------
(* Whether the table has become what it was to be.                          *)

ForgetsKey(p, q, r) ==
  \E c \in DOMAIN Stayed(p.columns, q.columns, r) :
    c \in KeyColumns /\ Stayed(p.columns, q.columns, r)[c].unique /\ ~q.columns[c].unique

ConfusesNames(k, p, q, r) ==
  \E c \in DOMAIN q.columns :
    LET n == AutoName(k, c, "key") IN
    \/ /\ q.columns[c].unique
       /\ \E m \in Changed(p.constraints, q.constraints) : OwnConstraint(k, c, m)
    \/ /\ n \in DOMAIN p.constraints \ Changed(p.constraints, q.constraints)
       /\ c \in DOMAIN Stayed(p.columns, q.columns, r)
       /\ Stayed(p.columns, q.columns, r)[c].unique /\ ~q.columns[c].unique

LEMMA AlteredExactly ==
  ASSUME NEW k, NEW p, IsTable(p), NEW q, IsTable(q), NEW r,
         ~ForgetsKey(p, q, r), ~ConfusesNames(k, p, q, r)
  PROVE  NewColumns(k, p, q, r) = q.columns /\ NewConstraints(k, p, q, r) = q.constraints
<1> DEFINE G == q.columns
           P == Stayed(p.columns, G, r)
           A == AlteredAll(P, G)
           N == p.constraints
           M == q.constraints
           S == Changed(N, M)
           L == LostNames(k, P, G, DOMAIN G)
<1>f. /\ IsFcn(G) /\ AreColumns(G) /\ IsFcn(N) /\ IsFcn(M)
      /\ AreColumns(P) /\ DOMAIN P \subseteq DOMAIN G
  BY StayedColumns DEF IsTable, IsMap, IsFcn
<1>1. \A c \in DOMAIN P : c \in KeyColumns /\ P[c].unique => G[c].unique
  BY DEF ForgetsKey
<1>2. \A c \in DOMAIN G : G[c].unique => ~\E n \in S : OwnConstraint(k, c, n)
  BY DEF ConfusesNames
<1>3. \A c \in DOMAIN G : c \in DOMAIN P /\ AutoName(k, c, "key") \in DOMAIN N \ S
                            /\ P[c].unique => G[c].unique
  BY DEF ConfusesNames
<1> HIDE DEF P, S
<1>4. A = G
  <2>1. ASSUME NEW c \in DOMAIN G
        PROVE  (IF c \in DOMAIN P THEN Altered(c, P[c], G[c]) ELSE G[c]) = G[c]
    <3>1. CASE c \in DOMAIN P
      <4> DEFINE a == G[c].unique
                 b == P[c].unique
                 d == IF a THEN TRUE ELSE IF b THEN Left(c) ELSE FALSE
      <4>1. a \in BOOLEAN /\ b \in BOOLEAN /\ G[c] = Col(G[c].type, a, G[c].references)
        BY <1>f, <3>1 DEF AreColumns
      <4>2. ~a /\ b => Left(c) = FALSE
        BY <1>1, <3>1 DEF Left
      <4>3. d = a
        BY <4>1, <4>2
      <4>4. Altered(c, P[c], G[c]) = Col(G[c].type, d, G[c].references)
        BY DEF Altered
      <4> HIDE DEF d, a
      <4> QED BY <3>1, <4>1, <4>3, <4>4
    <3> QED BY <3>1
  <2> QED BY <1>f, <2>1 DEF AlteredAll, IsFcn
<1>5. Cleared(G, k, S) = G
  <2>1. ASSUME NEW c \in DOMAIN G
        PROVE  Col(G[c].type, G[c].unique /\ ~\E n \in S : OwnConstraint(k, c, n), G[c].references)
                 = G[c]
    <3>1. G[c].unique \in BOOLEAN /\ G[c] = Col(G[c].type, G[c].unique, G[c].references)
      BY <1>f DEF AreColumns
    <3>2. (G[c].unique /\ ~\E n \in S : OwnConstraint(k, c, n)) = G[c].unique
      BY <1>2, <3>1
    <3> QED BY <3>1, <3>2
  <2> QED BY <1>f, <2>1 DEF Cleared, IsFcn
<1>6. NewColumns(k, p, q, r) = G
  BY <1>4, <1>5 DEF NewColumns, P, S
<1>7. \A n \in L : n \notin DOMAIN N \ S
  BY <1>3 DEF LostNames
<1> HIDE DEF L
<1>8. (DOMAIN N \ L) \ S = DOMAIN N \ S
  BY <1>7
<1> DEFINE K == Restrict(N, DOMAIN N \ L)
<1>9. Restrict(K, DOMAIN K \ S) = Restrict(N, DOMAIN N \ S)
  <2>1. DOMAIN K = DOMAIN N \ L /\ \A x \in DOMAIN N \ L : K[x] = N[x]
    BY DEF Restrict
  <2> HIDE DEF K
  <2> QED BY <1>8, <2>1 DEF Restrict
<1>10. Patched(K, N, M) = M
  <2>1. Patched(N, N, M) = M
    BY <1>f, MapChange
  <2> HIDE DEF K, N, M
  <2> QED BY <1>9, <2>1 DEF Patched, S
<1>11. NewConstraints(k, p, q, r) = Patched(K, N, M)
  BY DEF NewConstraints, Keeping, K, L, P
<1> QED BY <1>6, <1>10, <1>11

LEMMA AlteredAnyway ==
  ASSUME NEW k, NEW p, IsTable(p), NEW q, IsTable(q), NEW r, NEW X, IsMap(X)
  PROVE  /\ IsTable(Tab(NewColumns(k, p, q, r), X, NewConstraints(k, p, q, r)))
         /\ DOMAIN NewColumns(k, p, q, r) = DOMAIN q.columns
         /\ \A c \in DOMAIN q.columns :
              NewColumns(k, p, q, r)[c].references = q.columns[c].references
<1> DEFINE G == q.columns
           P == Stayed(p.columns, G, r)
           A == AlteredAll(P, G)
           S == Changed(p.constraints, q.constraints)
           C == NewColumns(k, p, q, r)
           M == NewConstraints(k, p, q, r)
           t == Tab(C, X, M)
<1>f. /\ IsFcn(G) /\ AreColumns(G) /\ IsFiniteSet(DOMAIN G)
      /\ IsFcn(P) /\ AreColumns(P) /\ DOMAIN P \subseteq DOMAIN G
  BY StayedColumns DEF IsTable, IsMap, IsFcn
<1>a. AreColumns(A) /\ DOMAIN A = DOMAIN G /\ IsFcn(A)
  <2>1. DOMAIN A = DOMAIN G /\ IsFcn(A)
    BY DEF AlteredAll, IsFcn
  <2> HIDE DEF P, G
  <2> QED BY <1>f, <2>1, AlteredColumns
<1>b. \A c \in DOMAIN G : A[c].references = G[c].references
  BY DEF AlteredAll, Altered, Col
<1> HIDE DEF A
<1>1. C = Cleared(A, k, S)
  BY DEF NewColumns, A
<1>2. AreColumns(C)
  BY <1>1, <1>a, Clearing
<1>3. IsMap(C) /\ DOMAIN C = DOMAIN G
  BY <1>1, <1>a, <1>f DEF Cleared, IsMap
<1>4. ASSUME NEW c \in DOMAIN G
      PROVE  C[c].references = G[c].references
  BY <1>1, <1>a, <1>b DEF Cleared, Col
<1>5. IsMap(M)
  <2>1. IsMap(p.constraints) /\ IsMap(q.constraints)
    BY DEF IsTable
  <2> DEFINE K == Keeping(p.constraints, k, P, G, DOMAIN G)
  <2>2. IsMap(K)
    BY <2>1, MapWithout DEF Keeping
  <2>3. M = Patched(K, p.constraints, q.constraints)
    BY DEF NewConstraints
  <2> HIDE DEF K, M
  <2> QED BY <2>1, <2>2, <2>3, PatchedIsMap
<1> HIDE DEF C, M
<1>6. t.columns = C /\ t.indexes = X /\ t.constraints = M
  BY TabFields
<1>7. IsTable(t)
  BY <1>2, <1>3, <1>5, <1>6 DEF IsTable
<1> QED BY <1>3, <1>4, <1>7 DEF C, M

LEMMA NewTableLeads ==
  ASSUME NEW T, NEW E, NEW Q, NEW k, NEW t, IsTable(t)
  PROVE  Leads(CreateTable(k, t) \o CreateIndexes(k, t, DOMAIN t.indexes),
               Snap(T, E, Q), Snap(With(T, k, t), E, Q))
<1> DEFINE C == t.columns
           X == t.indexes
           N == t.constraints
           t0 == Tab(C, Nothing, N)
           st == [op |-> "createTable", key |-> k, def |-> t0]
           e == SetToSeq(DOMAIN X)
           part == CreateIndexes(k, t, DOMAIN X)
           s == Snap(T, E, Q)
<1>1. [t EXCEPT !.indexes = Nothing] = t0
  <2>1. t = Tab(C, X, N)
    BY DEF IsTable
  <2> HIDE DEF C, X, N
  <2>2. [Tab(C, X, N) EXCEPT !.indexes = Nothing] = t0
    BY DEF Tab
  <2> QED BY <2>1, <2>2
<1>2. CreateTable(k, t) = <<st>>
  BY <1>1 DEF CreateTable
<1>3. Leads(<<st>>, s, Snap(With(T, k, t0), E, Q))
  <2> HIDE DEF t0
  <2>1. Replay(s, <<st>>) = Apply(s, st)
    BY ReplayFew
  <2>2. Apply(s, st) = Snap(With(T, k, t0), E, Q)
    BY ApplyCreateTable
  <2> QED BY <2>1, <2>2, Singleton DEF Leads
<1>4. Lists(e, DOMAIN X)
  BY SetToSeqLists DEF IsTable, IsMap
<1>5. CreatesIndexes(part, e, k, X)
  BY DEF CreatesIndexes, CreateIndexes, ForEach
<1>6. IsFcn(Nothing)
  BY DEF IsFcn, Nothing
<1>7. Extended(Nothing, X, DOMAIN X) = X
  BY DEF IsTable, IsMap, Extended, Nothing
<1>8. IsSeq(e) /\ ToSet(e) = DOMAIN X
  BY <1>4 DEF Lists
<1> HIDE DEF C, X, N, e, part
<1>9. Leads(part, Snap(With(T, k, Tab(C, Nothing, N)), E, Q),
            Snap(With(T, k, Tab(C, Extended(Nothing, X, ToSet(e)), N)), E, Q))
  BY <1>5, <1>6, <1>8, CreateIndexBlock
<1>10. Leads(part, Snap(With(T, k, t0), E, Q), Snap(With(T, k, Tab(C, X, N)), E, Q))
  BY <1>7, <1>8, <1>9
<1>11. t = Tab(C, X, N)
  BY DEF IsTable, C, X, N
<1> HIDE DEF t0, st, s
<1>12. Leads(<<st>> \o part, s, Snap(With(T, k, Tab(C, X, N)), E, Q))
  BY <1>3, <1>10, LeadsOn
<1> QED BY <1>2, <1>11, <1>12 DEF part, X, s

-----------------------------------------------------------------------------
(* All tables: P are the ones that stay, G those that there are to be.       *)

IsTables(T) == IsFcn(T) /\ \A u \in DOMAIN T : IsTable(T[u])

AreRenamings(P, G, cr) ==
  \A k \in DOMAIN P : IsRenaming(cr[k], P[k].columns, G[k].columns)

Become(k, P, G, cr) ==
  IF k \in DOMAIN P
  THEN Tab(NewColumns(k, P[k], G[k], cr[k]), G[k].indexes, NewConstraints(k, P[k], G[k], cr[k]))
  ELSE G[k]

AlteredTables(P, G, cr) == [k \in DOMAIN G |-> Become(k, P, G, cr)]

TablePart(k, P, G, cr) ==
  IF k \in DOMAIN P THEN AlterTable(k, P[k], G[k], cr[k])
  ELSE CreateTable(k, G[k]) \o CreateIndexes(k, G[k], DOMAIN G[k].indexes)

TableParts(ss, e, P, G, cr) == ss = [i \in DOMAIN e |-> TablePart(e[i], P, G, cr)]

Diff(P, G, cr) ==
  /\ IsTables(P) /\ IsTables(G) /\ DOMAIN P \subseteq DOMAIN G /\ AreRenamings(P, G, cr)

LEMMA TablesAreTables ==
  ASSUME NEW T, IsTables(T)
  PROVE  AreTables(T)
BY DEF IsTables, AreTables, IsTable

LEMMA BecomeTable ==
  ASSUME NEW P, NEW G, NEW cr, Diff(P, G, cr), NEW k \in DOMAIN G
  PROVE  /\ IsTable(Become(k, P, G, cr)) /\ Become(k, P, G, cr).indexes = G[k].indexes
         /\ DOMAIN Become(k, P, G, cr).columns = DOMAIN G[k].columns
         /\ \A c \in DOMAIN G[k].columns :
              Become(k, P, G, cr).columns[c].references = G[k].columns[c].references
<1> DEFINE q == G[k]
<1>1. IsTable(q)
  BY DEF Diff, IsTables
<1>2. CASE k \in DOMAIN P
  <2> DEFINE p == P[k]
             r == cr[k]
             C == NewColumns(k, p, q, r)
             t == Tab(C, q.indexes, NewConstraints(k, p, q, r))
  <2>1. IsTable(p) /\ IsMap(q.indexes)
    BY <1>1, <1>2 DEF Diff, IsTables, IsTable
  <2>2. Become(k, P, G, cr) = t
    BY <1>2 DEF Become
  <2>3. t.columns = C /\ t.indexes = q.indexes
    BY TabFields
  <2> HIDE DEF p, q, r
  <2>4. /\ IsTable(t) /\ DOMAIN C = DOMAIN q.columns
        /\ \A c \in DOMAIN q.columns : C[c].references = q.columns[c].references
    BY <1>1, <2>1, AlteredAnyway
  <2> HIDE DEF t, C
  <2> QED BY <2>2, <2>3, <2>4 DEF q
<1>3. CASE k \notin DOMAIN P
  BY <1>1, <1>3 DEF Become
<1> QED BY <1>2, <1>3

LEMMA AlteredTablesAre ==
  ASSUME NEW P, NEW G, NEW cr, Diff(P, G, cr), NEW D, D \subseteq DOMAIN G
  PROVE  IsTables(Extended(P, AlteredTables(P, G, cr), D))
<1> DEFINE A == AlteredTables(P, G, cr)
           V == Extended(P, A, D)
<1>1. \A k \in DOMAIN G : IsTable(A[k])
  BY BecomeTable DEF AlteredTables
<1> HIDE DEF A
<1>2. DOMAIN V = DOMAIN P \cup D /\ IsFcn(V)
  BY DEF Extended, IsFcn
<1>3. \A u \in DOMAIN P \cup D : V[u] = IF u \in D THEN A[u] ELSE P[u]
  BY DEF Extended
<1>4. \A u \in DOMAIN P : IsTable(P[u])
  BY DEF Diff, IsTables
<1> HIDE DEF V
<1>5. \A u \in DOMAIN V : IsTable(V[u])
  BY <1>1, <1>2, <1>3, <1>4
<1>6. IsTables(V)
  BY <1>2, <1>5 DEF IsTables
<1> QED BY <1>6 DEF V, A

(* The name of an index that is dropped is nowhere else. *)
NotShared(P, G) ==
  \A k \in DOMAIN P : \A u \in DOMAIN G \ {k} :
    LET S == Changed(P[k].indexes, G[k].indexes) IN
    /\ DOMAIN G[u].indexes \cap S = {}
    /\ u \in DOMAIN P => DOMAIN P[u].indexes \cap S = {}

LEMMA TablePartExactly ==
  ASSUME NEW P, NEW G, NEW cr, Diff(P, G, cr), NotShared(P, G), NEW E, NEW Q,
         NEW D, D \subseteq DOMAIN G, NEW k \in DOMAIN G \ D,
         NEW V, V = Extended(P, AlteredTables(P, G, cr), D)
  PROVE  Leads(TablePart(k, P, G, cr), Snap(V, E, Q),
               Snap(With(V, k, AlteredTables(P, G, cr)[k]), E, Q))
<1> DEFINE A == AlteredTables(P, G, cr)
<1>0. A[k] = Become(k, P, G, cr)
  BY DEF AlteredTables
<1>1. AreTables(V)
  BY AlteredTablesAre, TablesAreTables
<1>2. DOMAIN V = DOMAIN P \cup D /\ \A u \in DOMAIN V : V[u] = IF u \in D THEN A[u] ELSE P[u]
  BY DEF Extended
<1>3. \A u \in D : A[u].indexes = G[u].indexes
  BY BecomeTable DEF AlteredTables
<1> HIDE DEF A
<1>4. CASE k \in DOMAIN P
  <2> DEFINE p == P[k]
             q == G[k]
             r == cr[k]
             S == Changed(p.indexes, q.indexes)
  <2>1. k \in DOMAIN V /\ V[k] = p
    BY <1>2, <1>4
  <2>2. Altering(V, k, p, q, r)
    BY <1>1, <1>4, <2>1 DEF Altering, Diff, IsTables, AreRenamings
  <2>3. Alone(V, k, S)
    <3> SUFFICES ASSUME NEW u \in DOMAIN V \ {k}
                 PROVE  DOMAIN V[u].indexes \cap S = {}
      BY DEF Alone
    <3>1. u \in DOMAIN G \ {k}
      BY <1>2 DEF Diff
    <3>2. /\ DOMAIN G[u].indexes \cap S = {}
          /\ u \in DOMAIN P => DOMAIN P[u].indexes \cap S = {}
      BY <1>4, <3>1 DEF NotShared
    <3> HIDE DEF S
    <3>3. CASE u \in D
      BY <1>2, <1>3, <3>2, <3>3
    <3>4. CASE u \notin D
      BY <1>2, <3>2, <3>4
    <3> QED BY <3>3, <3>4
  <2>4. /\ TablePart(k, P, G, cr) = AlterTable(k, p, q, r)
        /\ A[k] = Tab(NewColumns(k, p, q, r), q.indexes, NewConstraints(k, p, q, r))
    BY <1>0, <1>4 DEF TablePart, Become
  <2>5. V[k].indexes = p.indexes
    BY <2>1
  <2> HIDE DEF p, q, r
  <2>6. Leads(AlterTable(k, p, q, r), Snap(V, E, Q),
              Snap(With(V, k, Tab(NewColumns(k, p, q, r), q.indexes,
                                  NewConstraints(k, p, q, r))), E, Q))
    BY <2>2, <2>3, <2>5, AlterTableAlone DEF S
  <2> QED BY <2>4, <2>6 DEF A
<1>5. CASE k \notin DOMAIN P
  <2> DEFINE q == G[k]
  <2>1. IsTable(q)
    BY DEF Diff, IsTables
  <2>2. /\ TablePart(k, P, G, cr) = CreateTable(k, q) \o CreateIndexes(k, q, DOMAIN q.indexes)
        /\ A[k] = q
    BY <1>0, <1>5 DEF TablePart, Become
  <2> HIDE DEF q
  <2>3. Leads(CreateTable(k, q) \o CreateIndexes(k, q, DOMAIN q.indexes), Snap(V, E, Q),
              Snap(With(V, k, q), E, Q))
    BY <2>1, NewTableLeads
  <2> QED BY <2>2, <2>3 DEF A
<1> QED BY <1>4, <1>5

LEMMA TablesBlockExactly ==
  ASSUME NEW P, NEW G, NEW cr, Diff(P, G, cr), NotShared(P, G), NEW E, NEW Q,
         NEW e, Lists(e, DOMAIN G), NEW ss, TableParts(ss, e, P, G, cr)
  PROVE  Leads(FlattenSeq(ss), Snap(P, E, Q), Snap(AlteredTables(P, G, cr), E, Q))
<1> DEFINE A == AlteredTables(P, G, cr)
           State(D) == Snap(Extended(P, A, D), E, Q)
           f == [i \in 0..Len(e) |-> State(First(e, i))]
           s == State({})
           u == State(DOMAIN G)
<1>0. IsSeq(e)
  BY DEF Lists
<1>1. /\ IsSeq(ss) /\ Len(ss) = Len(e) /\ Len(ss) \in Nat
      /\ DOMAIN e = 1..Len(e)
  BY <1>0, OnePerItem DEF TableParts
<1>f. IsFcn(P)
  BY DEF Diff, IsTables
<1>2. ASSUME NEW i \in 1..Len(ss)
      PROVE  Leads(ss[i], f[i - 1], f[i])
  <2> DEFINE k == e[i]
             D == First(e, i - 1)
             V == Extended(P, A, D)
  <2>0. i \in 1..Len(e)
    BY <1>1
  <2>1. k \in DOMAIN G \ D /\ First(e, i) = D \cup {k} /\ D \subseteq DOMAIN G
    <3>2. k \in DOMAIN G /\ k \notin D /\ First(e, i) = D \cup {k} /\ First(e, i) \subseteq DOMAIN G
      BY <2>0, OneMore
    <3> QED BY <3>2
  <2>2. ss[i] = TablePart(k, P, G, cr)
    BY <1>1 DEF TableParts
  <2>3. f[i - 1] = State(D) /\ f[i] = State(D \cup {k})
    <3>1. i \in 0..Len(e) /\ i - 1 \in 0..Len(e)
      BY <1>1
    <3> HIDE DEF State, D, k
    <3>2. f[i - 1] = State(First(e, i - 1)) /\ f[i] = State(First(e, i))
      BY <3>1
    <3> HIDE DEF f
    <3> QED BY <2>1, <3>2 DEF D
  <2>4. With(V, k, A[k]) = Extended(P, A, D \cup {k})
    <3> HIDE DEF A
    <3>2. With(Extended(P, A, First(e, i - 1)), e[i], A[e[i]]) = Extended(P, A, First(e, i))
      BY <1>0, <1>f, <2>0, ExtendingOnce
    <3> QED BY <2>1, <3>2
  <2> HIDE DEF k, D, f
  <2>5. Leads(TablePart(k, P, G, cr), Snap(V, E, Q), Snap(With(V, k, A[k]), E, Q))
    BY <2>1, TablePartExactly
  <2> QED BY <2>2, <2>3, <2>4, <2>5
<1>3. Chain(f, ss, s, u)
  <2>1. First(e, 0) = {} /\ First(e, Len(e)) = DOMAIN G
    BY OneMore
  <2>2. f[0] = State(First(e, 0)) /\ f[Len(e)] = State(First(e, Len(e)))
    <3> HIDE DEF State
    <3> QED BY <1>1
  <2> HIDE DEF f, State
  <2>3. f[0] = s /\ f[Len(ss)] = u
    BY <1>1, <2>1, <2>2
  <2> HIDE DEF s, u
  <2> QED BY <1>2, <2>3 DEF Chain
<1>4. Leads(FlattenSeq(ss), s, u)
  <2> HIDE DEF f, s, u
  <2> QED BY <1>1, <1>3, ChainLeads
<1>5. Extended(P, A, {}) = P
  BY <1>f DEF Extended, IsFcn
<1>6. Extended(P, A, DOMAIN G) = A
  <2>1. DOMAIN P \cup DOMAIN G = DOMAIN G
    BY DEF Diff
  <2>2. Extended(P, A, DOMAIN G) = [x \in DOMAIN G |-> A[x]]
    BY <2>1 DEF Extended
  <2>3. A = [x \in DOMAIN G |-> A[x]]
    BY DEF AlteredTables
  <2> QED BY <2>2, <2>3
<1> QED BY <1>4, <1>5, <1>6

LEMMA TablePartAnyway ==
  ASSUME NEW P, NEW G, NEW cr, Diff(P, G, cr), NEW E, NEW Q,
         NEW D, D \subseteq DOMAIN G, NEW k \in DOMAIN G \ D,
         NEW V, AreTables(V), SameButIndexes(Extended(P, AlteredTables(P, G, cr), D), V)
  PROVE  \E W : /\ Leads(TablePart(k, P, G, cr), Snap(V, E, Q), Snap(W, E, Q))
                /\ AreTables(W)
                /\ SameButIndexes(Extended(P, AlteredTables(P, G, cr), D \cup {k}), W)
<1> DEFINE A == AlteredTables(P, G, cr)
           V0 == Extended(P, A, D)
           V1 == Extended(P, A, D \cup {k})
<1>0. A[k] = Become(k, P, G, cr) /\ IsTable(A[k])
  BY BecomeTable DEF AlteredTables
<1> HIDE DEF A
<1>1. DOMAIN V0 = DOMAIN P \cup D /\ \A u \in DOMAIN P \cup D : V0[u] = IF u \in D THEN A[u] ELSE P[u]
  BY DEF Extended
<1>2. /\ DOMAIN V1 = DOMAIN P \cup D \cup {k}
      /\ \A u \in DOMAIN P \cup D \cup {k} : V1[u] = IF u \in D \cup {k} THEN A[u] ELSE P[u]
  BY DEF Extended
<1>3. DOMAIN V = DOMAIN P \cup D
  BY <1>1 DEF SameButIndexes, A
<1>4. ASSUME NEW u \in DOMAIN P \cup D
      PROVE  V[u].columns = V0[u].columns /\ V[u].constraints = V0[u].constraints
  BY <1>1 DEF SameButIndexes, A
<1> HIDE DEF V0, V1
(* Whatever is now at k, if it is like A[k]. *)
<1>5. ASSUME NEW U, AreTables(U), SameButIndexes(V, U), NEW t,
             t = Tab(t.columns, t.indexes, t.constraints), IsMap(t.indexes),
             t.columns = A[k].columns, t.constraints = A[k].constraints
      PROVE  AreTables(With(U, k, t)) /\ SameButIndexes(V1, With(U, k, t))
  <2> DEFINE W == With(U, k, t)
  <2>1. DOMAIN U = DOMAIN P \cup D
    BY <1>3, <1>5 DEF SameButIndexes
  <2>2. /\ DOMAIN W = DOMAIN U \cup {k} /\ IsFcn(W) /\ W[k] = t
        /\ \A u \in DOMAIN U : u # k => W[u] = U[u]
    BY DEF With, IsFcn
  <2> HIDE DEF W
  <2>3. AreTables(W)
    <3>1. ASSUME NEW u \in DOMAIN W
          PROVE  W[u] = Tab(W[u].columns, W[u].indexes, W[u].constraints) /\ IsMap(W[u].indexes)
      <4>1. CASE u = k
        BY <1>5, <2>2, <4>1
      <4>2. CASE u # k
        BY <1>5, <2>2, <4>2 DEF AreTables
      <4> QED BY <4>1, <4>2
    <3> QED BY <2>2, <3>1 DEF AreTables
  <2>4. ASSUME NEW u \in DOMAIN V1
        PROVE  W[u].columns = V1[u].columns /\ W[u].constraints = V1[u].constraints
    <3>1. CASE u = k
      BY <1>2, <1>5, <2>2, <3>1
    <3>2. CASE u # k
      <4>1. u \in DOMAIN P \cup D /\ W[u] = U[u] /\ V1[u] = V0[u]
        BY <1>1, <1>2, <2>1, <2>2, <3>2
      <4>2. U[u].columns = V[u].columns /\ U[u].constraints = V[u].constraints
        BY <1>3, <1>5, <4>1 DEF SameButIndexes
      <4> QED BY <1>4, <4>1, <4>2
    <3> QED BY <3>1, <3>2
  <2>5. DOMAIN W = DOMAIN V1
    BY <1>2, <2>1, <2>2
  <2>6. SameButIndexes(V1, W)
    BY <2>4, <2>5 DEF SameButIndexes
  <2> QED BY <2>3, <2>6 DEF W
<1>6. CASE k \in DOMAIN P
  <2> DEFINE p == P[k]
             q == G[k]
             r == cr[k]
             C == NewColumns(k, p, q, r)
             N == NewConstraints(k, p, q, r)
  <2>1. k \in DOMAIN V /\ V[k].columns = p.columns /\ V[k].constraints = p.constraints
    BY <1>1, <1>3, <1>4, <1>6
  <2>2. Altering(V, k, p, q, r)
    BY <1>6, <2>1 DEF Altering, Diff, IsTables, AreRenamings
  <2>3. /\ TablePart(k, P, G, cr) = AlterTable(k, p, q, r)
        /\ A[k] = Tab(C, q.indexes, N)
    BY <1>0, <1>6 DEF TablePart, Become
  <2>4. A[k].columns = C /\ A[k].constraints = N
    BY <2>3, TabFields
  <2> HIDE DEF p, q, r
  <2>5. PICK U, X : /\ AreTables(U) /\ SameButIndexes(V, U) /\ IsMap(X)
                    /\ Leads(AlterTable(k, p, q, r), Snap(V, E, Q),
                             Snap(With(U, k, Tab(C, X, N)), E, Q))
    BY <2>2, AlterTableAnyway
  <2> DEFINE t == Tab(C, X, N)
  <2> HIDE DEF C, N
  <2>6. t = Tab(t.columns, t.indexes, t.constraints) /\ t.columns = C /\ t.indexes = X /\ t.constraints = N
    BY TabFields
  <2> HIDE DEF t
  <2>7. AreTables(With(U, k, t)) /\ SameButIndexes(V1, With(U, k, t))
    BY <1>5, <2>4, <2>5, <2>6
  <2>8. Leads(TablePart(k, P, G, cr), Snap(V, E, Q), Snap(With(U, k, t), E, Q))
    BY <2>3, <2>5 DEF t
  <2> QED BY <2>7, <2>8 DEF V1, A
<1>7. CASE k \notin DOMAIN P
  <2> DEFINE q == G[k]
  <2>1. /\ TablePart(k, P, G, cr) = CreateTable(k, q) \o CreateIndexes(k, q, DOMAIN q.indexes)
        /\ A[k] = q /\ IsTable(q)
    BY <1>0, <1>7 DEF TablePart, Become
  <2> HIDE DEF q
  <2>3. Leads(TablePart(k, P, G, cr), Snap(V, E, Q), Snap(With(V, k, q), E, Q))
    BY <2>1, NewTableLeads
  <2>4. q = Tab(q.columns, q.indexes, q.constraints) /\ IsMap(q.indexes)
    BY <2>1 DEF IsTable
  <2>5. SameButIndexes(V, V)
    BY DEF SameButIndexes
  <2>6. AreTables(With(V, k, q)) /\ SameButIndexes(V1, With(V, k, q))
    BY <1>5, <2>1, <2>4, <2>5
  <2> QED BY <2>3, <2>6 DEF V1, A
<1> QED BY <1>6, <1>7

(* The tables after those in D have been altered or made. *)
Halfway(s, P, G, cr, D, E, Q) ==
  \E V : /\ s = Snap(V, E, Q) /\ AreTables(V)
         /\ SameButIndexes(Extended(P, AlteredTables(P, G, cr), D), V)

LEMMA HalfwayOnce ==
  ASSUME NEW P, NEW G, NEW cr, Diff(P, G, cr), NEW E, NEW Q,
         NEW D, D \subseteq DOMAIN G, NEW k \in DOMAIN G \ D,
         NEW s, Halfway(s, P, G, cr, D, E, Q)
  PROVE  /\ IsSeq(TablePart(k, P, G, cr))
         /\ Halfway(Replay(s, TablePart(k, P, G, cr)), P, G, cr, D \cup {k}, E, Q)
<1>1. PICK V : /\ s = Snap(V, E, Q) /\ AreTables(V)
               /\ SameButIndexes(Extended(P, AlteredTables(P, G, cr), D), V)
  BY DEF Halfway
<1>2. PICK W : /\ Leads(TablePart(k, P, G, cr), Snap(V, E, Q), Snap(W, E, Q))
               /\ AreTables(W)
               /\ SameButIndexes(Extended(P, AlteredTables(P, G, cr), D \cup {k}), W)
  BY <1>1, TablePartAnyway
<1> QED BY <1>1, <1>2 DEF Leads, Halfway

LEMMA TablesBlockAnyway ==
  ASSUME NEW P, NEW G, NEW cr, Diff(P, G, cr), NEW E, NEW Q,
         NEW e, Lists(e, DOMAIN G), NEW ss, TableParts(ss, e, P, G, cr)
  PROVE  /\ IsSeqOfSeqs(ss)
         /\ Halfway(Replay(Snap(P, E, Q), FlattenSeq(ss)), P, G, cr, DOMAIN G, E, Q)
<1> DEFINE A == AlteredTables(P, G, cr)
           R == Stages(Snap(P, E, Q), ss)
           J == {i \in 0..Len(ss) : Halfway(R[i], P, G, cr, First(e, i), E, Q)}
           s == Snap(P, E, Q)
<1>0. IsSeq(e)
  BY DEF Lists
<1>1. /\ IsSeq(ss) /\ Len(ss) = Len(e) /\ Len(ss) \in Nat
      /\ DOMAIN e = 1..Len(e)
  BY <1>0, OnePerItem DEF TableParts
<1>f. AreTables(P) /\ IsFcn(P)
  BY TablesAreTables DEF Diff, IsTables
<1>2. ASSUME NEW i \in 1..Len(ss)
      PROVE  /\ e[i] \in DOMAIN G \ First(e, i - 1) /\ First(e, i) = First(e, i - 1) \cup {e[i]}
             /\ First(e, i - 1) \subseteq DOMAIN G
             /\ ss[i] = TablePart(e[i], P, G, cr)
  <2>1. i \in 1..Len(e)
    BY <1>1
  <2>2. e[i] \in DOMAIN G /\ e[i] \notin First(e, i - 1) /\ First(e, i) = First(e, i - 1) \cup {e[i]}
        /\ First(e, i) \subseteq DOMAIN G
    BY <2>1, OneMore
  <2> QED BY <1>1, <2>2 DEF TableParts
<1>3. Halfway(s, P, G, cr, {}, E, Q)
  <2>1. Extended(P, A, {}) = P
    BY <1>f DEF Extended, IsFcn
  <2>2. SameButIndexes(P, P)
    BY DEF SameButIndexes
  <2> QED BY <1>f, <2>1, <2>2 DEF Halfway
<1>4. IsSeqOfSeqs(ss)
  <2>1. ASSUME NEW k \in DOMAIN G
        PROVE  IsSeq(TablePart(k, P, G, cr))
    BY <1>3, HalfwayOnce
  <2>2. ASSUME NEW i \in 1..Len(ss)
        PROVE  IsSeq(ss[i])
    <3>1. e[i] \in DOMAIN G /\ ss[i] = TablePart(e[i], P, G, cr)
      BY <1>2
    <3> QED BY <2>1, <3>1
  <2> QED BY <1>1, <2>2 DEF IsSeqOfSeqs
<1>5. /\ R[0] = s
      /\ \A i \in 1..Len(ss) : R[i] = Replay(R[i - 1], ss[i])
      /\ R[Len(ss)] = Replay(s, FlattenSeq(ss))
  BY <1>4, StagesFollow
<1> HIDE DEF R, s
<1>6. 0 \in J
  <2>1. First(e, 0) = {}
    BY OneMore
  <2>2. Halfway(R[0], P, G, cr, First(e, 0), E, Q)
    BY <1>3, <1>5, <2>1
  <2>3. 0 \in 0..Len(ss)
    BY <1>1
  <2> QED BY <2>2, <2>3
<1>7. ASSUME NEW i \in 0..Len(ss), i \in J, i < Len(ss)
      PROVE  i + 1 \in J
  <2> DEFINE k == e[i + 1]
             D == First(e, i)
             now == R[i]
  <2>1. i + 1 \in 1..Len(ss) /\ (i + 1) - 1 = i
    BY <1>1, <1>7
  <2>2. /\ k \in DOMAIN G \ D /\ First(e, i + 1) = D \cup {k} /\ D \subseteq DOMAIN G
        /\ ss[i + 1] = TablePart(k, P, G, cr)
    BY <1>2, <2>1
  <2>3. R[i + 1] = Replay(now, ss[i + 1])
    BY <1>5, <2>1
  <2>4. Halfway(now, P, G, cr, D, E, Q)
    BY <1>7
  <2> HIDE DEF k, D, now
  <2>5. Halfway(Replay(now, TablePart(k, P, G, cr)), P, G, cr, D \cup {k}, E, Q)
    BY <2>2, <2>4, HalfwayOnce
  <2>6. Halfway(R[i + 1], P, G, cr, First(e, i + 1), E, Q)
    BY <2>2, <2>3, <2>5
  <2> QED BY <2>1, <2>6
<1>8. \A i \in 0..Len(ss) : i \in J
  <2> HIDE DEF J
  <2> QED BY <1>1, <1>6, <1>7, Upwards
<1>9. Len(ss) \in J /\ First(e, Len(ss)) = DOMAIN G
  <2>1. First(e, Len(e)) = DOMAIN G
    BY OneMore
  <2> QED BY <1>1, <1>8, <2>1
<1> QED BY <1>4, <1>5, <1>9 DEF s

LEMMA OneItem ==
  ASSUME NEW b, NEW x
  PROVE  IsSeq(When(b, x)) /\ ToSet(When(b, x)) = {y \in {x} : b}
<1>1. CASE b
  <2>1. When(b, x) = <<x>>
    BY <1>1 DEF When
  <2> QED BY <1>1, <2>1, Singleton
<1>2. CASE ~b
  <2>1. When(b, x) = <<>>
    BY <1>2 DEF When
  <2> QED BY <1>2, <2>1, NoItems
<1> QED BY <1>1, <1>2

LEMMA PickedIs ==
  ASSUME NEW seq, IsSeq(seq), NEW S
  PROVE  IsSeq(Picked(seq, S)) /\ ToSet(Picked(seq, S)) = ToSet(seq) \cap S
<1> DEFINE ss == [i \in DOMAIN seq |-> When(seq[i] \in S, seq[i])]
<1>1. DOMAIN seq = 1..Len(seq) /\ Len(seq) \in Nat
  BY SeqIsFunction
<1>2. IsSeq(ss) /\ Len(ss) = Len(seq)
  BY OnePerItem
<1>3. \A i \in 1..Len(seq) : ss[i] = When(seq[i] \in S, seq[i])
  BY <1>1
<1> HIDE DEF ss
<1>4. ASSUME NEW i \in 1..Len(seq)
      PROVE  IsSeq(ss[i]) /\ ToSet(ss[i]) = {y \in {seq[i]} : seq[i] \in S}
  <2> DEFINE x == seq[i]
             b == x \in S
  <2>1. ss[i] = When(b, x)
    BY <1>3
  <2> HIDE DEF x, b
  <2>2. IsSeq(ss[i]) /\ ToSet(ss[i]) = {y \in {x} : b}
    BY <2>1, OneItem
  <2> QED BY <2>2 DEF x, b
<1>5. IsSeqOfSeqs(ss)
  BY <1>2, <1>4 DEF IsSeqOfSeqs
<1>6. /\ IsSeq(FlattenSeq(ss))
      /\ ToSet(FlattenSeq(ss)) = UNION {ToSet(ss[i]) : i \in 1..Len(ss)}
  BY <1>5, Flat
<1>7. UNION {ToSet(ss[i]) : i \in 1..Len(ss)} = ToSet(seq) \cap S
  <2>1. ToSet(seq) = {seq[i] : i \in 1..Len(seq)}
    BY <1>1 DEF ToSet
  <2>2. ASSUME NEW y
        PROVE  y \in UNION {ToSet(ss[i]) : i \in 1..Len(ss)} <=> y \in ToSet(seq) \cap S
    <3>1. y \in UNION {ToSet(ss[i]) : i \in 1..Len(ss)} <=> \E i \in 1..Len(seq) : y \in ToSet(ss[i])
      BY <1>2
    <3>2. \A i \in 1..Len(seq) : y \in ToSet(ss[i]) <=> y = seq[i] /\ seq[i] \in S
      BY <1>4
    <3> QED BY <2>1, <3>1, <3>2
  <2> QED BY <2>2
<1> QED BY <1>6, <1>7 DEF Picked, ss

LEMMA ReverseIs ==
  ASSUME NEW s, IsSeq(s)
  PROVE  IsSeq(Reverse(s)) /\ ToSet(Reverse(s)) = ToSet(s)
<1> DEFINE r == Reverse(s)
<1>1. DOMAIN s = 1..Len(s) /\ Len(s) \in Nat
  BY SeqIsFunction
<1>2. r = [i \in 1..Len(s) |-> s[(Len(s) - i) + 1]]
  BY DEF Reverse
<1>3. r = [i \in 1..Len(s) |-> r[i]]
  BY <1>2
<1>4. IsSeq(r) /\ Len(r) = Len(s)
  <2> HIDE DEF r
  <2> QED BY <1>1, <1>3, FunctionIsSeq
<1>5. \A i \in 1..Len(s) : r[i] = s[(Len(s) - i) + 1]
  BY <1>2
<1>6. DOMAIN r = 1..Len(s)
  BY <1>2
<1> HIDE DEF r
<1>7. \A i \in 1..Len(s) : (Len(s) - i) + 1 \in 1..Len(s) /\ (Len(s) - ((Len(s) - i) + 1)) + 1 = i
  BY <1>1
<1>8. ToSet(r) = ToSet(s)
  BY <1>1, <1>5, <1>6, <1>7 DEF ToSet
<1> QED BY <1>4, <1>8 DEF r

-----------------------------------------------------------------------------
(* The order of tables: every table is visited, and once.                   *)

Closed(tables) ==
  /\ IsFiniteSet(DOMAIN tables)
  /\ \A k \in DOMAIN tables : Dependencies(tables, k) \subseteq DOMAIN tables

Call(visiting, ordered, keys) ==
  [visiting |-> visiting, ordered |-> ordered, keys |-> keys]

OneVisit(tables, deeper, visiting, ordered, k) ==
  IF k \in visiting \/ Contains(ordered, k) THEN ordered
  ELSE Append(deeper[Call(visiting \cup {k}, ordered, SetToSeq(Dependencies(tables, k)))], k)

Next2(tables, deeper, x, g, i) ==
  IF i = 0 THEN x.ordered
  ELSE OneVisit(tables, deeper, x.visiting, g[i - 1], x.keys[i])

LEMMA VisitedDefined ==
  ASSUME NEW tables, NEW deeper, NEW x, Len(x.keys) \in Nat
  PROVE  LET after == Visited(tables, deeper, x) IN
         /\ after[0] = x.ordered
         /\ \A i \in 1..Len(x.keys) :
              after[i] = OneVisit(tables, deeper, x.visiting, after[i - 1], x.keys[i])
<1> DEFINE n0 == Len(x.keys)
           Fits(n, g) == g = [i \in 0..n |-> Next2(tables, deeper, x, g, i)]
           T == {n \in 0..n0 : \E g : Fits(n, g)}
<1>1. 0 \in T
  <2>1. Fits(0, [i \in 0..0 |-> x.ordered])
    BY DEF Next2
  <2> HIDE DEF Fits
  <2> QED BY <2>1
<1>2. ASSUME NEW n \in 0..n0, n \in T, n < n0
      PROVE  n + 1 \in T
  <2>1. PICK g : Fits(n, g)
    BY <1>2
  <2> DEFINE h == [i \in 0..n + 1 |-> IF i <= n THEN g[i]
                                      ELSE Next2(tables, deeper, x, g, n + 1)]
  <2>2. ASSUME NEW i \in 0..n + 1
        PROVE  h[i] = Next2(tables, deeper, x, h, i)
    <3>1. i = 0 \/ h[i - 1] = g[i - 1]
      OBVIOUS
    <3>2. Next2(tables, deeper, x, h, i) = Next2(tables, deeper, x, g, i)
      BY <3>1 DEF Next2
    <3>3. h[i] = Next2(tables, deeper, x, g, i)
      BY <2>1
    <3> QED BY <3>2, <3>3
  <2> HIDE DEF h
  <2>3. h = [i \in 0..n + 1 |-> h[i]]
    BY DEF h
  <2>4. Fits(n + 1, h)
    BY <2>2, <2>3
  <2> HIDE DEF Fits
  <2> QED BY <1>2, <2>4
<1>3. n0 \in T
  <2> HIDE DEF T
  <2>1. \A n \in 0..n0 : n \in T
    BY <1>1, <1>2, Upwards
  <2> QED BY <2>1
<1>4. PICK g : Fits(n0, g)
  BY <1>3
<1>5. Visited(tables, deeper, x) = CHOOSE after : Fits(n0, after)
  BY DEF Visited, Next2, OneVisit, Call
<1>6. Fits(n0, Visited(tables, deeper, x))
  BY <1>4, <1>5
<1>7. \A i \in 0..n0 :
        Visited(tables, deeper, x)[i] = Next2(tables, deeper, x, Visited(tables, deeper, x), i)
  BY <1>6
<1> QED BY <1>7 DEF Next2

Level(tables, deeper) ==
  [x \in Calls(tables) |-> Visited(tables, deeper, x)[Len(x.keys)]]

NoVisit(tables) == [y \in Calls(tables) |-> y.ordered]

Next3(tables, g, i) ==
  Level(tables, IF i = 0 THEN NoVisit(tables) ELSE g[i - 1])

LEMMA VisitsDefined ==
  ASSUME NEW tables, IsFiniteSet(DOMAIN tables)
  PROVE  LET n == Cardinality(DOMAIN tables)
             visits == Visits(tables)
         IN /\ n \in Nat
            /\ visits[0] = Level(tables, NoVisit(tables))
            /\ \A i \in 1..n : visits[i] = Level(tables, visits[i - 1])
<1> DEFINE n0 == Cardinality(DOMAIN tables)
           Fits(n, g) == g = [i \in 0..n |-> Next3(tables, g, i)]
           T == {n \in 0..n0 : \E g : Fits(n, g)}
<1>0. n0 \in Nat
  BY FS_CardinalityType
<1> HIDE DEF n0
<1>1. 0 \in T
  <2>1. Fits(0, [i \in 0..0 |-> Level(tables, NoVisit(tables))])
    BY DEF Next3
  <2> HIDE DEF Fits
  <2> QED BY <1>0, <2>1
<1>2. ASSUME NEW n \in 0..n0, n \in T, n < n0
      PROVE  n + 1 \in T
  <2>1. PICK g : Fits(n, g)
    BY <1>2
  <2> DEFINE h == [i \in 0..n + 1 |-> IF i <= n THEN g[i] ELSE Next3(tables, g, n + 1)]
  <2>2. ASSUME NEW i \in 0..n + 1
        PROVE  h[i] = Next3(tables, h, i)
    <3>1. i = 0 \/ h[i - 1] = g[i - 1]
      BY <1>0
    <3>2. Next3(tables, h, i) = Next3(tables, g, i)
      BY <3>1 DEF Next3
    <3>3. h[i] = Next3(tables, g, i)
      BY <1>0, <2>1
    <3> QED BY <3>2, <3>3
  <2> HIDE DEF h
  <2>3. h = [i \in 0..n + 1 |-> h[i]]
    BY DEF h
  <2>4. Fits(n + 1, h)
    BY <2>2, <2>3
  <2> HIDE DEF Fits
  <2> QED BY <1>0, <1>2, <2>4
<1>3. n0 \in T
  <2> HIDE DEF T
  <2>1. \A n \in 0..n0 : n \in T
    BY <1>0, <1>1, <1>2, Upwards
  <2> QED BY <1>0, <2>1
<1>4. PICK g : Fits(n0, g)
  BY <1>3
<1>5. Visits(tables) = CHOOSE visits : Fits(n0, visits)
  BY DEF Visits, Next3, Level, NoVisit, n0
<1>6. Fits(n0, Visits(tables))
  BY <1>4, <1>5
<1>7. \A i \in 0..n0 : Visits(tables)[i] = Next3(tables, Visits(tables), i)
  BY <1>6
<1> QED BY <1>0, <1>7 DEF Next3, n0

(* What a call may make of a list of tables. *)
Grown(tables, a, b, visiting) ==
  /\ b \in Seq(DOMAIN tables) /\ IsInjective(b)
  /\ ToSet(a) \subseteq ToSet(b)
  /\ (ToSet(b) \ ToSet(a)) \cap visiting = {}

GrownBy(tables, F, x) ==
  IsInjective(x.ordered) => Grown(tables, x.ordered, F[x], x.visiting)

Growing(tables, F) == \A x \in Calls(tables) : GrownBy(tables, F, x)

LEMMA AppendItem ==
  ASSUME NEW S, NEW s \in Seq(S), IsInjective(s), NEW x \in S, x \notin ToSet(s)
  PROVE  /\ Append(s, x) \in Seq(S) /\ IsInjective(Append(s, x))
         /\ ToSet(Append(s, x)) = ToSet(s) \cup {x}
<1> DEFINE t == Append(s, x)
<1>1. /\ t \in Seq(S) /\ Len(t) = Len(s) + 1 /\ t[Len(s) + 1] = x /\ Len(s) \in Nat
      /\ \A i \in 1..Len(s) : t[i] = s[i]
  OBVIOUS
<1>2. DOMAIN t = 1..Len(s) + 1 /\ DOMAIN s = 1..Len(s)
  BY <1>1
<1> HIDE DEF t
<1>3. ToSet(t) = ToSet(s) \cup {x}
  BY <1>1, <1>2 DEF ToSet
<1>4. ASSUME NEW i \in 1..Len(s) + 1, NEW j \in 1..Len(s) + 1, t[i] = t[j]
      PROVE  i = j
  <2>1. i \in 1..Len(s) \/ i = Len(s) + 1
    BY <1>1
  <2>2. j \in 1..Len(s) \/ j = Len(s) + 1
    BY <1>1
  <2>3. \A m \in 1..Len(s) : t[m] # x
    BY <1>1, <1>2 DEF ToSet
  <2> QED BY <1>1, <1>2, <1>4, <2>1, <2>2, <2>3 DEF IsInjective
<1>5. IsInjective(t)
  BY <1>2, <1>4 DEF IsInjective
<1> QED BY <1>1, <1>3, <1>5 DEF t

LEMMA CallFields ==
  ASSUME NEW v, NEW o, NEW ks
  PROVE  /\ Call(v, o, ks).visiting = v /\ Call(v, o, ks).ordered = o
         /\ Call(v, o, ks).keys = ks
BY DEF Call

LEMMA OneVisitGrows ==
  ASSUME NEW tables, Closed(tables), NEW deeper, Growing(tables, deeper),
         NEW visiting, visiting \subseteq DOMAIN tables,
         NEW ordered \in Seq(DOMAIN tables), IsInjective(ordered),
         NEW k \in DOMAIN tables
  PROVE  /\ Grown(tables, ordered, OneVisit(tables, deeper, visiting, ordered, k), visiting)
         /\ k \in visiting \/ k \in ToSet(OneVisit(tables, deeper, visiting, ordered, k))
<1> DEFINE v == visiting \cup {k}
           ks == SetToSeq(Dependencies(tables, k))
           x == Call(v, ordered, ks)
           b == deeper[x]
<1>0. Contains(ordered, k) <=> k \in ToSet(ordered)
  BY DEF Contains, ToSet
<1>1. CASE k \in visiting \/ k \in ToSet(ordered)
  <2>1. OneVisit(tables, deeper, visiting, ordered, k) = ordered
    BY <1>0, <1>1 DEF OneVisit
  <2>2. Grown(tables, ordered, ordered, visiting)
    BY DEF Grown
  <2> QED BY <1>1, <2>1, <2>2
<1>2. CASE ~(k \in visiting \/ k \in ToSet(ordered))
  <2>1. OneVisit(tables, deeper, visiting, ordered, k) = Append(b, k)
    BY <1>0, <1>2 DEF OneVisit
  <2>2. ks \in Seq(DOMAIN tables)
    <3> DEFINE D == Dependencies(tables, k)
    <3>1. D \subseteq DOMAIN tables /\ IsFiniteSet(D)
      BY FS_Subset DEF Closed
    <3> HIDE DEF D
    <3>2. IsSeq(SetToSeq(D)) /\ ToSet(SetToSeq(D)) = D
      BY <3>1, SetToSeqLists DEF Lists
    <3>3. SetToSeq(D) \in Seq(D)
      BY <3>2 DEF IsSeq
    <3>4. SetToSeq(D) \in Seq(DOMAIN tables)
      BY <3>1, <3>3
    <3> QED BY <3>4 DEF D
  <2> HIDE DEF ks
  <2>3. v \in SUBSET DOMAIN tables
    OBVIOUS
  <2> HIDE DEF v
  <2>4. x \in Calls(tables)
    BY <2>2, <2>3 DEF Call, Calls
  <2>5. x.visiting = v /\ x.ordered = ordered
    BY CallFields
  <2>6. GrownBy(tables, deeper, x)
    BY <2>4 DEF Growing
  <2> HIDE DEF x
  <2>7. Grown(tables, ordered, b, v)
    BY <2>5, <2>6 DEF GrownBy
  <2> HIDE DEF b
  <2>8. k \notin ToSet(b)
    BY <1>2, <2>7 DEF Grown, v
  <2>9. /\ Append(b, k) \in Seq(DOMAIN tables) /\ IsInjective(Append(b, k))
        /\ ToSet(Append(b, k)) = ToSet(b) \cup {k}
    <3> DEFINE S == DOMAIN tables
    <3>1. b \in Seq(S) /\ IsInjective(b) /\ k \in S
      BY <2>7 DEF Grown
    <3> HIDE DEF S
    <3> QED BY <2>8, <3>1, AppendItem DEF S
  <2>10. Grown(tables, ordered, Append(b, k), visiting)
    BY <1>2, <2>7, <2>9 DEF Grown, v
  <2> QED BY <2>1, <2>9, <2>10
<1> QED BY <1>1, <1>2

LEMMA VisitedGrows ==
  ASSUME NEW tables, Closed(tables), NEW deeper, Growing(tables, deeper),
         NEW x \in Calls(tables), IsInjective(x.ordered)
  PROVE  LET after == Visited(tables, deeper, x)[Len(x.keys)] IN
         /\ Grown(tables, x.ordered, after, x.visiting)
         /\ ToSet(x.keys) \subseteq x.visiting \cup ToSet(after)
<1> DEFINE V == Visited(tables, deeper, x)
           n == Len(x.keys)
           D == DOMAIN tables
           J == {i \in 0..n : /\ Grown(tables, x.ordered, V[i], x.visiting)
                              /\ First(x.keys, i) \subseteq x.visiting \cup ToSet(V[i])}
<1>1. x.visiting \subseteq D /\ x.ordered \in Seq(D) /\ x.keys \in Seq(D)
  BY DEF Calls
<1>2. n \in Nat /\ \A i \in 1..n : x.keys[i] \in D
  BY <1>1
<1>3. V[0] = x.ordered /\ \A i \in 1..n : V[i] = OneVisit(tables, deeper, x.visiting, V[i - 1], x.keys[i])
  BY <1>2, VisitedDefined
<1>k. IsSeq(x.keys)
  <2> HIDE DEF D
  <2> QED BY <1>1, SeqOfIsSeq
<1> HIDE DEF V
<1>4. 0 \in J
  <2>1. Grown(tables, x.ordered, V[0], x.visiting)
    BY <1>1, <1>3 DEF Grown
  <2>2. First(x.keys, 0) = {}
    BY DEF First
  <2> QED BY <1>2, <2>1, <2>2
<1>5. ASSUME NEW i \in 0..n, i \in J, i < n
      PROVE  i + 1 \in J
  <2> DEFINE k == x.keys[i + 1]
             now == V[i]
             next == V[i + 1]
             F == First(x.keys, i)
  <2>1. i + 1 \in 1..n /\ (i + 1) - 1 = i
    BY <1>2, <1>5
  <2>2. k \in D /\ next = OneVisit(tables, deeper, x.visiting, now, k)
    BY <1>2, <1>3, <2>1
  <2>3. Grown(tables, x.ordered, now, x.visiting) /\ F \subseteq x.visiting \cup ToSet(now)
    BY <1>5
  <2>4. First(x.keys, i + 1) = F \cup {k}
    BY <1>k, <2>1, FirstItems
  <2> HIDE DEF k, now, next, F
  <2>5. now \in Seq(D) /\ IsInjective(now)
    BY <2>3 DEF Grown
  <2>6. Grown(tables, now, next, x.visiting) /\ (k \in x.visiting \/ k \in ToSet(next))
    BY <1>1, <2>2, <2>5, OneVisitGrows
  <2>7. Grown(tables, x.ordered, next, x.visiting)
    BY <2>3, <2>6 DEF Grown
  <2>8. ToSet(now) \subseteq ToSet(next)
    BY <2>6 DEF Grown
  <2>9. First(x.keys, i + 1) \subseteq x.visiting \cup ToSet(next)
    BY <2>3, <2>4, <2>6, <2>8
  <2> QED BY <2>1, <2>7, <2>9 DEF next
<1>6. \A i \in 0..n : i \in J
  <2> HIDE DEF J, n
  <2> QED BY <1>2, <1>4, <1>5, Upwards
<1>7. n \in J
  BY <1>2, <1>6
<1>8. First(x.keys, n) = ToSet(x.keys)
  BY <1>k, FirstItems
<1> QED BY <1>7, <1>8 DEF V

LEMMA LevelGrows ==
  ASSUME NEW tables, Closed(tables), NEW deeper, Growing(tables, deeper)
  PROVE  Growing(tables, Level(tables, deeper))
<1> SUFFICES ASSUME NEW x \in Calls(tables), IsInjective(x.ordered)
             PROVE  Grown(tables, x.ordered, Level(tables, deeper)[x], x.visiting)
  BY DEF Growing, GrownBy
<1>1. Level(tables, deeper)[x] = Visited(tables, deeper, x)[Len(x.keys)]
  BY DEF Level
<1> QED BY <1>1, VisitedGrows

LEMMA NoVisitGrows ==
  ASSUME NEW tables
  PROVE  Growing(tables, NoVisit(tables))
<1> SUFFICES ASSUME NEW x \in Calls(tables), IsInjective(x.ordered)
             PROVE  Grown(tables, x.ordered, NoVisit(tables)[x], x.visiting)
  BY DEF Growing, GrownBy
<1>1. NoVisit(tables)[x] = x.ordered /\ x.ordered \in Seq(DOMAIN tables)
  BY DEF NoVisit, Calls
<1> QED BY <1>1 DEF Grown

(* Every table of a schema has a place in the order, and one only. *)
LEMMA OrderTablesLists ==
  ASSUME NEW tables, Closed(tables), IsSeq(TableOrder),
         DOMAIN tables \subseteq ToSet(TableOrder)
  PROVE  Lists(OrderTables(tables), DOMAIN tables)
<1> DEFINE n == Cardinality(DOMAIN tables)
           V == Visits(tables)
           D == DOMAIN tables
           ks == Picked(TableOrder, D)
           x == Call({}, <<>>, ks)
           J == {i \in 0..n : Growing(tables, IF i = 0 THEN NoVisit(tables) ELSE V[i - 1])}
           o == OrderTables(tables)
<1>1. /\ n \in Nat /\ V[0] = Level(tables, NoVisit(tables))
      /\ \A i \in 1..n : V[i] = Level(tables, V[i - 1])
  BY VisitsDefined DEF Closed
<1>o. o = V[n][x]
  BY DEF OrderTables, Call
<1> HIDE DEF V, n, o
<1>2. 0 \in J
  BY <1>1, NoVisitGrows
<1>3. ASSUME NEW i \in 0..n, i \in J, i < n
      PROVE  i + 1 \in J
  <2>1. i + 1 \in 1..n /\ (i + 1) - 1 = i /\ i + 1 \in 0..n
    BY <1>1, <1>3
  <2>2. Growing(tables, V[i])
    <3>1. CASE i = 0
      BY <1>1, <3>1, NoVisitGrows, LevelGrows
    <3>2. CASE i # 0
      <4> DEFINE d == V[i - 1]
      <4>1. i \in 1..n
        BY <1>1, <3>2
      <4>2. V[i] = Level(tables, d) /\ Growing(tables, d)
        BY <1>1, <1>3, <3>2, <4>1
      <4> HIDE DEF d
      <4> QED BY <4>2, LevelGrows
    <3> QED BY <3>1, <3>2
  <2> QED BY <2>1, <2>2
<1>4. \A i \in 0..n : i \in J
  <2> HIDE DEF J
  <2> QED BY <1>1, <1>2, <1>3, Upwards
<1>5. PICK d : Growing(tables, d) /\ V[n] = Level(tables, d)
  <2>1. n \in J
    BY <1>1, <1>4
  <2>2. CASE n = 0
    BY <1>1, <2>2, NoVisitGrows
  <2>3. CASE n # 0
    <3>1. n \in 1..n
      BY <1>1, <2>3
    <3> QED BY <1>1, <2>1, <2>3, <3>1
  <2> QED BY <2>2, <2>3
<1>6. ks \in Seq(D) /\ ToSet(ks) = D
  <2> HIDE DEF D, ks
  <2>0. D \subseteq ToSet(TableOrder)
    BY DEF D
  <2>1. IsSeq(ks) /\ ToSet(ks) = ToSet(TableOrder) \cap D
    BY PickedIs DEF ks
  <2>2. ToSet(ks) = D
    BY <2>0, <2>1
  <2> QED BY <2>1, <2>2 DEF IsSeq
<1> HIDE DEF ks
<1>7. x \in Calls(tables)
  BY <1>6 DEF Call, Calls
<1>8. x.visiting = {} /\ x.ordered = <<>> /\ x.keys = ks
  BY CallFields
<1> HIDE DEF x
<1>9. IsInjective(<<>>)
  BY DEF IsInjective
<1>10. o = Visited(tables, d, x)[Len(x.keys)]
  BY <1>o, <1>5, <1>7 DEF Level
<1>11. /\ Grown(tables, x.ordered, o, x.visiting)
       /\ ToSet(x.keys) \subseteq x.visiting \cup ToSet(o)
  BY <1>5, <1>7, <1>8, <1>9, <1>10, VisitedGrows
<1>12. o \in Seq(D) /\ IsInjective(o) /\ D \subseteq ToSet(o)
  BY <1>6, <1>8, <1>11 DEF Grown
<1>13. IsSeq(o) /\ ToSet(o) \subseteq D
  <2> HIDE DEF D
  <2> QED BY <1>12, SeqOfIsSeq
<1>14. \A i, j \in 1..Len(o) : o[i] = o[j] => i = j
  BY <1>13, <1>12, SeqIsFunction DEF IsInjective
<1> QED BY <1>12, <1>13, <1>14 DEF Lists, o

LEMMA Largest ==
  ASSUME NEW n \in Nat, NEW S, S \subseteq 1..n, S # {}
  PROVE  Max(S) \in S /\ \A y \in S : y <= Max(S)
<1> DEFINE D == {n - x : x \in S}
<1>0. \A x \in S : x \in Nat /\ n - x \in Nat
  OBVIOUS
<1>1. D \subseteq Nat /\ D # {}
  <2>1. \A d \in D : d \in Nat
    BY <1>0
  <2>2. \E x : x \in S
    OBVIOUS
  <2>3. D # {}
    BY <2>2
  <2> QED BY <2>1, <2>3
<1>2. PICK d \in D : \A y \in D : d <= y
  BY <1>1, Smallest
<1>3. PICK x \in S : d = n - x
  BY <1>2
<1>4. ASSUME NEW y \in S
      PROVE  x >= y
  <2>1. n - y \in D
    OBVIOUS
  <2>2. n - x <= n - y
    BY <1>2, <1>3, <2>1
  <2> QED BY <1>0, <2>2
<1> QED BY <1>3, <1>4 DEF Max

LEMMA SmallestIs ==
  ASSUME NEW S, S \subseteq Nat, S # {}
  PROVE  Min(S) \in S /\ \A y \in S : Min(S) <= y
BY Smallest DEF Min

(* The place of an item. *)
At(s, x) == CHOOSE i \in DOMAIN s : s[i] = x

LEMMA AtIs ==
  ASSUME NEW s, IsSeq(s), NEW x \in ToSet(s)
  PROVE  At(s, x) \in 1..Len(s) /\ s[At(s, x)] = x
<1>1. DOMAIN s = 1..Len(s)
  BY SeqIsFunction
<1>2. \E i \in DOMAIN s : s[i] = x
  BY DEF ToSet
<1> QED BY <1>1, <1>2 DEF At

LEMMA AtItem ==
  ASSUME NEW s, IsSeq(s), IsInjective(s), NEW i \in 1..Len(s)
  PROVE  s[i] \in ToSet(s) /\ At(s, s[i]) = i
<1>1. DOMAIN s = 1..Len(s)
  BY SeqIsFunction
<1>2. s[i] \in ToSet(s)
  BY <1>1 DEF ToSet
<1>3. At(s, s[i]) \in 1..Len(s) /\ s[At(s, s[i])] = s[i]
  BY <1>2, AtIs
<1> QED BY <1>1, <1>2, <1>3 DEF IsInjective

-----------------------------------------------------------------------------
(* One more item in a sequence.                                             *)

Inserted(t, s, p, v) ==
  /\ p \in 1..Len(s) + 1
  /\ IsSeq(t) /\ Len(t) = Len(s) + 1
  /\ t[p] = v
  /\ \A i \in 1..Len(s) : i < p => t[i] = s[i]
  /\ \A i \in 1..Len(s) : i >= p => t[i + 1] = s[i]

LEMMA InsertAtInserts ==
  ASSUME NEW s, IsSeq(s), NEW p \in 1..Len(s) + 1, NEW v
  PROVE  Inserted(InsertAt(s, p, v), s, p, v)
<1> DEFINE S == ToSet(s) \cup {v}
           a == SubSeq(s, 1, p - 1)
           b == <<v>>
           c == SubSeq(s, p, Len(s))
           t == a \o b \o c
<1>1. s \in Seq(S) /\ Len(s) \in Nat
  <2> HIDE DEF S
  <2>1. s \in Seq(ToSet(s)) /\ ToSet(s) \subseteq S
    BY DEF IsSeq, S
  <2> QED BY <2>1
<1> HIDE DEF S
<1>2. a \in Seq(S) /\ Len(a) = p - 1 /\ \A i \in 1..p - 1 : a[i] = s[i]
  BY <1>1
<1>3. /\ c \in Seq(S) /\ Len(c) = (Len(s) - p) + 1
      /\ \A i \in 1..(Len(s) - p) + 1 : c[i] = s[(p + i) - 1]
  BY <1>1
<1>4. b \in Seq(S) /\ Len(b) = 1 /\ b[1] = v
  BY DEF S
<1> HIDE DEF a, b, c
<1>d. IsSeq(a) /\ IsSeq(b) /\ IsSeq(c)
  BY <1>2, <1>3, <1>4, SeqOfIsSeq
<1> DEFINE ab == a \o b
<1>5. /\ IsSeq(ab) /\ Len(ab) = p /\ ab[p] = v
      /\ \A i \in 1..p - 1 : ab[i] = s[i]
  <2>1. /\ IsSeq(ab) /\ Len(ab) = Len(a) + Len(b)
        /\ \A i \in 1..Len(a) : ab[i] = a[i]
        /\ \A i \in 1..Len(b) : ab[Len(a) + i] = b[i]
    BY <1>d, Concat
  <2>2. Len(a) + 1 = p /\ 1 \in 1..Len(b)
    BY <1>1, <1>2, <1>4
  <2> HIDE DEF ab
  <2>3. ab[p] = v
    BY <1>4, <2>1, <2>2
  <2> QED BY <1>1, <1>2, <1>4, <2>1, <2>2, <2>3
<1> HIDE DEF ab
<1>6. /\ IsSeq(t) /\ Len(t) = Len(ab) + Len(c)
      /\ \A i \in 1..Len(ab) : t[i] = ab[i]
      /\ \A i \in 1..Len(c) : t[Len(ab) + i] = c[i]
  <2>1. /\ IsSeq(ab \o c) /\ Len(ab \o c) = Len(ab) + Len(c)
        /\ \A i \in 1..Len(ab) : (ab \o c)[i] = ab[i]
        /\ \A i \in 1..Len(c) : (ab \o c)[Len(ab) + i] = c[i]
    BY <1>d, <1>5, Concat
  <2> QED BY <2>1 DEF ab
<1> HIDE DEF t
<1>7. \A i \in 1..p : t[i] = ab[i]
  BY <1>5, <1>6
<1>8. \A i \in 1..(Len(s) - p) + 1 : t[p + i] = c[i]
  BY <1>3, <1>5, <1>6
<1>9. IsSeq(t) /\ Len(t) = Len(s) + 1
  BY <1>1, <1>3, <1>5, <1>6
<1>10. InsertAt(s, p, v) = t
  BY DEF InsertAt, a, b, c, ab, t
<1>11. t[p] = v
  BY <1>5, <1>7
<1>12. \A i \in 1..Len(s) : i < p => t[i] = s[i]
  BY <1>1, <1>5, <1>7
<1>13. ASSUME NEW i \in 1..Len(s), i >= p
       PROVE  t[i + 1] = s[i]
  <2> DEFINE j == (i - p) + 1
  <2>1. j \in 1..(Len(s) - p) + 1 /\ p + j = i + 1 /\ (p + j) - 1 = i
    BY <1>1, <1>13
  <2> HIDE DEF j
  <2>2. t[p + j] = c[j] /\ c[j] = s[(p + j) - 1]
    BY <1>3, <1>8, <2>1
  <2> QED BY <2>1, <2>2
<1> QED BY <1>9, <1>10, <1>11, <1>12, <1>13 DEF Inserted

LEMMA AppendInserts ==
  ASSUME NEW s, IsSeq(s), NEW v
  PROVE  Len(s) + 1 \in 1..Len(s) + 1 /\ Inserted(Append(s, v), s, Len(s) + 1, v)
<1> DEFINE S == ToSet(s) \cup {v}
           t == Append(s, v)
<1>1. s \in Seq(S) /\ v \in S /\ Len(s) \in Nat
  <2>1. s \in Seq(ToSet(s)) /\ ToSet(s) \subseteq S
    BY DEF IsSeq
  <2> HIDE DEF S
  <2>2. s \in Seq(S)
    BY <2>1
  <2> QED BY <2>2 DEF S
<1> HIDE DEF S
<1>2. /\ t \in Seq(S) /\ Len(t) = Len(s) + 1 /\ t[Len(s) + 1] = v
      /\ \A i \in 1..Len(s) : t[i] = s[i]
  BY <1>1
<1> HIDE DEF t
<1>3. IsSeq(t)
  BY <1>2, SeqOfIsSeq
<1>4. \A i \in 1..Len(s) : ~(i >= Len(s) + 1)
  BY <1>1
<1> QED BY <1>1, <1>2, <1>3, <1>4 DEF Inserted, t

(* Each place of the longer sequence is the new one or one of before. *)
LEMMA InsertedPlaces ==
  ASSUME NEW s, IsSeq(s), NEW p, NEW v, NEW t, Inserted(t, s, p, v),
         NEW i \in 1..Len(t)
  PROVE  \/ i = p /\ t[i] = v
         \/ i < p /\ i \in 1..Len(s) /\ t[i] = s[i]
         \/ i > p /\ i - 1 \in 1..Len(s) /\ i - 1 >= p /\ t[i] = s[i - 1]
<1>1. Len(s) \in Nat /\ p \in 1..Len(s) + 1 /\ Len(t) = Len(s) + 1
  BY SeqIsFunction DEF Inserted
<1>2. CASE i = p
  BY <1>2 DEF Inserted
<1>3. CASE i < p
  <2>1. i \in 1..Len(s)
    BY <1>1, <1>3
  <2> QED BY <1>3, <2>1 DEF Inserted
<1>4. CASE i > p
  <2>1. i - 1 \in 1..Len(s) /\ i - 1 >= p /\ (i - 1) + 1 = i
    BY <1>1, <1>4
  <2>2. t[(i - 1) + 1] = s[i - 1]
    BY <2>1 DEF Inserted
  <2> QED BY <1>4, <2>1, <2>2
<1> QED BY <1>1, <1>2, <1>3, <1>4

LEMMA InsertedIs ==
  ASSUME NEW s, IsSeq(s), NEW p, NEW v, NEW t, Inserted(t, s, p, v)
  PROVE  /\ IsSeq(t) /\ ToSet(t) = ToSet(s) \cup {v}
         /\ IsInjective(s) /\ v \notin ToSet(s) => IsInjective(t)
<1>1. DOMAIN s = 1..Len(s) /\ Len(s) \in Nat /\ DOMAIN t = 1..Len(t) /\ Len(t) = Len(s) + 1
      /\ p \in 1..Len(t)
  BY SeqIsFunction DEF Inserted
<1>2. ToSet(t) \subseteq ToSet(s) \cup {v}
  <2>1. \A i \in 1..Len(s) : s[i] \in ToSet(s)
    BY <1>1 DEF ToSet
  <2>2. ASSUME NEW i \in 1..Len(t)
        PROVE  t[i] \in ToSet(s) \cup {v}
    BY <2>1, InsertedPlaces
  <2> QED BY <1>1, <2>2 DEF ToSet
<1>3. ToSet(s) \cup {v} \subseteq ToSet(t)
  <2>1. \A i \in 1..Len(s) : i \in 1..Len(t) /\ i + 1 \in 1..Len(t)
    BY <1>1
  <2>2. ASSUME NEW i \in 1..Len(s)
        PROVE  s[i] \in ToSet(t)
    <3>1. CASE i < p
      BY <1>1, <2>1, <3>1 DEF Inserted, ToSet
    <3>2. CASE i >= p
      BY <1>1, <2>1, <3>2 DEF Inserted, ToSet
    <3> QED BY <1>1, <3>1, <3>2
  <2>3. v \in ToSet(t)
    BY <1>1 DEF Inserted, ToSet
  <2> QED BY <1>1, <2>2, <2>3 DEF ToSet
<1>4. ASSUME IsInjective(s), v \notin ToSet(s),
             NEW i \in 1..Len(t), NEW j \in 1..Len(t), t[i] = t[j]
      PROVE  i = j
  <2>1. \A m \in 1..Len(s) : s[m] # v
    BY <1>1, <1>4 DEF ToSet
  <2>2. \/ i = p /\ t[i] = v
        \/ i < p /\ i \in 1..Len(s) /\ t[i] = s[i]
        \/ i > p /\ i - 1 \in 1..Len(s) /\ i - 1 >= p /\ t[i] = s[i - 1]
    BY InsertedPlaces
  <2>3. \/ j = p /\ t[j] = v
        \/ j < p /\ j \in 1..Len(s) /\ t[j] = s[j]
        \/ j > p /\ j - 1 \in 1..Len(s) /\ j - 1 >= p /\ t[j] = s[j - 1]
    BY InsertedPlaces
  <2>4. \A m, n \in 1..Len(s) : s[m] = s[n] => m = n
    BY <1>1, <1>4 DEF IsInjective
  <2> QED BY <1>1, <1>4, <2>1, <2>2, <2>3, <2>4
<1>5. IsInjective(s) /\ v \notin ToSet(s) => IsInjective(t)
  BY <1>1, <1>4 DEF IsInjective
<1> QED BY <1>2, <1>3, <1>5 DEF Inserted

-----------------------------------------------------------------------------
(* A sequence that has values of another one, in its order.                 *)

InOrder(s, new) ==
  /\ IsSeq(s) /\ ToSet(s) \subseteq ToSet(new)
  /\ \A i, j \in 1..Len(s) : i < j => At(new, s[i]) < At(new, s[j])

LEMMA InsertedInOrder ==
  ASSUME NEW new, IsSeq(new), NEW s, InOrder(s, new), NEW v \in ToSet(new),
         NEW p, NEW t, Inserted(t, s, p, v),
         \A i \in 1..Len(s) : i < p => At(new, s[i]) < At(new, v),
         \A i \in 1..Len(s) : i >= p => At(new, v) < At(new, s[i])
  PROVE  InOrder(t, new)
<1>1. IsSeq(t) /\ ToSet(t) = ToSet(s) \cup {v}
  BY InsertedIs DEF InOrder
<1>2. ASSUME NEW i \in 1..Len(t), NEW j \in 1..Len(t), i < j
      PROVE  At(new, t[i]) < At(new, t[j])
  <2>1. \/ i = p /\ t[i] = v
        \/ i < p /\ i \in 1..Len(s) /\ t[i] = s[i]
        \/ i > p /\ i - 1 \in 1..Len(s) /\ i - 1 >= p /\ t[i] = s[i - 1]
    BY InsertedPlaces DEF InOrder
  <2>2. \/ j = p /\ t[j] = v
        \/ j < p /\ j \in 1..Len(s) /\ t[j] = s[j]
        \/ j > p /\ j - 1 \in 1..Len(s) /\ j - 1 >= p /\ t[j] = s[j - 1]
    BY InsertedPlaces DEF InOrder
  <2>3. \A x \in ToSet(new) : At(new, x) \in Nat
    BY AtIs, SeqIsFunction
  <2>4. \A m \in 1..Len(s) : At(new, s[m]) \in Nat
    <3>1. \A m \in 1..Len(s) : s[m] \in ToSet(s)
      BY SeqIsFunction DEF ToSet, InOrder
    <3> QED BY <2>3, <3>1 DEF InOrder
  <2>5. At(new, v) \in Nat
    BY <2>3
  <2>6. p \in Nat /\ Len(s) \in Nat
    BY SeqIsFunction DEF Inserted, InOrder
  <2>7. \A m, n \in 1..Len(s) : m < n => At(new, s[m]) < At(new, s[n])
    BY DEF InOrder
  <2>8. CASE i = p /\ t[i] = v
    BY <1>2, <2>2, <2>6, <2>8
  <2>9. CASE i < p /\ i \in 1..Len(s) /\ t[i] = s[i]
    <3>1. CASE j = p /\ t[j] = v
      BY <2>9, <3>1
    <3>2. CASE j < p /\ j \in 1..Len(s) /\ t[j] = s[j]
      BY <1>2, <2>7, <2>9, <3>2
    <3>3. CASE j > p /\ j - 1 \in 1..Len(s) /\ j - 1 >= p /\ t[j] = s[j - 1]
      <4>1. i < j - 1
        BY <2>6, <2>9, <3>3
      <4> QED BY <2>7, <2>9, <3>3, <4>1
    <3> QED BY <2>2, <3>1, <3>2, <3>3
  <2>10. CASE i > p /\ i - 1 \in 1..Len(s) /\ i - 1 >= p /\ t[i] = s[i - 1]
    <3>1. j > p /\ j - 1 \in 1..Len(s) /\ t[j] = s[j - 1]
      BY <1>2, <2>2, <2>6, <2>10
    <3>2. i - 1 < j - 1
      BY <1>2, <2>6
    <3> QED BY <2>7, <2>10, <3>1, <3>2
  <2> QED BY <2>1, <2>8, <2>9, <2>10
<1> QED BY <1>1, <1>2 DEF InOrder

(* Numbers that rise are at least as large as their places. *)
LEMMA Rising ==
  ASSUME NEW n \in Nat, NEW f, \A i \in 1..n : f[i] \in Nat \ {0},
         \A i, j \in 1..n : i < j => f[i] < f[j]
  PROVE  \A i \in 1..n : f[i] >= i
<1> DEFINE J == {i \in 0..n : i = 0 \/ f[i] >= i}
<1>1. 0 \in J
  OBVIOUS
<1>2. ASSUME NEW i \in 0..n, i \in J, i < n
      PROVE  i + 1 \in J
  <2>1. i + 1 \in 1..n /\ i + 1 \in 0..n
    BY <1>2
  <2>2. CASE i = 0
    <3>1. f[1] \in Nat \ {0}
      BY <2>1, <2>2
    <3> QED BY <2>1, <2>2, <3>1
  <2>3. CASE i # 0
    <3>1. i \in 1..n /\ i < i + 1
      BY <2>3
    <3>2. f[i] < f[i + 1] /\ f[i] \in Nat /\ f[i + 1] \in Nat
      BY <2>1, <3>1
    <3>3. f[i] >= i
      BY <1>2, <2>3
    <3> QED BY <2>1, <3>2, <3>3
  <2> QED BY <2>2, <2>3
<1>3. \A i \in 0..n : i \in J
  <2> HIDE DEF J
  <2> QED BY <1>1, <1>2, Upwards
<1> QED BY <1>3

LEMMA InOrderInjective ==
  ASSUME NEW s, NEW new, IsSeq(new), InOrder(s, new)
  PROVE  IsInjective(s)
<1>1. DOMAIN s = 1..Len(s) /\ Len(s) \in Nat
  BY SeqIsFunction DEF InOrder
<1>2. \A i \in 1..Len(s) : At(new, s[i]) \in Nat
  <2>1. \A m \in 1..Len(s) : s[m] \in ToSet(new)
    BY <1>1 DEF ToSet, InOrder
  <2>2. \A x \in ToSet(new) : At(new, x) \in Nat
    BY AtIs, SeqIsFunction
  <2> QED BY <2>1, <2>2
<1>3. ASSUME NEW i \in 1..Len(s), NEW j \in 1..Len(s), s[i] = s[j], i < j
      PROVE  FALSE
  BY <1>2, <1>3 DEF InOrder
<1>4. \A i, j \in 1..Len(s) : s[i] = s[j] => i = j
  BY <1>1, <1>3
<1> QED BY <1>1, <1>4 DEF IsInjective

(* Only one sequence has all of the values in the order. *)
LEMMA InOrderIs ==
  ASSUME NEW s, NEW new, IsSeq(new), IsInjective(new), InOrder(s, new),
         ToSet(s) = ToSet(new)
  PROVE  s = new
<1> DEFINE f == [i \in 1..Len(s) |-> At(new, s[i])]
           g == [j \in 1..Len(new) |-> At(s, new[j])]
<1>1. IsSeq(s) /\ IsInjective(s)
  BY InOrderInjective DEF InOrder
<1>2. Len(s) \in Nat /\ Len(new) \in Nat /\ DOMAIN s = 1..Len(s)
  BY <1>1, SeqIsFunction
<1>3. ASSUME NEW i \in 1..Len(s)
      PROVE  f[i] \in 1..Len(new) /\ new[f[i]] = s[i] /\ g[f[i]] = i
  <2>1. s[i] \in ToSet(s) /\ At(s, s[i]) = i
    BY <1>1, AtItem
  <2>2. At(new, s[i]) \in 1..Len(new) /\ new[At(new, s[i])] = s[i]
    BY <2>1, AtIs
  <2>3. f[i] = At(new, s[i])
    OBVIOUS
  <2>4. g[f[i]] = At(s, new[f[i]])
    BY <2>2, <2>3
  <2> HIDE DEF f, g
  <2> QED BY <2>1, <2>2, <2>3, <2>4
<1>4. ASSUME NEW j \in 1..Len(new)
      PROVE  g[j] \in 1..Len(s) /\ f[g[j]] = j
  <2>1. new[j] \in ToSet(s) /\ At(new, new[j]) = j
    BY AtItem
  <2>2. At(s, new[j]) \in 1..Len(s) /\ s[At(s, new[j])] = new[j]
    BY <1>1, <2>1, AtIs
  <2>3. g[j] = At(s, new[j])
    OBVIOUS
  <2>4. f[g[j]] = At(new, s[g[j]])
    BY <2>2, <2>3
  <2> HIDE DEF f, g
  <2> QED BY <2>1, <2>2, <2>3, <2>4
<1>5. \A i, j \in 1..Len(s) : i < j => f[i] < f[j]
  BY DEF InOrder
<1> HIDE DEF f, g
<1>6. \A i \in 1..Len(s) : f[i] >= i
  <2>1. \A i \in 1..Len(s) : f[i] \in Nat \ {0}
    BY <1>2, <1>3
  <2> QED BY <1>2, <1>5, <2>1, Rising
<1>7. ASSUME NEW i \in 1..Len(new), NEW j \in 1..Len(new), i < j
      PROVE  g[i] < g[j]
  <2>1. g[i] \in 1..Len(s) /\ g[j] \in 1..Len(s) /\ f[g[i]] = i /\ f[g[j]] = j
    BY <1>4
  <2>2. g[i] = g[j] \/ g[j] < g[i] \/ g[i] < g[j]
    BY <1>2, <2>1
  <2>3. g[j] < g[i] => j < i
    BY <1>5, <2>1
  <2> QED BY <1>2, <1>7, <2>1, <2>2, <2>3
<1>8. \A j \in 1..Len(new) : g[j] >= j
  <2>1. \A i \in 1..Len(new) : g[i] \in Nat \ {0}
    BY <1>2, <1>4
  <2> QED BY <1>2, <1>7, <2>1, Rising
<1>9. ASSUME NEW i \in 1..Len(s)
      PROVE  f[i] = i
  <2>1. f[i] \in 1..Len(new) /\ g[f[i]] = i /\ f[i] >= i
    BY <1>3, <1>6
  <2>2. g[f[i]] >= f[i]
    BY <1>8, <2>1
  <2> QED BY <1>2, <2>1, <2>2
<1>10. \A i \in 1..Len(s) : i \in 1..Len(new) /\ s[i] = new[i]
  BY <1>3, <1>9
<1>11. ASSUME NEW j \in 1..Len(new)
       PROVE  j \in 1..Len(s)
  <2>1. g[j] \in 1..Len(s) /\ f[g[j]] = j /\ f[g[j]] = g[j]
    BY <1>4, <1>9
  <2> QED BY <2>1
<1>12. Len(s) = Len(new)
  <2>1. Len(s) > 0 => Len(s) \in 1..Len(s)
    BY <1>2
  <2>2. Len(new) > 0 => Len(new) \in 1..Len(new)
    BY <1>2
  <2> QED BY <1>2, <1>10, <1>11, <2>1, <2>2
<1>13. s = [i \in 1..Len(s) |-> s[i]] /\ new = [i \in 1..Len(new) |-> new[i]]
  BY <1>1, SeqIsFunction
<1>14. [i \in 1..Len(s) |-> s[i]] = [i \in 1..Len(new) |-> new[i]]
  BY <1>10, <1>12
<1> QED BY <1>13, <1>14

(* What is picked from a sequence is in its order. *)
LEMMA PickedInOrder ==
  ASSUME NEW new, IsSeq(new), IsInjective(new), NEW S
  PROVE  InOrder(Picked(new, S), new)
<1> DEFINE ss == [i \in DOMAIN new |-> When(new[i] \in S, new[i])]
           b == Beginnings(ss)
           Low(s, i) == \A m \in 1..Len(s) : At(new, s[m]) <= i
           J == {i \in 0..Len(new) : InOrder(b[i], new) /\ Low(b[i], i)}
<1>1. DOMAIN new = 1..Len(new) /\ Len(new) \in Nat
  BY SeqIsFunction
<1>2. IsSeq(ss) /\ Len(ss) = Len(new)
  BY OnePerItem
<1>3. \A i \in 1..Len(new) : ss[i] = When(new[i] \in S, new[i])
  BY <1>1
<1> HIDE DEF ss
<1>4. ASSUME NEW i \in 1..Len(new)
      PROVE  ss[i] = <<>> \/ ss[i] = <<new[i]>>
  BY <1>3 DEF When
<1>5. IsSeqOfSeqs(ss)
  <2>1. ASSUME NEW i \in 1..Len(new)
        PROVE  IsSeq(ss[i])
    <3>1. CASE ss[i] = <<>>
      BY <3>1, NoItems
    <3>2. CASE ss[i] = <<new[i]>>
      BY <3>2, Singleton
    <3> QED BY <1>4, <3>1, <3>2
  <2> QED BY <1>2, <2>1 DEF IsSeqOfSeqs
<1>6. /\ b[0] = <<>>
      /\ \A i \in 1..Len(new) : b[i] = b[i - 1] \o ss[i]
      /\ b[Len(new)] = FlattenSeq(ss)
  BY <1>2, <1>5, BeginningsGrow
<1> HIDE DEF b
<1>7. 0 \in J
  <2>1. InOrder(<<>>, new) /\ Low(<<>>, 0)
    BY NoItems DEF InOrder
  <2>2. 0 \in 0..Len(new)
    BY <1>1
  <2> QED BY <1>6, <2>1, <2>2
<1>8. ASSUME NEW i \in 0..Len(new), i \in J, i < Len(new)
      PROVE  i + 1 \in J
  <2> DEFINE s == b[i]
             x == new[i + 1]
  <2>1. i + 1 \in 1..Len(new) /\ i + 1 \in 0..Len(new) /\ (i + 1) - 1 = i
    BY <1>1, <1>8
  <2>2. b[i + 1] = s \o ss[i + 1]
    BY <1>6, <2>1
  <2>3. x \in ToSet(new) /\ At(new, x) = i + 1
    BY <2>1, AtItem
  <2>4. InOrder(s, new) /\ Low(s, i)
    BY <1>8
  <2>5. ss[i + 1] = <<>> \/ ss[i + 1] = <<x>>
    BY <1>4, <2>1
  <2> HIDE DEF s, x
  <2>6. IsSeq(s) /\ Len(s) \in Nat
    BY <2>4, SeqIsFunction DEF InOrder
  <2>7. \A m \in 1..Len(s) : At(new, s[m]) \in Nat
    <3>1. \A m \in 1..Len(s) : s[m] \in ToSet(new)
      BY <2>4, <2>6, SeqIsFunction DEF ToSet, InOrder
    <3>2. \A y \in ToSet(new) : At(new, y) \in Nat
      BY AtIs, SeqIsFunction
    <3> QED BY <3>1, <3>2
  <2>8. CASE ss[i + 1] = <<>>
    <3>1. b[i + 1] = s
      BY <2>2, <2>6, <2>8, ConcatNothing
    <3>2. Low(s, i + 1)
      BY <1>1, <2>4, <2>7
    <3> QED BY <2>1, <2>4, <3>1, <3>2
  <2>9. CASE ss[i + 1] = <<x>>
    <3> DEFINE t == s \o <<x>>
    <3>1. /\ IsSeq(t) /\ Len(t) = Len(s) + 1
          /\ \A m \in 1..Len(s) : t[m] = s[m]
          /\ t[Len(s) + 1] = x
      <4>1. IsSeq(<<x>>) /\ Len(<<x>>) = 1 /\ <<x>>[1] = x /\ 1 \in 1..1
        BY Singleton
      <4>2. /\ IsSeq(t) /\ Len(t) = Len(s) + Len(<<x>>)
            /\ \A m \in 1..Len(s) : t[m] = s[m]
            /\ \A m \in 1..Len(<<x>>) : t[Len(s) + m] = <<x>>[m]
        BY <2>6, <4>1, Concat
      <4> HIDE DEF t
      <4> QED BY <4>1, <4>2
    <3>2. b[i + 1] = t
      BY <2>2, <2>9
    <3> HIDE DEF t
    <3>3. Inserted(t, s, Len(s) + 1, x)
      <4>1. Len(s) + 1 \in 1..Len(s) + 1
        BY <2>6
      <4>2. \A m \in 1..Len(s) : ~(m >= Len(s) + 1)
        BY <2>6
      <4> QED BY <3>1, <4>1, <4>2 DEF Inserted
    <3>4. InOrder(t, new)
      <4>1. \A m \in 1..Len(s) : m < Len(s) + 1 => At(new, s[m]) < At(new, x)
        BY <2>3, <2>4, <2>7, <1>1
      <4>2. \A m \in 1..Len(s) : m >= Len(s) + 1 => At(new, x) < At(new, s[m])
        BY <2>6
      <4> QED BY <2>3, <2>4, <3>3, <4>1, <4>2, InsertedInOrder
    <3>5. Low(t, i + 1)
      <4>1. ASSUME NEW m \in 1..Len(t)
            PROVE  At(new, t[m]) <= i + 1
        <5>1. m = Len(s) + 1 \/ m \in 1..Len(s)
          BY <2>6, <3>1
        <5>2. CASE m = Len(s) + 1
          BY <2>3, <3>1, <5>2, <1>1
        <5>3. CASE m \in 1..Len(s)
          BY <2>4, <2>7, <3>1, <5>3, <1>1
        <5> QED BY <5>1, <5>2, <5>3
      <4> QED BY <4>1
    <3> QED BY <2>1, <3>2, <3>4, <3>5
  <2> QED BY <2>5, <2>8, <2>9
<1>9. \A i \in 0..Len(new) : i \in J
  <2> HIDE DEF J
  <2> QED BY <1>1, <1>7, <1>8, Upwards
<1>10. Len(new) \in 0..Len(new)
  BY <1>1
<1>11. InOrder(FlattenSeq(ss), new)
  BY <1>6, <1>9, <1>10
<1> QED BY <1>11 DEF Picked, ss

-----------------------------------------------------------------------------
(* Where addValue puts a value.                                             *)

PlaceOf(p, s, st) ==
  \/ st.after # None /\ st.after \in ToSet(s) /\ p = At(s, st.after) + 1
  \/ /\ st.after = None /\ st.before # None /\ st.before \in ToSet(s)
     /\ p = At(s, st.before)
  \/ /\ st.after = None \/ st.after \notin ToSet(s)
     /\ st.after # None \/ st.before = None \/ st.before \notin ToSet(s)
     /\ p = Len(s) + 1

LEMMA ContainsIs ==
  ASSUME NEW s, IsSeq(s), NEW x
  PROVE  Contains(s, x) <=> x \in ToSet(s)
BY SeqIsFunction DEF Contains, ToSet

LEMMA PlacedIs ==
  ASSUME NEW s, IsSeq(s), NEW st
  PROVE  \E p : PlaceOf(p, s, st) /\ Inserted(Placed(s, st), s, p, st.value)
<1> DEFINE a == st.after
           b == st.before
           v == st.value
<1>0. Len(s) \in Nat /\ DOMAIN s = 1..Len(s)
  BY SeqIsFunction
<1>1. Placed(s, st) =
        IF a # None /\ a \in ToSet(s) THEN InsertAt(s, At(s, a) + 1, v)
        ELSE IF a = None /\ b # None /\ b \in ToSet(s) THEN InsertAt(s, At(s, b), v)
        ELSE Append(s, v)
  BY ContainsIs DEF Placed, At
<1>2. CASE a # None /\ a \in ToSet(s)
  <2>1. At(s, a) + 1 \in 1..Len(s) + 1
    BY <1>0, <1>2, AtIs
  <2>2. Inserted(InsertAt(s, At(s, a) + 1, v), s, At(s, a) + 1, v)
    BY <2>1, InsertAtInserts
  <2>3. Placed(s, st) = InsertAt(s, At(s, a) + 1, v)
    BY <1>1, <1>2
  <2>4. PlaceOf(At(s, a) + 1, s, st)
    BY <1>2 DEF PlaceOf
  <2> QED BY <2>2, <2>3, <2>4
<1>3. CASE a = None /\ b # None /\ b \in ToSet(s)
  <2>1. At(s, b) \in 1..Len(s) + 1
    BY <1>0, <1>3, AtIs
  <2>2. Inserted(InsertAt(s, At(s, b), v), s, At(s, b), v)
    BY <2>1, InsertAtInserts
  <2>3. Placed(s, st) = InsertAt(s, At(s, b), v)
    BY <1>1, <1>3
  <2>4. PlaceOf(At(s, b), s, st)
    BY <1>3 DEF PlaceOf
  <2> QED BY <2>2, <2>3, <2>4
<1>4. CASE ~(a # None /\ a \in ToSet(s)) /\ ~(a = None /\ b # None /\ b \in ToSet(s))
  <2>1. Placed(s, st) = Append(s, v)
    BY <1>1, <1>4
  <2>2. Inserted(Append(s, v), s, Len(s) + 1, v)
    BY AppendInserts
  <2>3. PlaceOf(Len(s) + 1, s, st)
    BY <1>4 DEF PlaceOf
  <2> QED BY <2>1, <2>2, <2>3
<1> QED BY <1>2, <1>3, <1>4

(* The nearest values on the left, or else on the right, that an enum has    *)
(* already are what addValue names.                                         *)
NextTo(st, v, old, new) ==
  /\ st.value = v
  /\ \/ /\ st.after # None /\ st.after \in ToSet(old)
        /\ At(new, st.after) < At(new, v)
        /\ \A x \in ToSet(old) :
             At(new, x) < At(new, v) => At(new, x) <= At(new, st.after)
     \/ /\ st.after = None
        /\ \A x \in ToSet(old) : At(new, v) < At(new, x)
        /\ \/ ToSet(old) = {} /\ st.before = None
           \/ /\ st.before # None /\ st.before \in ToSet(old)
              /\ \A x \in ToSet(old) : At(new, st.before) <= At(new, x)

LEMMA AddValueNames ==
  ASSUME NEW old, IsSeq(old), NEW new, IsSeq(new), IsInjective(new),
         ToSet(old) \subseteq ToSet(new), None \notin ToSet(new),
         NEW e, NEW v, v \in ToSet(new) \ ToSet(old)
  PROVE  NextTo(AddValue(e, v, old, new), v, old, new)
<1> DEFINE at     == At(new, v)
           common == {i \in DOMAIN new : Contains(old, new[i])}
           left   == {i \in common : i < at}
           right  == {i \in common : i > at}
           st     == AddValue(e, v, old, new)
           a      == IF left # {} THEN new[Max(left)] ELSE None
           b      == IF left = {} /\ right # {} THEN new[Min(right)] ELSE None
<1>1. DOMAIN new = 1..Len(new) /\ Len(new) \in Nat
  BY SeqIsFunction
<1>2. st.after = a /\ st.before = b /\ st.value = v
  BY DEF AddValue, At
<1>3. at \in 1..Len(new) /\ new[at] = v
  BY AtIs
<1>4. common = {i \in 1..Len(new) : new[i] \in ToSet(old)}
  BY <1>1, ContainsIs
<1>5. ASSUME NEW x \in ToSet(old)
      PROVE  At(new, x) \in common /\ new[At(new, x)] = x /\ At(new, x) # at
  <2>1. At(new, x) \in 1..Len(new) /\ new[At(new, x)] = x
    BY AtIs
  <2> HIDE DEF at, common
  <2>2. At(new, x) \in common
    BY <1>4, <2>1
  <2> QED BY <1>3, <2>1, <2>2
<1>6. ASSUME NEW i \in common
      PROVE  new[i] \in ToSet(old) /\ new[i] # None /\ At(new, new[i]) = i
  <2>1. i \in 1..Len(new) /\ new[i] \in ToSet(old)
    BY <1>4
  <2> QED BY <2>1, AtItem
<1>7. common \subseteq 1..Len(new)
  BY <1>4
<1>l. \A i : i \in left <=> i \in common /\ i < at
  OBVIOUS
<1>r. \A i : i \in right <=> i \in common /\ i > at
  OBVIOUS
<1> HIDE DEF st, at, common, left, right
<1>8. CASE left # {}
  <2>1. left \subseteq 1..Len(new)
    BY <1>7, <1>l
  <2>2. Max(left) \in left /\ \A y \in left : y <= Max(left)
    BY <1>1, <1>8, <2>1, Largest
  <2> DEFINE m == Max(left)
  <2>3. m \in common /\ m < at /\ a = new[m]
    BY <1>8, <1>l, <2>2
  <2> HIDE DEF m, a, b
  <2>4. a \in ToSet(old) /\ a # None /\ At(new, a) = m
    BY <1>6, <2>3
  <2>5. ASSUME NEW x \in ToSet(old), At(new, x) < at
        PROVE  At(new, x) <= m
    BY <1>5, <1>l, <2>2, <2>5 DEF m
  <2> QED BY <1>2, <2>3, <2>4, <2>5 DEF NextTo, at, st
<1>9. CASE left = {}
  <2>1. a = None
    BY <1>9
  <2>2. ASSUME NEW x \in ToSet(old)
        PROVE  at < At(new, x) /\ At(new, x) \in right
    <3>1. At(new, x) \in common /\ At(new, x) # at /\ ~(At(new, x) < at)
      BY <1>5, <1>9, <1>l
    <3>m. At(new, x) \in 1..Len(new)
      BY <1>7, <3>1
    <3>2. At(new, x) \in Nat /\ at \in Nat
      BY <1>1, <1>3, <3>m
    <3>3. at < At(new, x)
      BY <3>1, <3>2
    <3> QED BY <1>r, <3>1, <3>2, <3>3
  <2>3. CASE right = {}
    <3>1. ToSet(old) = {}
      BY <2>2, <2>3
    <3>2. b = None
      BY <2>3
    <3> HIDE DEF a, b
    <3> QED BY <1>2, <2>1, <2>2, <3>1, <3>2 DEF NextTo, at, st
  <2>4. CASE right # {}
    <3>0. ASSUME NEW i \in right
          PROVE  i \in Nat
      <4>1. i \in 1..Len(new)
        BY <1>7, <1>r
      <4> QED BY <1>1, <4>1
    <3>1. right \subseteq Nat
      BY <3>0
    <3>2. Min(right) \in right /\ \A y \in right : Min(right) <= y
      BY <2>4, <3>1, SmallestIs
    <3> DEFINE m == Min(right)
    <3>3. m \in common /\ b = new[m]
      BY <1>9, <1>r, <2>4, <3>2
    <3> HIDE DEF m, a, b
    <3>4. b \in ToSet(old) /\ b # None /\ At(new, b) = m
      BY <1>6, <3>3
    <3>5. \A x \in ToSet(old) : m <= At(new, x)
      BY <2>2, <3>2 DEF m
    <3> QED BY <1>2, <2>1, <2>2, <3>4, <3>5 DEF NextTo, at, st
  <2> QED BY <2>3, <2>4
<1> QED BY <1>8, <1>9

(* The values so far come out in the order of the new ones, as long as no    *)
(* two of them are added after the same one.                                *)
LEMMA PlacedInOrder ==
  ASSUME NEW old, NEW new, IsSeq(new), IsInjective(new), NEW s, InOrder(s, new),
         ToSet(old) \subseteq ToSet(s), NEW v \in ToSet(new) \ ToSet(s),
         NEW st, NextTo(st, v, old, new),
         \A x \in ToSet(s) \ ToSet(old) :
           /\ At(new, x) < At(new, v)
           /\ \E u : /\ NextTo(u, x, old, new)
                     /\ ~(u.after # None /\ u.after = st.after)
  PROVE  InOrder(Placed(s, st), new)
<1> DEFINE a == st.after
           b == st.before
           r == At(new, v)
<1>0. IsSeq(s) /\ IsInjective(s) /\ Len(s) \in Nat
  BY InOrderInjective, SeqIsFunction DEF InOrder
<1>1. PICK p : PlaceOf(p, s, st) /\ Inserted(Placed(s, st), s, p, st.value)
  BY <1>0, PlacedIs
<1>2. st.value = v
  BY DEF NextTo
<1>3. \A x \in ToSet(new) : At(new, x) \in Nat /\ new[At(new, x)] = x
  BY AtIs, SeqIsFunction
<1>4. ASSUME NEW i \in 1..Len(s)
      PROVE  /\ s[i] \in ToSet(s) /\ s[i] \in ToSet(new) /\ At(s, s[i]) = i
             /\ At(new, s[i]) \in Nat /\ At(new, s[i]) # r
  <2>1. s[i] \in ToSet(s) /\ At(s, s[i]) = i
    BY <1>0, AtItem
  <2>2. s[i] \in ToSet(new)
    BY <2>1 DEF InOrder
  <2>3. At(new, s[i]) # r
    BY <1>3, <2>1, <2>2
  <2> QED BY <1>3, <2>1, <2>2, <2>3
<1>5. r \in Nat
  BY <1>3
<1>6. \A i, j \in 1..Len(s) : i < j => At(new, s[i]) < At(new, s[j])
  BY DEF InOrder
<1>7. /\ \A i \in 1..Len(s) : i < p => At(new, s[i]) < r
      /\ \A i \in 1..Len(s) : i >= p => r < At(new, s[i])
  <2>1. CASE /\ a # None /\ a \in ToSet(old) /\ At(new, a) < r
             /\ \A x \in ToSet(old) : At(new, x) < r => At(new, x) <= At(new, a)
    <3>1. a \in ToSet(s) /\ p = At(s, a) + 1
      BY <1>1, <2>1 DEF PlaceOf
    <3> DEFINE m == At(s, a)
    <3>2. m \in 1..Len(s) /\ s[m] = a
      BY <1>0, <3>1, AtIs
    <3> HIDE DEF a, m
    <3>3. ASSUME NEW i \in 1..Len(s), i < p
          PROVE  At(new, s[i]) < r
      <4>1. i = m \/ i < m
        BY <1>0, <3>1, <3>2, <3>3 DEF m
      <4>2. At(new, s[i]) <= At(new, a)
        BY <1>4, <1>6, <3>2, <4>1
      <4>3. At(new, s[i]) \in Nat /\ At(new, a) \in Nat
        BY <1>4, <3>2
      <4> HIDE DEF r
      <4> QED BY <1>5, <2>1, <4>2, <4>3
    <3>4. ASSUME NEW i \in 1..Len(s), i >= p, At(new, s[i]) < r
          PROVE  FALSE
      <4> DEFINE x == s[i]
      <4>1. m < i
        BY <1>0, <3>1, <3>2, <3>4 DEF m
      <4>2. At(new, a) < At(new, x) /\ At(new, x) < r /\ x \in ToSet(s)
        BY <1>4, <1>6, <3>2, <3>4, <4>1
      <4>3. At(new, x) \in Nat /\ At(new, a) \in Nat
        BY <1>4, <3>2
      <4> HIDE DEF x, r
      <4>4. x \notin ToSet(old)
        BY <1>5, <2>1, <4>2, <4>3
      <4>5. PICK u : /\ NextTo(u, x, old, new)
                     /\ ~(u.after # None /\ u.after = a)
        BY <4>2, <4>4 DEF a
      <4>6. CASE u.after = None /\ \A y \in ToSet(old) : At(new, x) < At(new, y)
        <5>1. At(new, x) < At(new, a)
          BY <2>1, <4>6
        <5> QED BY <4>2, <4>3, <5>1
      <4>7. CASE /\ u.after # None /\ u.after \in ToSet(old)
                 /\ At(new, u.after) < At(new, x)
                 /\ \A y \in ToSet(old) :
                      At(new, y) < At(new, x) => At(new, y) <= At(new, u.after)
        <5> DEFINE c == u.after
        <5>1. c \in ToSet(new) /\ a \in ToSet(new)
          BY <2>1, <4>7 DEF InOrder
        <5>2. At(new, c) \in Nat /\ new[At(new, c)] = c /\ new[At(new, a)] = a
          BY <1>3, <5>1
        <5>3. At(new, a) <= At(new, c)
          BY <2>1, <4>2, <4>7
        <5>4. At(new, c) < At(new, x) /\ At(new, c) < r
          <6>1. At(new, c) < At(new, x)
            BY <4>7
          <6> HIDE DEF c
          <6> QED BY <1>5, <4>2, <4>3, <5>2, <6>1
        <5>5. At(new, c) <= At(new, a)
          BY <2>1, <4>7, <5>4
        <5>6. c = a
          <6> HIDE DEF c
          <6>1. At(new, c) = At(new, a)
            BY <4>3, <5>2, <5>3, <5>5
          <6> QED BY <5>2, <6>1
        <5> QED BY <4>5, <4>7, <5>6
      <4> QED BY <4>5, <4>6, <4>7 DEF NextTo
    <3>5. ASSUME NEW i \in 1..Len(s), i >= p
          PROVE  r < At(new, s[i])
      <4>1. At(new, s[i]) # r /\ ~(At(new, s[i]) < r) /\ At(new, s[i]) \in Nat
        BY <1>4, <3>4, <3>5
      <4> HIDE DEF r
      <4> QED BY <1>5, <4>1
    <3> QED BY <3>3, <3>5
  <2>2. CASE a = None /\ \A x \in ToSet(old) : r < At(new, x)
    <3>1. ASSUME NEW i \in 1..Len(s), s[i] \notin ToSet(old)
          PROVE  At(new, s[i]) < r
      BY <1>4, <3>1
    <3>2. CASE ToSet(old) = {} /\ b = None
      <4>1. ASSUME NEW i \in 1..Len(s)
            PROVE  At(new, s[i]) < r
        BY <3>1, <3>2
      <4>2. CASE p = Len(s) + 1
        BY <1>0, <4>1, <4>2
      <4> QED BY <1>1, <2>2, <3>2, <4>2 DEF PlaceOf
    <3>3. CASE /\ b # None /\ b \in ToSet(old)
               /\ \A x \in ToSet(old) : At(new, b) <= At(new, x)
      <4>1. b \in ToSet(s) /\ p = At(s, b)
        BY <1>1, <2>2, <3>3 DEF PlaceOf
      <4>2. p \in 1..Len(s) /\ s[p] = b
        BY <1>0, <4>1, AtIs
      <4>3. r < At(new, b)
        BY <2>2, <3>3
      <4> HIDE DEF a, b
      <4>4. ASSUME NEW i \in 1..Len(s), i < p
            PROVE  At(new, s[i]) < r
        <5>1. At(new, s[i]) < At(new, b) /\ At(new, s[i]) \in Nat /\ At(new, b) \in Nat
          BY <1>4, <1>6, <4>2, <4>4
        <5>2. s[i] \notin ToSet(old)
          BY <3>3, <5>1
        <5> QED BY <3>1, <5>2
      <4>5. ASSUME NEW i \in 1..Len(s), i >= p
            PROVE  r < At(new, s[i])
        <5>1. i = p \/ p < i
          BY <1>0, <4>2, <4>5
        <5>2. At(new, b) <= At(new, s[i]) /\ At(new, s[i]) \in Nat /\ At(new, b) \in Nat
          BY <1>4, <1>6, <4>2, <5>1
        <5> HIDE DEF r
        <5> QED BY <1>5, <4>3, <5>2
      <4> QED BY <4>4, <4>5
    <3> QED BY <2>2, <3>2, <3>3 DEF NextTo
  <2> QED BY <2>1, <2>2 DEF NextTo
<1> QED BY <1>1, <1>2, <1>7, InsertedInOrder

-----------------------------------------------------------------------------
(* The statements that add values to an enum.                               *)

IsEnum(values) == IsSeq(values) /\ IsInjective(values) /\ None \notin ToSet(values)

(* Two values are added after the same one. *)
Clash(e, old, new) ==
  LET add == Added(old, new)
      after(v) == AddValue(e, v, old, new).after
  IN \E i, j \in DOMAIN add :
       i # j /\ after(add[i]) # None /\ after(add[i]) = after(add[j])

Filled(values, e, old, new) ==
  /\ IsEnum(values) /\ ToSet(values) = ToSet(new)
  /\ Clash(e, old, new) \/ values = new

(* The enum after n of the values were added. *)
Filling(s, T, E, Q, e, old, new, n) ==
  \E values :
    /\ s = Snap(T, With(E, e, values), Q)
    /\ IsEnum(values)
    /\ ToSet(values) = ToSet(old) \cup First(Added(old, new), n)
    /\ Clash(e, old, new) \/ InOrder(values, new)

AddsValue(st, e) == st.op = "addValue" /\ st.key = e

LEMMA ApplyAddValue ==
  ASSUME NEW T, NEW E, NEW Q, NEW e, NEW values, NEW st, AddsValue(st, e)
  PROVE  Apply(Snap(T, With(E, e, values), Q), st)
           = Snap(T, With(E, e, Placed(values, st)), Q)
<1> DEFINE F == With(E, e, values)
           s == Snap(T, F, Q)
<1>1. Apply(s, st) =
        [s EXCEPT !.enums = [u \in DOMAIN @ |->
           IF u = st.key THEN Placed(@[u], st) ELSE @[u]]]
  BY DEF Apply, AddsValue
<1>2. Apply(s, st) = Snap(T, [u \in DOMAIN F |-> IF u = e THEN Placed(F[u], st)
                                                 ELSE F[u]], Q)
  BY <1>1 DEF Snap, AddsValue
<1>3. DOMAIN F = DOMAIN E \cup {e} /\ \A u \in DOMAIN F : F[u] = IF u = e THEN values ELSE E[u]
  BY DEF With
<1> HIDE DEF F
<1>4. [u \in DOMAIN F |-> IF u = e THEN Placed(F[u], st) ELSE F[u]]
        = [u \in DOMAIN E \cup {e} |-> IF u = e THEN Placed(values, st) ELSE E[u]]
  BY <1>3
<1> QED BY <1>2, <1>4 DEF With, F

LEMMA AddedAre ==
  ASSUME NEW old, IsEnum(old), NEW new, IsEnum(new)
  PROVE  /\ InOrder(Added(old, new), new)
         /\ Lists(Added(old, new), ToSet(new) \ ToSet(old))
         /\ DOMAIN Added(old, new) = 1..Len(Added(old, new))
<1> DEFINE add == Added(old, new)
<1>1. InOrder(add, new)
  BY PickedInOrder DEF Added, IsEnum
<1>2. IsSeq(add) /\ ToSet(add) = ToSet(new) \ ToSet(old)
  BY PickedIs DEF Added, IsEnum
<1>3. IsInjective(add)
  BY <1>1, InOrderInjective DEF IsEnum
<1>4. DOMAIN add = 1..Len(add)
  BY <1>2, SeqIsFunction
<1> HIDE DEF add
<1>5. \A i, j \in 1..Len(add) : add[i] = add[j] => i = j
  BY <1>3, <1>4 DEF IsInjective
<1>6. Lists(add, ToSet(new) \ ToSet(old))
  BY <1>2, <1>5 DEF Lists
<1> QED BY <1>1, <1>4, <1>6 DEF add

LEMMA FillingOnce ==
  ASSUME NEW T, NEW E, NEW Q, NEW e, NEW old, IsEnum(old), NEW new, IsEnum(new),
         ToSet(old) \subseteq ToSet(new),
         NEW i \in 1..Len(Added(old, new)), NEW s,
         Filling(s, T, E, Q, e, old, new, i - 1)
  PROVE  Filling(Apply(s, AddValue(e, Added(old, new)[i], old, new)),
                 T, E, Q, e, old, new, i)
<1> DEFINE add == Added(old, new)
           v == add[i]
           st == AddValue(e, v, old, new)
<1>1. PICK values : /\ s = Snap(T, With(E, e, values), Q)
                    /\ IsEnum(values)
                    /\ ToSet(values) = ToSet(old) \cup First(add, i - 1)
                    /\ Clash(e, old, new) \/ InOrder(values, new)
  BY DEF Filling
<1> DEFINE then == Placed(values, st)
<1>2. InOrder(add, new) /\ Lists(add, ToSet(new) \ ToSet(old)) /\ DOMAIN add = 1..Len(add)
  BY AddedAre
<1>3. /\ v \in ToSet(new) \ ToSet(old) /\ v \notin First(add, i - 1)
      /\ First(add, i) = First(add, i - 1) \cup {v}
  <2> HIDE DEF add
  <2>1. i \in 1..Len(add)
    BY DEF add
  <2> QED BY <1>2, <2>1, OneMore
<1>4. Apply(s, st) = Snap(T, With(E, e, then), Q)
  <2>1. AddsValue(st, e)
    BY DEF AddsValue, AddValue
  <2> HIDE DEF st
  <2> QED BY <1>1, <2>1, ApplyAddValue
<1>5. NextTo(st, v, old, new)
  <2> HIDE DEF v
  <2> QED BY <1>3, AddValueNames DEF IsEnum
<1>6. st.value = v
  BY <1>5 DEF NextTo
<1>7. v \notin ToSet(values) /\ v # None
  BY <1>1, <1>3 DEF IsEnum
<1>8. IsEnum(then) /\ ToSet(then) = ToSet(values) \cup {v}
  <2> HIDE DEF st, v
  <2>1. IsSeq(values) /\ IsInjective(values) /\ None \notin ToSet(values)
    BY <1>1 DEF IsEnum
  <2>2. PICK p : PlaceOf(p, values, st) /\ Inserted(then, values, p, st.value)
    BY <2>1, PlacedIs
  <2> HIDE DEF then
  <2>3. /\ IsSeq(then) /\ ToSet(then) = ToSet(values) \cup {v}
        /\ IsInjective(then)
    BY <1>6, <1>7, <2>1, <2>2, InsertedIs
  <2> QED BY <1>7, <2>1, <2>3 DEF IsEnum
<1>9. ToSet(then) = ToSet(old) \cup First(add, i)
  BY <1>1, <1>3, <1>8
<1>10. ASSUME ~Clash(e, old, new)
       PROVE  InOrder(then, new)
  <2>1. InOrder(values, new)
    BY <1>1, <1>10
  <2>2. ASSUME NEW x \in ToSet(values) \ ToSet(old)
        PROVE  /\ At(new, x) < At(new, v)
               /\ \E u : /\ NextTo(u, x, old, new)
                         /\ ~(u.after # None /\ u.after = st.after)
    <3>1. x \in First(add, i - 1)
      BY <1>1, <2>2
    <3>2. PICK j \in 1..(i - 1) : x = add[j]
      BY <3>1 DEF First
    <3>3. j \in 1..Len(add) /\ j < i /\ i \in 1..Len(add)
      <4>1. Len(add) \in Nat
        BY <1>2, SeqIsFunction DEF Lists
      <4> QED BY <3>2, <4>1
    <3>4. At(new, x) < At(new, v)
      BY <1>2, <3>2, <3>3 DEF InOrder
    <3>5. x \in ToSet(new)
      BY <1>1, <1>2, <3>2, <3>3 DEF InOrder, ToSet
    <3>6. NextTo(AddValue(e, x, old, new), x, old, new)
      BY <2>2, <3>5, AddValueNames DEF IsEnum
    <3>7. ~(AddValue(e, x, old, new).after # None /\ AddValue(e, x, old, new).after = st.after)
      <4>1. j \in DOMAIN add /\ i \in DOMAIN add /\ j # i
        BY <1>2, <3>3
      <4>2. ~(AddValue(e, add[j], old, new).after # None
              /\ AddValue(e, add[j], old, new).after = AddValue(e, add[i], old, new).after)
        BY <1>10, <4>1 DEF Clash
      <4> QED BY <3>2, <4>2
    <3> QED BY <3>4, <3>6, <3>7
  <2>3. v \in ToSet(new) \ ToSet(values) /\ ToSet(old) \subseteq ToSet(values)
    BY <1>1, <1>3, <1>7
  <2> HIDE DEF st, v
  <2> QED BY <1>5, <2>1, <2>2, <2>3, PlacedInOrder DEF IsEnum
<1> QED
  <2> HIDE DEF then
  <2>1. Clash(e, old, new) \/ InOrder(then, new)
    BY <1>10
  <2> QED BY <1>4, <1>8, <1>9, <2>1 DEF Filling

AddsValues(script, e, old, new) ==
  script = [i \in DOMAIN Added(old, new) |-> AddValue(e, Added(old, new)[i], old, new)]

(* A type gets the new values, and in their order if nothing clashes. *)
LEMMA AddValuesBlock ==
  ASSUME NEW T, NEW E, NEW Q, NEW e, NEW old, IsEnum(old), NEW new, IsEnum(new),
         Picked(new, ToSet(old)) = old, NEW script, AddsValues(script, e, old, new)
  PROVE  \E values : /\ Leads(script, Snap(T, With(E, e, old), Q), Snap(T, With(E, e, values), Q))
                     /\ Filled(values, e, old, new)
<1> DEFINE add == Added(old, new)
           s == Snap(T, With(E, e, old), Q)
           f == Replayed(s, script)
           J == {i \in 0..Len(add) : Filling(f[i], T, E, Q, e, old, new, i)}
<1>1. InOrder(add, new) /\ Lists(add, ToSet(new) \ ToSet(old)) /\ DOMAIN add = 1..Len(add)
  BY AddedAre
<1>2. IsSeq(add)
  BY <1>1 DEF Lists
<1>3. IsSeq(script) /\ Len(script) = Len(add) /\ Len(script) \in Nat
  <2>1. script = [i \in DOMAIN add |-> script[i]]
    BY DEF AddsValues
  <2> HIDE DEF add
  <2> QED BY <1>2, <2>1, OnePerItem
<1>4. \A i \in 1..Len(add) : script[i] = AddValue(e, add[i], old, new)
  BY <1>1 DEF AddsValues
<1>5. f[0] = s /\ \A i \in 1..Len(add) : f[i] = Apply(f[i - 1], script[i])
  BY <1>3, ReplayedDefined
<1>6. ToSet(old) \subseteq ToSet(new)
  <2>1. ToSet(Picked(new, ToSet(old))) = ToSet(new) \cap ToSet(old)
    BY PickedIs DEF IsEnum
  <2> QED BY <2>1
<1>7. InOrder(old, new)
  BY PickedInOrder DEF IsEnum
<1> HIDE DEF f
<1>8. 0 \in J
  <2>1. First(add, 0) = {}
    BY <1>2, FirstItems
  <2>2. Filling(s, T, E, Q, e, old, new, 0)
    BY <1>7, <2>1 DEF Filling
  <2>3. 0 \in 0..Len(add)
    BY <1>3
  <2> QED BY <1>5, <2>2, <2>3
<1>9. ASSUME NEW i \in 0..Len(add), i \in J, i < Len(add)
      PROVE  i + 1 \in J
  <2>1. i + 1 \in 1..Len(add) /\ i + 1 \in 0..Len(add) /\ (i + 1) - 1 = i
    BY <1>3, <1>9
  <2>2. f[i + 1] = Apply(f[i], AddValue(e, add[i + 1], old, new))
    BY <1>4, <1>5, <2>1
  <2>3. Filling(f[i], T, E, Q, e, old, new, (i + 1) - 1)
    BY <1>9, <2>1
  <2> DEFINE m == i + 1
  <2> HIDE DEF m
  <2>4. m \in 1..Len(add) /\ Filling(f[i], T, E, Q, e, old, new, m - 1)
    BY <2>1, <2>3 DEF m
  <2>5. Filling(Apply(f[i], AddValue(e, add[m], old, new)), T, E, Q, e, old, new, m)
    BY <1>6, <2>4, FillingOnce
  <2>6. Filling(f[m], T, E, Q, e, old, new, m)
    BY <2>2, <2>5 DEF m
  <2> QED BY <2>1, <2>6 DEF m
<1>10. \A i \in 0..Len(add) : i \in J
  <2> HIDE DEF J
  <2> QED BY <1>3, <1>8, <1>9, Upwards
<1>11. Filling(f[Len(add)], T, E, Q, e, old, new, Len(add))
  <2>1. Len(add) \in 0..Len(add)
    BY <1>3
  <2> QED BY <1>10, <2>1
<1>12. f[Len(add)] = Replay(s, script)
  BY <1>3 DEF Replay, f
<1>13. First(add, Len(add)) = ToSet(new) \ ToSet(old)
  BY <1>1, <1>2, FirstItems DEF Lists
<1>14. PICK values : /\ f[Len(add)] = Snap(T, With(E, e, values), Q)
                     /\ IsEnum(values)
                     /\ ToSet(values) = ToSet(old) \cup First(add, Len(add))
                     /\ Clash(e, old, new) \/ InOrder(values, new)
  BY <1>11 DEF Filling
<1>15. ToSet(values) = ToSet(new)
  BY <1>6, <1>13, <1>14
<1>16. Filled(values, e, old, new)
  <2>1. InOrder(values, new) => values = new
    BY <1>15, InOrderIs DEF IsEnum
  <2> QED BY <1>14, <1>15, <2>1 DEF Filled
<1>17. Leads(script, s, Snap(T, With(E, e, values), Q))
  BY <1>3, <1>12, <1>14 DEF Leads
<1> QED BY <1>16, <1>17

-----------------------------------------------------------------------------
(* All enums: P are the ones that stay, G those that there are to be.        *)

AreEnums(E) == IsFcn(E) /\ \A e \in DOMAIN E : IsEnum(E[e])

EnumsGrow(P, G) ==
  /\ AreEnums(P) /\ AreEnums(G) /\ DOMAIN P \subseteq DOMAIN G
  /\ \A e \in DOMAIN P : Picked(G[e], ToSet(P[e])) = P[e]

EnumPart(e, P, G) ==
  IF e \notin DOMAIN P
  THEN <<[op |-> "createType", key |-> e, values |-> G[e]]>>
  ELSE [i \in DOMAIN Added(P[e], G[e]) |->
          AddValue(e, Added(P[e], G[e])[i], P[e], G[e])]

Full(values, e, P, G) ==
  IF e \in DOMAIN P THEN Filled(values, e, P[e], G[e]) ELSE values = G[e]

(* The enums after those in D got values or were made. *)
EnumsSoFar(s, T, P, G, Q, D) ==
  \E F : /\ s = Snap(T, F, Q) /\ IsFcn(F) /\ DOMAIN F = DOMAIN P \cup D
         /\ \A e \in DOMAIN P \ D : F[e] = P[e]
         /\ \A e \in D : Full(F[e], e, P, G)

LEMMA EnumPartLeads ==
  ASSUME NEW P, NEW G, EnumsGrow(P, G), NEW T, NEW Q, NEW F,
         NEW e \in DOMAIN G, e \in DOMAIN P => F[e] = P[e],
         e \in DOMAIN P => e \in DOMAIN F, IsFcn(F)
  PROVE  \E values : /\ Leads(EnumPart(e, P, G), Snap(T, F, Q), Snap(T, With(F, e, values), Q))
                     /\ Full(values, e, P, G)
<1>1. CASE e \notin DOMAIN P
  <2> DEFINE v == G[e]
             part == <<[op |-> "createType", key |-> e, values |-> v]>>
  <2>1. EnumPart(e, P, G) = part
    BY <1>1 DEF EnumPart
  <2>2. Full(v, e, P, G)
    BY <1>1 DEF Full
  <2> HIDE DEF v
  <2>3. Apply(Snap(T, F, Q), [op |-> "createType", key |-> e, values |-> v])
           = Snap(T, With(F, e, v), Q)
    BY ApplyCreateType
  <2> DEFINE st == [op |-> "createType", key |-> e, values |-> v]
  <2> HIDE DEF st
  <2>4. Apply(Snap(T, F, Q), st) = Snap(T, With(F, e, v), Q) /\ part = <<st>>
    BY <2>3 DEF st
  <2>5. Leads(<<st>>, Snap(T, F, Q), Snap(T, With(F, e, v), Q))
    BY <2>4, ReplayFew, Singleton DEF Leads
  <2> QED BY <2>1, <2>2, <2>4, <2>5
<1>2. CASE e \in DOMAIN P
  <2> DEFINE old == P[e]
             new == G[e]
             part == EnumPart(e, P, G)
  <2>1. IsEnum(old) /\ IsEnum(new) /\ Picked(new, ToSet(old)) = old
    BY <1>2 DEF EnumsGrow, AreEnums
  <2>2. AddsValues(part, e, old, new)
    BY <1>2 DEF EnumPart, AddsValues
  <2>3. With(F, e, old) = F
    BY <1>2, WithSame
  <2>4. \A values : Filled(values, e, old, new) => Full(values, e, P, G)
    BY <1>2 DEF Full
  <2> HIDE DEF old, new, part
  <2>5. PICK values : /\ Leads(part, Snap(T, With(F, e, old), Q), Snap(T, With(F, e, values), Q))
                      /\ Filled(values, e, old, new)
    BY <2>1, <2>2, AddValuesBlock
  <2> QED BY <2>3, <2>4, <2>5 DEF part
<1> QED BY <1>1, <1>2

LEMMA EnumsSoFarOnce ==
  ASSUME NEW P, NEW G, EnumsGrow(P, G), NEW T, NEW Q,
         NEW D, D \subseteq DOMAIN G, NEW e \in DOMAIN G \ D,
         NEW s, EnumsSoFar(s, T, P, G, Q, D)
  PROVE  /\ IsSeq(EnumPart(e, P, G))
         /\ EnumsSoFar(Replay(s, EnumPart(e, P, G)), T, P, G, Q, D \cup {e})
<1>1. PICK F : /\ s = Snap(T, F, Q) /\ IsFcn(F) /\ DOMAIN F = DOMAIN P \cup D
               /\ \A u \in DOMAIN P \ D : F[u] = P[u]
               /\ \A u \in D : Full(F[u], u, P, G)
  BY DEF EnumsSoFar
<1>2. PICK values : /\ Leads(EnumPart(e, P, G), Snap(T, F, Q), Snap(T, With(F, e, values), Q))
                    /\ Full(values, e, P, G)
  BY <1>1, EnumPartLeads
<1> DEFINE H == With(F, e, values)
<1>3. IsFcn(H) /\ DOMAIN H = DOMAIN P \cup (D \cup {e})
  BY <1>1 DEF With, IsFcn
<1>4. ASSUME NEW u \in DOMAIN P \ (D \cup {e})
      PROVE  H[u] = P[u]
  BY <1>1 DEF With
<1>5. ASSUME NEW u \in D \cup {e}
      PROVE  Full(H[u], u, P, G)
  <2>1. CASE u = e
    <3>1. H[u] = values
      BY <2>1 DEF With
    <3> HIDE DEF H
    <3> QED BY <1>2, <2>1, <3>1
  <2>2. CASE u # e
    <3>1. u \in D /\ H[u] = F[u]
      BY <1>1, <2>2 DEF With
    <3> HIDE DEF H
    <3> QED BY <1>1, <3>1
  <2> QED BY <2>1, <2>2
<1> HIDE DEF H
<1>6. Replay(s, EnumPart(e, P, G)) = Snap(T, H, Q) /\ IsSeq(EnumPart(e, P, G))
  BY <1>1, <1>2 DEF Leads, H
<1> QED BY <1>3, <1>4, <1>5, <1>6 DEF EnumsSoFar

EnumParts(ss, e, P, G) == ss = [i \in DOMAIN e |-> EnumPart(e[i], P, G)]

LEMMA EnumsBlock ==
  ASSUME NEW P, NEW G, EnumsGrow(P, G), NEW T, NEW Q,
         NEW e, Lists(e, DOMAIN G), NEW ss, EnumParts(ss, e, P, G)
  PROVE  /\ IsSeqOfSeqs(ss)
         /\ EnumsSoFar(Replay(Snap(T, P, Q), FlattenSeq(ss)), T, P, G, Q, DOMAIN G)
<1> DEFINE s == Snap(T, P, Q)
           R == Stages(s, ss)
           J == {i \in 0..Len(ss) : EnumsSoFar(R[i], T, P, G, Q, First(e, i))}
<1>0. IsSeq(e)
  BY DEF Lists
<1>1. /\ IsSeq(ss) /\ Len(ss) = Len(e) /\ Len(ss) \in Nat
      /\ DOMAIN e = 1..Len(e)
  BY <1>0, OnePerItem DEF EnumParts
<1>2. ASSUME NEW i \in 1..Len(ss)
      PROVE  /\ e[i] \in DOMAIN G \ First(e, i - 1) /\ First(e, i) = First(e, i - 1) \cup {e[i]}
             /\ First(e, i - 1) \subseteq DOMAIN G
             /\ ss[i] = EnumPart(e[i], P, G)
  <2>1. i \in 1..Len(e)
    BY <1>1
  <2>2. e[i] \in DOMAIN G /\ e[i] \notin First(e, i - 1) /\ First(e, i) = First(e, i - 1) \cup {e[i]}
        /\ First(e, i) \subseteq DOMAIN G
    BY <2>1, OneMore
  <2> QED BY <1>1, <2>2 DEF EnumParts
<1>3. EnumsSoFar(s, T, P, G, Q, {})
  BY DEF EnumsSoFar, EnumsGrow, AreEnums
<1>4. IsSeqOfSeqs(ss)
  <2>1. ASSUME NEW k \in DOMAIN G
        PROVE  IsSeq(EnumPart(k, P, G))
    BY <1>3, EnumsSoFarOnce
  <2>2. ASSUME NEW i \in 1..Len(ss)
        PROVE  IsSeq(ss[i])
    <3>1. e[i] \in DOMAIN G /\ ss[i] = EnumPart(e[i], P, G)
      BY <1>2
    <3> QED BY <2>1, <3>1
  <2> QED BY <1>1, <2>2 DEF IsSeqOfSeqs
<1>5. /\ R[0] = s
      /\ \A i \in 1..Len(ss) : R[i] = Replay(R[i - 1], ss[i])
      /\ R[Len(ss)] = Replay(s, FlattenSeq(ss))
  BY <1>4, StagesFollow
<1> HIDE DEF R, s
<1>6. 0 \in J
  <2>1. First(e, 0) = {}
    BY OneMore
  <2>2. EnumsSoFar(R[0], T, P, G, Q, First(e, 0))
    BY <1>3, <1>5, <2>1
  <2>3. 0 \in 0..Len(ss)
    BY <1>1
  <2> QED BY <2>2, <2>3
<1>7. ASSUME NEW i \in 0..Len(ss), i \in J, i < Len(ss)
      PROVE  i + 1 \in J
  <2>1. i + 1 \in 1..Len(ss) /\ i + 1 \in 0..Len(ss) /\ (i + 1) - 1 = i
    BY <1>1, <1>7
  <2> DEFINE k == e[i + 1]
             D == First(e, i)
  <2>2. k \in DOMAIN G \ D /\ First(e, i + 1) = D \cup {k} /\ D \subseteq DOMAIN G
        /\ ss[i + 1] = EnumPart(k, P, G)
    BY <1>2, <2>1
  <2>3. R[i + 1] = Replay(R[i], EnumPart(k, P, G)) /\ EnumsSoFar(R[i], T, P, G, Q, D)
    BY <1>5, <1>7, <2>1, <2>2
  <2> HIDE DEF k, D
  <2>4. EnumsSoFar(Replay(R[i], EnumPart(k, P, G)), T, P, G, Q, D \cup {k})
    BY <2>2, <2>3, EnumsSoFarOnce
  <2>5. EnumsSoFar(R[i + 1], T, P, G, Q, First(e, i + 1))
    BY <2>2, <2>3, <2>4
  <2> QED BY <2>1, <2>5
<1>8. \A i \in 0..Len(ss) : i \in J
  <2> HIDE DEF J
  <2> QED BY <1>1, <1>6, <1>7, Upwards
<1>9. EnumsSoFar(R[Len(ss)], T, P, G, Q, First(e, Len(e)))
  <2>1. Len(ss) \in 0..Len(ss)
    BY <1>1
  <2> QED BY <1>1, <1>8, <2>1
<1>10. First(e, Len(e)) = DOMAIN G
  BY OneMore
<1> QED BY <1>4, <1>5, <1>9, <1>10 DEF s

-----------------------------------------------------------------------------
(* Whole snapshots.                                                         *)

IsSnapshot(s) ==
  /\ s = Snap(s.tables, s.enums, s.sequences)
  /\ IsTables(s.tables) /\ Closed(s.tables)
  /\ DOMAIN s.tables \subseteq ToSet(TableOrder)
  /\ AreEnums(s.enums) /\ IsFiniteSet(DOMAIN s.enums)
  /\ IsFiniteSet(s.sequences)

LEMMA WellFormedEnums ==
  ASSUME NEW values
  PROVE  values \in Seq(ToSet(values) \ {None}) /\ IsInjective(values) <=> IsEnum(values)
<1>1. ASSUME values \in Seq(ToSet(values) \ {None})
      PROVE  IsSeq(values) /\ None \notin ToSet(values)
  <2> DEFINE S == ToSet(values) \ {None}
  <2>1. values \in Seq(S)
    BY <1>1
  <2> HIDE DEF S
  <2>2. IsSeq(values) /\ ToSet(values) \subseteq S
    BY <2>1, SeqOfIsSeq
  <2> QED BY <2>2 DEF S
<1>2. ASSUME IsSeq(values), None \notin ToSet(values)
      PROVE  values \in Seq(ToSet(values) \ {None})
  <2>1. ToSet(values) \ {None} = ToSet(values)
    BY <1>2
  <2> QED BY <1>2, <2>1 DEF IsSeq
<1> QED BY <1>1, <1>2 DEF IsEnum

LEMMA WellFormedSnapshots ==
  ASSUME NEW s
  PROVE  WellFormed(s) <=> IsSnapshot(s)
<1> DEFINE T == s.tables
           E == s.enums
           Tables == /\ IsMap(T) /\ \A k \in DOMAIN T :
                          /\ WellFormedTable(T[k])
                          /\ Dependencies(T, k) \subseteq DOMAIN T
           Enums == /\ IsMap(E) /\ \A e \in DOMAIN E :
                         /\ E[e] \in Seq(ToSet(E[e]) \ {None})
                         /\ IsInjective(E[e])
<1>1. WellFormed(s) <=> /\ s = Snap(T, E, s.sequences) /\ Tables /\ Enums
                        /\ IsFiniteSet(s.sequences) /\ DOMAIN T \subseteq ToSet(TableOrder)
  BY DEF WellFormed, Snap
<1>2. Tables <=> IsTables(T) /\ Closed(T)
  <2>1. \A k \in DOMAIN T : WellFormedTable(T[k]) <=> IsTable(T[k])
    BY WellFormedTables
  <2> HIDE DEF T
  <2> QED BY <2>1 DEF IsMap, IsTables, IsFcn, Closed
<1>3. Enums <=> AreEnums(E) /\ IsFiniteSet(DOMAIN E)
  <2>1. ASSUME NEW e \in DOMAIN E
        PROVE  E[e] \in Seq(ToSet(E[e]) \ {None}) /\ IsInjective(E[e]) <=> IsEnum(E[e])
    BY WellFormedEnums
  <2> HIDE DEF E
  <2> QED BY <2>1 DEF IsMap, AreEnums, IsFcn
<1> HIDE DEF Tables, Enums
<1> QED BY <1>1, <1>2, <1>3 DEF IsSnapshot

LEMMA PartialInjectionsAre ==
  ASSUME NEW S, NEW T, NEW f \in PartialInjections(S, T)
  PROVE  IsInjective(f) /\ DOMAIN f \subseteq S /\ Range(f) \subseteq T
<1>1. IsInjective(f) /\ f \in UNION {[D -> T] : D \in SUBSET S}
  BY DEF PartialInjections
<1>2. PICK D \in SUBSET S : f \in [D -> T]
  BY <1>1
<1> QED BY <1>1, <1>2 DEF Range

(* What resolveRenames answers. *)
LEMMA TableRenamesAre ==
  ASSUME NEW prev, NEW curr, NEW r \in TableRenames(prev, curr)
  PROVE  IsRenaming(r, prev.tables, curr.tables)
<1>1. r \in PartialInjections(DOMAIN prev.tables \ DOMAIN curr.tables,
                              DOMAIN curr.tables \ DOMAIN prev.tables)
  BY DEF TableRenames
<1> QED BY <1>1, PartialInjectionsAre DEF IsRenaming

LEMMA ColumnRenamesAre ==
  ASSUME NEW prev, NEW curr, NEW r, NEW cr \in ColumnRenames(prev, curr, r)
  PROVE  AreRenamings(Stayed(prev.tables, curr.tables, r), curr.tables, cr)
<1> DEFINE P == Stayed(prev.tables, curr.tables, r)
<1>1. ASSUME NEW k \in DOMAIN P
      PROVE  IsRenaming(cr[k], P[k].columns, curr.tables[k].columns)
  <2> DEFINE p == DOMAIN P[k].columns
             q == DOMAIN curr.tables[k].columns
             f == cr[k]
  <2>1. k \in Staying(prev, curr, r) /\ P[k] = prev.tables[OldKey(r, k)]
    BY DEF Stayed, Staying
  <2>2. f \in PartialInjections(p \ q, q \ p)
    BY <2>1 DEF ColumnRenames
  <2> HIDE DEF p, q, f, P
  <2>3. IsInjective(f) /\ DOMAIN f \subseteq p \ q /\ Range(f) \subseteq q \ p
    BY <2>2, PartialInjectionsAre
  <2> QED BY <2>3 DEF IsRenaming, p, q, f
<1> QED BY <1>1 DEF AreRenamings

LEMMA SchemasFinite ==
  ASSUME NEW s, IsFiniteSet(DOMAIN s.tables)
  PROVE  IsFiniteSet(SchemasOf(s))
<1> DEFINE D == DOMAIN s.tables
           R == {k[1] : k \in D}
           f == [k \in D |-> k[1]]
<1>1. f \in Surjection(D, R)
  BY DEF Surjection
<1> HIDE DEF D, R, f
<1>2. IsFiniteSet(D)
  BY DEF D
<1>3. IsFiniteSet(R)
  BY <1>1, <1>2, FS_Surjection
<1>4. SchemasOf(s) = R \ {Public}
  BY DEF SchemasOf, R, D
<1> QED BY <1>3, <1>4, FS_Difference

MakesSchemas(script, e, op) ==
  script = [i \in DOMAIN e |-> [op |-> op, schema |-> e[i]]]

LEMMA SchemaPart ==
  ASSUME NEW e, IsSeq(e), NEW s, NEW op \in {"createSchema", "dropSchema"},
         NEW script, MakesSchemas(script, e, op)
  PROVE  Leads(script, s, s)
<1>1. script = [i \in DOMAIN e |-> script[i]]
  BY DEF MakesSchemas
<1>2. IsSeq(script) /\ Len(script) = Len(e) /\ DOMAIN e = 1..Len(e)
  BY <1>1, OnePerItem
<1>3. \A i \in 1..Len(script) : script[i].op \in {"createSchema", "dropSchema"}
  BY <1>2 DEF MakesSchemas
<1> QED BY <1>2, <1>3, SchemaBlock DEF Leads

-----------------------------------------------------------------------------
(* The parts of a script that generateMigration writes.                     *)

LEMMA RenameTablesPart ==
  ASSUME NEW prev, IsSnapshot(prev), NEW curr, NEW r \in TableRenames(prev, curr),
         NEW E, NEW Q
  PROVE  Leads(RenameTables(r), Snap(prev.tables, E, Q),
               Snap(Renamed(prev.tables, r, DOMAIN r), E, Q))
<1> DEFINE T == prev.tables
           e == SetToSeq(DOMAIN r)
           script == RenameTables(r)
<1>1. IsFcn(T) /\ IsFiniteSet(DOMAIN T)
  BY DEF IsSnapshot, IsTables, Closed
<1>2. IsInjective(r) /\ DOMAIN r \subseteq DOMAIN T /\ Range(r) \cap DOMAIN T = {}
  BY TableRenamesAre DEF IsRenaming
<1>3. Lists(e, DOMAIN r)
  BY <1>1, <1>2, FS_Subset, SetToSeqLists
<1>4. RenamesTables(script, e, r)
  BY DEF RenamesTables, RenameTables, ForEach
<1> HIDE DEF T, e, script
<1>5. Leads(script, Snap(T, E, Q), Snap(Renamed(T, r, DOMAIN r), E, Q))
  BY <1>1, <1>2, <1>3, <1>4, RenameTableBlock
<1> QED BY <1>5 DEF T, script

LEMMA OrderIs ==
  ASSUME NEW s, IsSnapshot(s), IsSeq(TableOrder)
  PROVE  Lists(OrderTables(s.tables), DOMAIN s.tables)
BY OrderTablesLists DEF IsSnapshot

LEMMA DropTablesPart ==
  ASSUME NEW prev, IsSnapshot(prev), NEW curr, NEW r \in TableRenames(prev, curr),
         IsSeq(TableOrder), NEW E, NEW Q
  PROVE  Leads(DropTables(prev, curr, r),
               Snap(Renamed(prev.tables, r, DOMAIN r), E, Q),
               Snap(Stayed(prev.tables, curr.tables, r), E, Q))
<1> DEFINE T == prev.tables
           S == DOMAIN T \ (DOMAIN curr.tables \cup DOMAIN r)
           o == OrderTables(T)
           e == Picked(Reverse(o), S)
           script == DropTables(prev, curr, r)
           U == Renamed(T, r, DOMAIN r)
<1>1. IsSeq(o) /\ ToSet(o) = DOMAIN T
  BY OrderIs DEF Lists
<1>2. IsSeq(e) /\ ToSet(e) = S
  <2> HIDE DEF o, S
  <2>1. IsSeq(Reverse(o)) /\ ToSet(Reverse(o)) = DOMAIN T
    BY <1>1, ReverseIs
  <2>2. IsSeq(e) /\ ToSet(e) = DOMAIN T \cap S
    BY <2>1, PickedIs
  <2> QED BY <2>2 DEF S
<1>3. DropsTables(script, e)
  BY DEF DropsTables, DropTables
<1>4. IsFcn(U)
  BY DEF Renamed, IsFcn
<1>5. IsRenaming(r, T, curr.tables)
  BY TableRenamesAre
<1>6. Restrict(U, DOMAIN U \ S) = Stayed(T, curr.tables, r)
  <2> DEFINE G == curr.tables
             X == S
  <2>1. X = DOMAIN T \ (DOMAIN G \cup DOMAIN r) /\ IsRenaming(r, T, G)
    BY <1>5
  <2> HIDE DEF T, G, X
  <2>2. Restrict(Renamed(T, r, DOMAIN r), DOMAIN Renamed(T, r, DOMAIN r) \ X) = Stayed(T, G, r)
    BY <2>1, StayedAfter
  <2> QED BY <2>2 DEF X, G
<1> HIDE DEF T, S, o, e, script, U
<1>7. Leads(script, Snap(U, E, Q), Snap(Restrict(U, DOMAIN U \ ToSet(e)), E, Q))
  BY <1>2, <1>3, <1>4, DropTableBlock
<1> QED BY <1>2, <1>6, <1>7 DEF script, U, T

(* The enums that stay. *)
StayedEnums(prev, curr) ==
  Restrict(prev.enums, DOMAIN prev.enums \ (DOMAIN prev.enums \ DOMAIN curr.enums))

LEMMA DropTypesPart ==
  ASSUME NEW prev, IsSnapshot(prev), NEW curr, NEW e,
         e = SetToSeq(DOMAIN prev.enums \ DOMAIN curr.enums),
         NEW script, DropsTypes(script, e), NEW T, NEW Q
  PROVE  Leads(script, Snap(T, prev.enums, Q), Snap(T, StayedEnums(prev, curr), Q))
<1> DEFINE E == prev.enums
           S == DOMAIN E \ DOMAIN curr.enums
<1>1. IsFcn(E) /\ IsFiniteSet(S)
  BY FS_Difference DEF IsSnapshot, AreEnums
<1>2. IsSeq(e) /\ ToSet(e) = S
  BY <1>1, SetToSeqLists DEF Lists
<1> HIDE DEF E, S
<1>3. Leads(script, Snap(T, E, Q), Snap(T, Restrict(E, DOMAIN E \ ToSet(e)), Q))
  BY <1>1, <1>2, DropTypeBlock
<1> QED BY <1>2, <1>3 DEF E, S, StayedEnums

LEMMA EnumsGrowing ==
  ASSUME NEW prev, IsSnapshot(prev), NEW curr, IsSnapshot(curr), ~Refused(prev, curr)
  PROVE  /\ EnumsGrow(StayedEnums(prev, curr), curr.enums)
         /\ \A e \in DOMAIN curr.enums :
              /\ e \in DOMAIN prev.enums <=> e \in DOMAIN StayedEnums(prev, curr)
              /\ e \in DOMAIN prev.enums => StayedEnums(prev, curr)[e] = prev.enums[e]
<1> DEFINE P == StayedEnums(prev, curr)
<1>1. AreEnums(prev.enums) /\ AreEnums(curr.enums)
  BY DEF IsSnapshot
<1>2. DOMAIN P = DOMAIN prev.enums \cap DOMAIN curr.enums
  BY DEF StayedEnums, Restrict
<1>3. IsFcn(P) /\ \A e \in DOMAIN P : P[e] = prev.enums[e]
  BY DEF StayedEnums, Restrict, IsFcn
<1> HIDE DEF P
<1>4. \A e \in DOMAIN P : IsEnum(P[e])
  BY <1>1, <1>2, <1>3 DEF AreEnums
<1>5. ASSUME NEW e \in DOMAIN P
      PROVE  Picked(curr.enums[e], ToSet(P[e])) = P[e]
  BY <1>2, <1>3 DEF Refused
<1> QED BY <1>1, <1>2, <1>3, <1>4, <1>5 DEF EnumsGrow, AreEnums, P

(* The scripts for the enums, one after the other. *)
LEMMA EnumsAreParts ==
  ASSUME NEW prev, IsSnapshot(prev), NEW curr, IsSnapshot(curr), ~Refused(prev, curr)
  PROVE  \E ss, e : /\ AlterEnums(prev, curr, "up") = FlattenSeq(ss)
                    /\ Lists(e, DOMAIN curr.enums)
                    /\ EnumParts(ss, e, StayedEnums(prev, curr), curr.enums)
<1> DEFINE P == StayedEnums(prev, curr)
           G == curr.enums
           e == SetToSeq(DOMAIN G)
           ss == [i \in DOMAIN e |-> EnumPart(e[i], P, G)]
<1>2. Lists(e, DOMAIN G)
  BY SetToSeqLists DEF IsSnapshot
<1>3. DOMAIN e = 1..Len(e) /\ \A i \in 1..Len(e) : e[i] \in DOMAIN G
  <2> HIDE DEF e
  <2>1. DOMAIN e = 1..Len(e)
    BY <1>2, SeqIsFunction DEF Lists
  <2> QED BY <1>2, <2>1, OneMore
<1>4. AlterEnums(prev, curr, "up") = FlattenSeq(ss)
  <2> DEFINE Old(k) ==
               IF k \notin DOMAIN prev.enums
               THEN <<[op |-> "createType", key |-> k, values |-> G[k]]>>
               ELSE [i \in DOMAIN Added(prev.enums[k], G[k]) |->
                       AddValue(k, Added(prev.enums[k], G[k])[i], prev.enums[k], G[k])]
  <2>1. AlterEnums(prev, curr, "up") = FlattenSeq([i \in DOMAIN e |-> Old(e[i])])
    BY DEF AlterEnums, ForEach
  <2>2. ASSUME NEW k \in DOMAIN G
        PROVE  Old(k) = EnumPart(k, P, G)
    <3>1. /\ k \in DOMAIN prev.enums <=> k \in DOMAIN P
          /\ k \in DOMAIN prev.enums => P[k] = prev.enums[k]
      BY EnumsGrowing
    <3> HIDE DEF P, G
    <3>2. CASE k \in DOMAIN P
      <4>1. P[k] = prev.enums[k] /\ k \in DOMAIN prev.enums
        BY <3>1, <3>2
      <4> QED BY <3>2, <4>1 DEF EnumPart
    <3>3. CASE k \notin DOMAIN P
      BY <3>1, <3>3 DEF EnumPart
    <3> QED BY <3>2, <3>3
  <2> HIDE DEF Old
  <2>3. ASSUME NEW i \in DOMAIN e
        PROVE  Old(e[i]) = EnumPart(e[i], P, G)
    <3>1. e[i] \in DOMAIN G
      BY <1>3
    <3> HIDE DEF P, G, e
    <3> QED BY <2>2, <3>1
  <2>4. [i \in DOMAIN e |-> Old(e[i])] = ss
    <3> HIDE DEF e, P, G
    <3> QED BY <2>3
  <2> QED BY <2>1, <2>4
<1>5. EnumParts(ss, e, P, G)
  BY DEF EnumParts
<1> HIDE DEF P, G, e, ss
<1> QED BY <1>2, <1>4, <1>5 DEF P, G

LEMMA EnumsPart ==
  ASSUME NEW prev, IsSnapshot(prev), NEW curr, IsSnapshot(curr), ~Refused(prev, curr),
         NEW T, NEW Q
  PROVE  /\ IsSeq(AlterEnums(prev, curr, "up"))
         /\ EnumsSoFar(Replay(Snap(T, StayedEnums(prev, curr), Q), AlterEnums(prev, curr, "up")),
                       T, StayedEnums(prev, curr), curr.enums, Q, DOMAIN curr.enums)
<1> DEFINE P == StayedEnums(prev, curr)
           G == curr.enums
<1>1. EnumsGrow(P, G)
  BY EnumsGrowing
<1>2. PICK ss, e : /\ AlterEnums(prev, curr, "up") = FlattenSeq(ss)
                   /\ Lists(e, DOMAIN G) /\ EnumParts(ss, e, P, G)
  BY EnumsAreParts
<1> HIDE DEF P, G
<1>3. /\ IsSeqOfSeqs(ss)
      /\ EnumsSoFar(Replay(Snap(T, P, Q), FlattenSeq(ss)), T, P, G, Q, DOMAIN G)
  BY <1>1, <1>2, EnumsBlock
<1>4. IsSeq(FlattenSeq(ss))
  BY <1>3, Flat
<1> QED BY <1>2, <1>3, <1>4 DEF P, G

LEMMA SequencesPart ==
  ASSUME NEW prev, IsSnapshot(prev), NEW curr, IsSnapshot(curr), NEW e, NEW f,
         e = SetToSeq(prev.sequences \ curr.sequences),
         f = SetToSeq(curr.sequences \ prev.sequences),
         NEW drops, DropsSequences(drops, e), NEW creates, CreatesSequences(creates, f),
         NEW T, NEW E
  PROVE  \E Q : /\ Leads(drops, Snap(T, E, prev.sequences), Snap(T, E, Q))
                /\ Leads(creates, Snap(T, E, Q), Snap(T, E, curr.sequences))
<1> DEFINE A == prev.sequences
           B == curr.sequences
<1>1. IsFiniteSet(A \ B) /\ IsFiniteSet(B \ A)
  BY FS_Difference DEF IsSnapshot
<1>2. IsSeq(e) /\ ToSet(e) = A \ B /\ IsSeq(f) /\ ToSet(f) = B \ A
  BY <1>1, SetToSeqLists DEF Lists
<1> HIDE DEF A, B
<1>3. Leads(drops, Snap(T, E, A), Snap(T, E, A \ ToSet(e)))
  BY <1>2, DropSequenceBlock
<1> DEFINE Q == A \ ToSet(e)
<1>4. Q \cup ToSet(f) = B
  BY <1>2
<1> HIDE DEF Q
<1>5. Leads(creates, Snap(T, E, Q), Snap(T, E, Q \cup ToSet(f)))
  BY <1>2, CreateSequenceBlock
<1> QED BY <1>3, <1>4, <1>5 DEF Q, A, B

LEMMA BothEmpty ==
  ASSUME NEW a, NEW b, IsSeq(a), IsSeq(b)
  PROVE  IsSeq(a \o b) /\ (a \o b = <<>> => a = <<>> /\ b = <<>>)
<1>1. IsSeq(a \o b) /\ Len(a \o b) = Len(a) + Len(b)
  BY Concat
<1>2. Len(a) \in Nat /\ Len(b) \in Nat
  BY SeqIsFunction
<1>3. ASSUME NEW s, IsSeq(s), Len(s) = 0
      PROVE  s = <<>>
  <2>1. s = [i \in 1..0 |-> s[i]]
    BY <1>3, SeqIsFunction
  <2>2. <<>> = [i \in 1..0 |-> <<>>[i]]
    BY NoItems, SeqIsFunction
  <2>3. \A i \in 1..0 : s[i] = <<>>[i]
    OBVIOUS
  <2> QED BY <2>1, <2>2, <2>3
<1>4. ASSUME a \o b = <<>>
      PROVE  Len(a) = 0 /\ Len(b) = 0
  <2>1. Len(a) + Len(b) = 0
    BY <1>1, <1>4, NoItems
  <2> QED BY <1>2, <2>1
<1> QED BY <1>1, <1>3, <1>4

LEMMA TablesDiff ==
  ASSUME NEW prev, IsSnapshot(prev), NEW curr, IsSnapshot(curr),
         NEW r \in TableRenames(prev, curr), NEW cr \in ColumnRenames(prev, curr, r)
  PROVE  Diff(Stayed(prev.tables, curr.tables, r), curr.tables, cr)
<1> DEFINE T == prev.tables
           G == curr.tables
           P == Stayed(T, G, r)
<1>1. IsTables(T) /\ IsTables(G)
  BY DEF IsSnapshot
<1>2. AreRenamings(P, G, cr)
  BY ColumnRenamesAre
<1> HIDE DEF T, G
<1>3. IsFcn(P) /\ DOMAIN P \subseteq DOMAIN G
  BY DEF Stayed, IsFcn
<1>4. ASSUME NEW k \in DOMAIN P
      PROVE  IsTable(P[k])
  <2>1. OldKey(r, k) \in DOMAIN T /\ P[k] = T[OldKey(r, k)]
    BY DEF Stayed
  <2> QED BY <1>1, <2>1 DEF IsTables
<1> HIDE DEF P
<1> QED BY <1>1, <1>2, <1>3, <1>4 DEF Diff, IsTables, P, T, G

(* What ALTER TABLE makes of the tables. *)
Tables(V, P, G, cr) ==
  /\ AreTables(V) /\ SameButIndexes(AlteredTables(P, G, cr), V)
  /\ NotShared(P, G) => V = AlteredTables(P, G, cr)

LEMMA TablesAreParts ==
  ASSUME NEW prev, IsSnapshot(prev), NEW curr, IsSnapshot(curr), IsSeq(TableOrder),
         NEW r \in TableRenames(prev, curr), NEW cr \in ColumnRenames(prev, curr, r),
         NEW P, P = Stayed(prev.tables, curr.tables, r)
  PROVE  \E ss, e : /\ AlterTables(prev, curr, r, cr) = FlattenSeq(ss)
                    /\ Lists(e, DOMAIN curr.tables)
                    /\ TableParts(ss, e, P, curr.tables, cr)
<1> DEFINE T == prev.tables
           G == curr.tables
           e == OrderTables(G)
           ss == [i \in DOMAIN e |-> TablePart(e[i], P, G, cr)]
           part == AlterTables(prev, curr, r, cr)
<1>2. Lists(e, DOMAIN G)
  BY OrderIs
<1>3. TableParts(ss, e, P, G, cr)
  BY DEF TableParts
<1>4. part = FlattenSeq(ss)
  <2> DEFINE Old(k) ==
               IF OldKey(r, k) \in DOMAIN T
               THEN AlterTable(k, T[OldKey(r, k)], G[k], cr[k])
               ELSE CreateTable(k, G[k]) \o CreateIndexes(k, G[k], DOMAIN G[k].indexes)
  <2>1. part = FlattenSeq([i \in DOMAIN e |-> Old(e[i])])
    BY DEF AlterTables
  <2>2. ASSUME NEW k \in DOMAIN G
        PROVE  Old(k) = TablePart(k, P, G, cr)
    <3>1. /\ k \in DOMAIN P <=> OldKey(r, k) \in DOMAIN T
          /\ k \in DOMAIN P => P[k] = T[OldKey(r, k)]
      BY DEF Stayed
    <3> HIDE DEF T, G
    <3>2. CASE k \in DOMAIN P
      <4>1. P[k] = T[OldKey(r, k)] /\ OldKey(r, k) \in DOMAIN T
        BY <3>1, <3>2
      <4> QED BY <3>2, <4>1 DEF TablePart
    <3>3. CASE k \notin DOMAIN P
      BY <3>1, <3>3 DEF TablePart
    <3> QED BY <3>2, <3>3
  <2>3. DOMAIN e = 1..Len(e)
    <3> HIDE DEF e
    <3> QED BY <1>2, SeqIsFunction DEF Lists
  <2> HIDE DEF Old
  <2>4. ASSUME NEW i \in DOMAIN e
        PROVE  Old(e[i]) = TablePart(e[i], P, G, cr)
    <3>1. e[i] \in DOMAIN G
      <4> HIDE DEF e, G
      <4> QED BY <1>2, <2>3, OneMore
    <3> HIDE DEF G, e
    <3> QED BY <2>2, <3>1
  <2>5. [i \in DOMAIN e |-> Old(e[i])] = ss
    <3> HIDE DEF e, G
    <3> QED BY <2>4
  <2> QED BY <2>1, <2>5
<1> HIDE DEF G, e, ss, part
<1> QED BY <1>2, <1>3, <1>4 DEF G, part

LEMMA AlterTablesPart ==
  ASSUME NEW prev, IsSnapshot(prev), NEW curr, IsSnapshot(curr), IsSeq(TableOrder),
         NEW r \in TableRenames(prev, curr), NEW cr \in ColumnRenames(prev, curr, r),
         NEW P, P = Stayed(prev.tables, curr.tables, r), NEW E, NEW Q
  PROVE  \E V : /\ Leads(AlterTables(prev, curr, r, cr), Snap(P, E, Q), Snap(V, E, Q))
                /\ Tables(V, P, curr.tables, cr)
<1> DEFINE G == curr.tables
           A == AlteredTables(P, G, cr)
           part == AlterTables(prev, curr, r, cr)
<1>1. Diff(P, G, cr)
  BY TablesDiff
<1>p. PICK ss, e : part = FlattenSeq(ss) /\ Lists(e, DOMAIN G) /\ TableParts(ss, e, P, G, cr)
  BY TablesAreParts
<1>2. Lists(e, DOMAIN G)
  BY <1>p
<1>3. TableParts(ss, e, P, G, cr)
  BY <1>p
<1>4. part = FlattenSeq(ss)
  BY <1>p
<1> HIDE DEF G, A, part
<1>5. CASE NotShared(P, G)
  <2>1. Leads(FlattenSeq(ss), Snap(P, E, Q), Snap(A, E, Q))
    BY <1>1, <1>2, <1>3, <1>5, TablesBlockExactly DEF A
  <2>2. DOMAIN P \subseteq DOMAIN G /\ DOMAIN A = DOMAIN G /\ IsFcn(A)
    BY <1>1 DEF A, AlteredTables, Diff, IsFcn
  <2>3. Extended(P, A, DOMAIN G) = A
    BY <2>2 DEF Extended, IsFcn
  <2>4. AreTables(A)
    BY <1>1, <2>3, AlteredTablesAre, TablesAreTables DEF A
  <2>5. SameButIndexes(A, A)
    BY DEF SameButIndexes
  <2> QED BY <1>4, <2>1, <2>4, <2>5 DEF Tables, A, part, G
<1>6. CASE ~NotShared(P, G)
  <2>1. /\ IsSeqOfSeqs(ss)
        /\ Halfway(Replay(Snap(P, E, Q), FlattenSeq(ss)), P, G, cr, DOMAIN G, E, Q)
    BY <1>1, <1>2, <1>3, TablesBlockAnyway
  <2>2. PICK V : /\ Replay(Snap(P, E, Q), FlattenSeq(ss)) = Snap(V, E, Q) /\ AreTables(V)
                 /\ SameButIndexes(Extended(P, A, DOMAIN G), V)
    BY <2>1 DEF Halfway, A
  <2>3. DOMAIN P \subseteq DOMAIN G /\ DOMAIN A = DOMAIN G /\ IsFcn(A)
    BY <1>1 DEF A, AlteredTables, Diff, IsFcn
  <2>4. Extended(P, A, DOMAIN G) = A
    BY <2>3 DEF Extended, IsFcn
  <2>5. Leads(FlattenSeq(ss), Snap(P, E, Q), Snap(V, E, Q))
    BY <2>1, <2>2, Flat DEF Leads
  <2> QED BY <1>4, <1>6, <2>2, <2>4, <2>5 DEF Tables, A, part, G
<1> QED BY <1>5, <1>6

-----------------------------------------------------------------------------
(* What a migration makes of the snapshot it was generated from.            *)

Enums(F, prev, curr) ==
  /\ IsFcn(F) /\ DOMAIN F = DOMAIN curr.enums
  /\ \A e \in DOMAIN F : Full(F[e], e, StayedEnums(prev, curr), curr.enums)

Outcome(u, prev, curr, r, cr) ==
  \E V, F : /\ u = Snap(V, F, curr.sequences)
            /\ Tables(V, Stayed(prev.tables, curr.tables, r), curr.tables, cr)
            /\ Enums(F, prev, curr)

LEMMA GenerateLeads ==
  ASSUME NEW prev, IsSnapshot(prev), NEW curr, IsSnapshot(curr), IsSeq(TableOrder),
         ~Refused(prev, curr),
         NEW r \in TableRenames(prev, curr), NEW cr \in ColumnRenames(prev, curr, r)
  PROVE  /\ \E u : /\ Leads(GenerateMigration(prev, curr, "up", r, cr), prev, u)
                   /\ Outcome(u, prev, curr, r, cr)
         /\ GenerateMigration(prev, curr, "up", r, cr) = <<>> =>
              AlterEnums(prev, curr, "up") = <<>> /\ AlterTables(prev, curr, r, cr) = <<>>
<1> DEFINE T == prev.tables
           E == prev.enums
           P == Stayed(T, curr.tables, r)
           SE == StayedEnums(prev, curr)
           ea == SetToSeq(SchemasOf(curr) \ SchemasOf(prev))
           a == ForEach(SchemasOf(curr) \ SchemasOf(prev),
                        LAMBDA s : [op |-> "createSchema", schema |-> s])
           b == RenameTables(r)
           c == DropTables(prev, curr, r)
           ed == SetToSeq(DOMAIN prev.enums \ DOMAIN curr.enums)
           d == ForEach(DOMAIN prev.enums \ DOMAIN curr.enums,
                        LAMBDA e : [op |-> "dropType", key |-> e])
           f == AlterEnums(prev, curr, "up")
           eg == SetToSeq(prev.sequences \ curr.sequences)
           g == ForEach(prev.sequences \ curr.sequences,
                        LAMBDA k : [op |-> "dropSequence", key |-> k])
           eh == SetToSeq(curr.sequences \ prev.sequences)
           h == ForEach(curr.sequences \ prev.sequences,
                        LAMBDA k : [op |-> "createSequence", key |-> k])
           m == AlterTables(prev, curr, r, cr)
           en == SetToSeq(SchemasOf(prev) \ SchemasOf(curr))
           n == ForEach(SchemasOf(prev) \ SchemasOf(curr),
                        LAMBDA s : [op |-> "dropSchema", schema |-> s])
           Q == prev.sequences
           R == curr.sequences
<1>0. GenerateMigration(prev, curr, "up", r, cr)
        = a \o b \o c \o d \o f \o g \o h \o m \o n
  BY DEF GenerateMigration
<1>1. prev = Snap(T, E, Q)
  BY DEF IsSnapshot
<1>2. IsSeq(ea) /\ IsSeq(en)
  <2>1. IsFiniteSet(SchemasOf(prev)) /\ IsFiniteSet(SchemasOf(curr))
    BY SchemasFinite DEF IsSnapshot, Closed
  <2>2. IsFiniteSet(SchemasOf(prev) \ SchemasOf(curr)) /\ IsFiniteSet(SchemasOf(curr) \ SchemasOf(prev))
    BY <2>1, FS_Difference
  <2> QED BY <2>2, SetToSeqLists DEF Lists
<1>3. /\ MakesSchemas(a, ea, "createSchema") /\ MakesSchemas(n, en, "dropSchema")
      /\ DropsTypes(d, ed) /\ DropsSequences(g, eg) /\ CreatesSequences(h, eh)
  BY DEF MakesSchemas, DropsTypes, DropsSequences, CreatesSequences, ForEach
<1> HIDE DEF a, d, g, h, n, ea, en
<1>a. Leads(a, Snap(T, E, Q), Snap(T, E, Q))
  BY <1>2, <1>3, SchemaPart
<1> DEFINE T1 == Renamed(T, r, DOMAIN r)
<1>b. Leads(b, Snap(T, E, Q), Snap(T1, E, Q))
  BY RenameTablesPart
<1>c. Leads(c, Snap(T1, E, Q), Snap(P, E, Q))
  BY DropTablesPart
<1>d. Leads(d, Snap(P, E, Q), Snap(P, SE, Q))
  <2> HIDE DEF P, Q, SE
  <2>1. Leads(d, Snap(P, prev.enums, Q), Snap(P, StayedEnums(prev, curr), Q))
    BY <1>3, DropTypesPart
  <2> QED BY <2>1 DEF SE
<1>f. PICK F : Leads(f, Snap(P, SE, Q), Snap(P, F, Q)) /\ Enums(F, prev, curr)
  <2> HIDE DEF P, Q, SE
  <2>1. /\ IsSeq(f)
        /\ EnumsSoFar(Replay(Snap(P, SE, Q), f), P, SE, curr.enums, Q, DOMAIN curr.enums)
    BY EnumsPart DEF SE
  <2>2. PICK F : /\ Replay(Snap(P, SE, Q), f) = Snap(P, F, Q) /\ IsFcn(F)
                 /\ DOMAIN F = DOMAIN SE \cup DOMAIN curr.enums
                 /\ \A e \in DOMAIN curr.enums : Full(F[e], e, SE, curr.enums)
    BY <2>1 DEF EnumsSoFar
  <2>3. DOMAIN SE \subseteq DOMAIN curr.enums
    BY DEF SE, StayedEnums, Restrict
  <2>4. Enums(F, prev, curr)
    <3>1. DOMAIN F = DOMAIN curr.enums
      BY <2>2, <2>3
    <3> QED BY <2>2, <3>1 DEF Enums, SE
  <2>5. Leads(f, Snap(P, SE, Q), Snap(P, F, Q))
    BY <2>1, <2>2 DEF Leads
  <2> QED BY <2>4, <2>5
<1>g. PICK W : /\ Leads(g, Snap(P, F, Q), Snap(P, F, W))
               /\ Leads(h, Snap(P, F, W), Snap(P, F, R))
  <2> HIDE DEF P
  <2> QED BY <1>3, SequencesPart
<1>m. PICK V : /\ Leads(m, Snap(P, F, R), Snap(V, F, R))
               /\ Tables(V, P, curr.tables, cr)
  <2> HIDE DEF R
  <2> QED BY AlterTablesPart
<1>n. Leads(n, Snap(V, F, R), Snap(V, F, R))
  BY <1>2, <1>3, SchemaPart
<1> DEFINE u == Snap(V, F, R)
<1>4. Outcome(u, prev, curr, r, cr)
  <2> HIDE DEF P
  <2> QED BY <1>f, <1>m DEF Outcome, P
<1>5. /\ Leads(a \o b \o c \o d \o f \o g \o h \o m \o n, prev, u)
      /\ a \o b \o c \o d \o f \o g \o h \o m \o n = <<>> => f = <<>> /\ m = <<>>
  <2> HIDE DEF T, E, P, SE, b, c, f, m, Q, R, T1
  <2>1. Leads(a \o b, prev, Snap(T1, E, Q))
    BY <1>1, <1>a, <1>b, LeadsOn
  <2>2. Leads(a \o b \o c, prev, Snap(P, E, Q))
    BY <2>1, <1>c, LeadsOn
  <2>3. Leads(a \o b \o c \o d, prev, Snap(P, SE, Q))
    BY <2>2, <1>d, LeadsOn
  <2>4. Leads(a \o b \o c \o d \o f, prev, Snap(P, F, Q))
    BY <2>3, <1>f, LeadsOn
  <2>5. Leads(a \o b \o c \o d \o f \o g, prev, Snap(P, F, W))
    BY <2>4, <1>g, LeadsOn
  <2>6. Leads(a \o b \o c \o d \o f \o g \o h, prev, Snap(P, F, R))
    BY <2>5, <1>g, LeadsOn
  <2>7. Leads(a \o b \o c \o d \o f \o g \o h \o m, prev, Snap(V, F, R))
    BY <2>6, <1>m, LeadsOn
  <2>8. Leads(a \o b \o c \o d \o f \o g \o h \o m \o n, prev, u)
    BY <2>7, <1>n, LeadsOn
  <2> DEFINE p4 == a \o b \o c \o d
             p5 == p4 \o f
             p6 == p5 \o g
             p7 == p6 \o h
             p8 == p7 \o m
  <2>9. /\ IsSeq(p4) /\ IsSeq(f) /\ IsSeq(p5) /\ IsSeq(g) /\ IsSeq(p6) /\ IsSeq(h)
        /\ IsSeq(p7) /\ IsSeq(m) /\ IsSeq(p8) /\ IsSeq(n)
    BY <2>3, <2>4, <2>5, <2>6, <2>7, <1>f, <1>g, <1>m, <1>n DEF Leads
  <2> HIDE DEF p4
  <2>10. p5 = <<>> => f = <<>>
    BY <2>9, BothEmpty
  <2> HIDE DEF p5
  <2>11. p6 = <<>> => p5 = <<>>
    BY <2>9, BothEmpty
  <2> HIDE DEF p6
  <2>12. p7 = <<>> => p6 = <<>>
    BY <2>9, BothEmpty
  <2> HIDE DEF p7
  <2>13. p8 = <<>> => p7 = <<>> /\ m = <<>>
    BY <2>9, BothEmpty
  <2> HIDE DEF p8
  <2>14. p8 \o n = <<>> => p8 = <<>>
    BY <2>9, BothEmpty
  <2>15. p8 \o n = <<>> => f = <<>> /\ m = <<>>
    BY <2>10, <2>11, <2>12, <2>13, <2>14
  <2> QED BY <2>8, <2>15 DEF p4, p5, p6, p7, p8
<1> QED BY <1>0, <1>4, <1>5

LEMMA SnapFields ==
  ASSUME NEW T, NEW E, NEW Q
  PROVE  /\ Snap(T, E, Q).tables = T /\ Snap(T, E, Q).enums = E
         /\ Snap(T, E, Q).sequences = Q
BY DEF Snap

LEMMA SameDependencies ==
  ASSUME NEW V, NEW G, NEW k, DOMAIN V[k].columns = DOMAIN G[k].columns,
         \A c \in DOMAIN G[k].columns :
           V[k].columns[c].references = G[k].columns[c].references
  PROVE  Dependencies(V, k) = Dependencies(G, k)
<1> DEFINE C == V[k].columns
           D == G[k].columns
<1>1. DOMAIN C = DOMAIN D /\ \A c \in DOMAIN D : C[c].references = D[c].references
  OBVIOUS
<1>2. Dependencies(V, k) = {C[c].references[1] : c \in {d \in DOMAIN C : C[d].references # None}} \ {k}
  BY DEF Dependencies
<1>3. Dependencies(G, k) = {D[c].references[1] : c \in {d \in DOMAIN D : D[d].references # None}} \ {k}
  BY DEF Dependencies
<1> HIDE DEF C, D
<1>4. {d \in DOMAIN C : C[d].references # None} = {d \in DOMAIN D : D[d].references # None}
  BY <1>1
<1> QED BY <1>1, <1>2, <1>3, <1>4

(* It is a snapshot again, whatever has gone wrong. *)
LEMMA OutcomeIsSnapshot ==
  ASSUME NEW prev, IsSnapshot(prev), NEW curr, IsSnapshot(curr),
         NEW r \in TableRenames(prev, curr), NEW cr \in ColumnRenames(prev, curr, r),
         NEW u, Outcome(u, prev, curr, r, cr)
  PROVE  IsSnapshot(u)
<1> DEFINE G == curr.tables
           P == Stayed(prev.tables, G, r)
           A == AlteredTables(P, G, cr)
<1>1. PICK V, F : /\ u = Snap(V, F, curr.sequences)
                  /\ Tables(V, P, G, cr) /\ Enums(F, prev, curr)
  BY DEF Outcome
<1>2. Diff(P, G, cr)
  BY TablesDiff
<1>3. IsTables(G) /\ Closed(G) /\ DOMAIN G \subseteq ToSet(TableOrder)
  BY DEF IsSnapshot
<1> HIDE DEF G, P, A
<1>4. DOMAIN A = DOMAIN G /\ \A k \in DOMAIN G : A[k] = Become(k, P, G, cr)
  BY DEF A, AlteredTables
<1>5. AreTables(V) /\ DOMAIN V = DOMAIN G
      /\ \A k \in DOMAIN G : V[k].columns = A[k].columns /\ V[k].constraints = A[k].constraints
  BY <1>1, <1>4 DEF Tables, SameButIndexes, A
<1>6. ASSUME NEW k \in DOMAIN G
      PROVE  /\ IsTable(A[k]) /\ DOMAIN A[k].columns = DOMAIN G[k].columns
             /\ \A c \in DOMAIN G[k].columns : A[k].columns[c].references = G[k].columns[c].references
  <2> DEFINE t == Become(k, P, G, cr)
  <2>1. /\ IsTable(t) /\ DOMAIN t.columns = DOMAIN G[k].columns
        /\ \A c \in DOMAIN G[k].columns : t.columns[c].references = G[k].columns[c].references
    BY <1>2, BecomeTable
  <2>2. A[k] = t
    BY <1>4
  <2> HIDE DEF t
  <2> QED BY <2>1, <2>2
<1>7. IsTables(V)
  <2>1. ASSUME NEW k \in DOMAIN V
        PROVE  IsTable(V[k])
    <3> DEFINE v == V[k]
               a == A[k]
    <3>1. v = Tab(v.columns, v.indexes, v.constraints) /\ IsMap(v.indexes)
      BY <1>5 DEF AreTables
    <3>2. v.columns = a.columns /\ v.constraints = a.constraints /\ IsTable(a)
      BY <1>5, <1>6
    <3> HIDE DEF v, a
    <3>3. IsTable(v)
      BY <3>1, <3>2 DEF IsTable
    <3> QED BY <3>3 DEF v
  <2> QED BY <1>5, <2>1 DEF IsTables, AreTables
<1>8. Closed(V)
  <2>1. ASSUME NEW k \in DOMAIN G
        PROVE  Dependencies(V, k) = Dependencies(G, k)
    <3> DEFINE C == V[k].columns
               D == G[k].columns
               B == A[k].columns
    <3>1. C = B
      BY <1>5
    <3>2. DOMAIN B = DOMAIN D /\ \A c \in DOMAIN D : B[c].references = D[c].references
      BY <1>6
    <3> HIDE DEF B
    <3>3. DOMAIN C = DOMAIN D /\ \A c \in DOMAIN D : C[c].references = D[c].references
      <4> HIDE DEF C, D
      <4> QED BY <3>1, <3>2
    <3> QED BY <3>3, SameDependencies
  <2> QED BY <1>3, <1>5, <2>1 DEF Closed
<1>9. AreEnums(F) /\ IsFiniteSet(DOMAIN F)
  <2> DEFINE H == curr.enums
             SE == StayedEnums(prev, curr)
  <2>1. IsFcn(F) /\ DOMAIN F = DOMAIN H /\ \A e \in DOMAIN F : Full(F[e], e, SE, H)
    BY <1>1 DEF Enums
  <2>2. AreEnums(H) /\ IsFiniteSet(DOMAIN H)
    BY DEF IsSnapshot
  <2> HIDE DEF H, SE
  <2>3. ASSUME NEW e \in DOMAIN F
        PROVE  IsEnum(F[e])
    <3>1. Full(F[e], e, SE, H) /\ IsEnum(H[e])
      BY <2>1, <2>2 DEF AreEnums
    <3> QED BY <3>1 DEF Full, Filled
  <2> QED BY <2>1, <2>2, <2>3 DEF AreEnums
<1>10. IsFiniteSet(curr.sequences)
  BY DEF IsSnapshot
<1> QED BY <1>1, <1>3, <1>5, <1>7, <1>8, <1>9, <1>10, SnapFields DEF IsSnapshot

(* Nothing has gone wrong in the table. *)
AltersWell(k, P, G, cr) ==
  ~ForgetsKey(P[k], G[k], cr[k]) /\ ~ConfusesNames(k, P[k], G[k], cr[k])

LEMMA AlteredTablesExactly ==
  ASSUME NEW P, NEW G, NEW cr, Diff(P, G, cr), \A k \in DOMAIN P : AltersWell(k, P, G, cr)
  PROVE  AlteredTables(P, G, cr) = G
<1>1. ASSUME NEW k \in DOMAIN G
      PROVE  Become(k, P, G, cr) = G[k]
  <2>1. CASE k \notin DOMAIN P
    BY <2>1 DEF Become
  <2>2. CASE k \in DOMAIN P
    <3> DEFINE p == P[k]
               q == G[k]
               r == cr[k]
    <3>1. IsTable(p) /\ IsTable(q)
      BY <2>2 DEF Diff, IsTables
    <3>2. ~ForgetsKey(p, q, r) /\ ~ConfusesNames(k, p, q, r)
      BY <2>2 DEF AltersWell
    <3>3. Become(k, P, G, cr) = Tab(NewColumns(k, p, q, r), q.indexes, NewConstraints(k, p, q, r))
      BY <2>2 DEF Become
    <3> HIDE DEF p, q, r
    <3>4. NewColumns(k, p, q, r) = q.columns /\ NewConstraints(k, p, q, r) = q.constraints
      BY <3>1, <3>2, AlteredExactly
    <3>5. q = Tab(q.columns, q.indexes, q.constraints)
      BY <3>1 DEF IsTable
    <3>6. Become(k, P, G, cr) = q
      BY <3>3, <3>4, <3>5
    <3> QED BY <3>6 DEF q
  <2> QED BY <2>1, <2>2
<1>2. AlteredTables(P, G, cr) = [k \in DOMAIN G |-> G[k]]
  BY <1>1 DEF AlteredTables
<1> QED BY <1>2 DEF Diff, IsTables, IsFcn

(* It is the new snapshot, if nothing has gone wrong. *)
LEMMA OutcomeExactly ==
  ASSUME NEW prev, IsSnapshot(prev), NEW curr, IsSnapshot(curr),
         NEW r \in TableRenames(prev, curr), NEW cr \in ColumnRenames(prev, curr, r),
         NEW u, Outcome(u, prev, curr, r, cr),
         NEW P, P = Stayed(prev.tables, curr.tables, r),
         NotShared(P, curr.tables),
         \A k \in DOMAIN P : AltersWell(k, P, curr.tables, cr),
         \A e \in DOMAIN prev.enums \cap DOMAIN curr.enums :
           ~Clash(e, prev.enums[e], curr.enums[e])
  PROVE  u = curr
<1> DEFINE G == curr.tables
<1>1. PICK V, F : /\ u = Snap(V, F, curr.sequences)
                  /\ Tables(V, P, G, cr) /\ Enums(F, prev, curr)
  BY DEF Outcome
<1>2. Diff(P, G, cr)
  BY TablesDiff
<1>3. V = G
  <2>1. \A k \in DOMAIN P : AltersWell(k, P, G, cr)
    OBVIOUS
  <2>2. V = AlteredTables(P, G, cr)
    BY <1>1 DEF Tables
  <2> HIDE DEF G
  <2> QED BY <1>2, <2>1, <2>2, AlteredTablesExactly
<1>4. F = curr.enums
  <2> DEFINE H == curr.enums
             SE == StayedEnums(prev, curr)
  <2>1. IsFcn(F) /\ DOMAIN F = DOMAIN H /\ \A e \in DOMAIN F : Full(F[e], e, SE, H)
    BY <1>1 DEF Enums
  <2>2. AreEnums(H)
    BY DEF IsSnapshot
  <2>3. \A e \in DOMAIN SE : ~Clash(e, SE[e], H[e])
    BY DEF StayedEnums, Restrict
  <2> HIDE DEF H, SE
  <2>4. ASSUME NEW e \in DOMAIN F
        PROVE  F[e] = H[e]
    <3>1. Full(F[e], e, SE, H)
      BY <2>1
    <3>2. CASE e \notin DOMAIN SE
      BY <3>1, <3>2 DEF Full
    <3>3. CASE e \in DOMAIN SE
      BY <2>3, <3>1, <3>3 DEF Full, Filled
    <3> QED BY <3>2, <3>3
  <2>5. F = H
    BY <2>1, <2>2, <2>4 DEF IsFcn, AreEnums
  <2> QED BY <2>5 DEF H
<1>5. curr = Snap(curr.tables, curr.enums, curr.sequences)
  BY DEF IsSnapshot
<1> QED BY <1>1, <1>3, <1>4, <1>5

-----------------------------------------------------------------------------
(* An empty script: nothing was to be done.                                 *)

LEMMA EachEmpty ==
  ASSUME NEW ss, IsSeqOfSeqs(ss), FlattenSeq(ss) = <<>>
  PROVE  \A i \in 1..Len(ss) : ss[i] = <<>>
<1>1. UNION {ToSet(ss[i]) : i \in 1..Len(ss)} = {}
  BY Flat, NoItems
<1>2. ASSUME NEW i \in 1..Len(ss)
      PROVE  ss[i] = <<>>
  <2> DEFINE s == ss[i]
  <2>1. IsSeq(s) /\ ToSet(s) = {}
    BY <1>1 DEF IsSeqOfSeqs
  <2> HIDE DEF s
  <2>2. s \o <<>> = s
    BY <2>1, ConcatNothing
  <2>3. Len(s) = 0
    <3>1. Len(s) \in Nat /\ DOMAIN s = 1..Len(s)
      BY <2>1, SeqIsFunction
    <3>2. DOMAIN s = {}
      BY <2>1 DEF ToSet
    <3> QED BY <3>1, <3>2
  <2>4. s \in Seq({}) /\ Len(s) = 0
    BY <2>1, <2>3 DEF IsSeq
  <2>5. s = <<>>
    BY <2>4
  <2> QED BY <2>5 DEF s
<1> QED BY <1>2

(* A statement for each member of a set. *)
OfEach(script, S) ==
  script = [i \in DOMAIN SetToSeq(S) |-> script[i]]

LEMMA OfEachEmpty ==
  ASSUME NEW S, IsFiniteSet(S), NEW script, OfEach(script, S)
  PROVE  IsSeq(script) /\ (script = <<>> => S = {})
<1> DEFINE e == SetToSeq(S)
<1>1. IsSeq(e) /\ ToSet(e) = S
  BY SetToSeqLists DEF Lists
<1>2. script = [i \in DOMAIN e |-> script[i]]
  BY DEF OfEach
<1> HIDE DEF e
<1>3. IsSeq(script) /\ Len(script) = Len(e) /\ DOMAIN e = 1..Len(e)
  BY <1>1, <1>2, OnePerItem
<1>4. ASSUME script = <<>>
      PROVE  S = {}
  <2>1. Len(e) = 0
    BY <1>3, <1>4, NoItems
  <2>2. DOMAIN e = {}
    BY <1>3, <2>1
  <2>3. ToSet(e) = {}
    BY <2>2 DEF ToSet
  <2> QED BY <1>1, <2>3
<1> QED BY <1>3, <1>4

LEMMA WhenEmpty ==
  ASSUME NEW b, NEW x
  PROVE  IsSeq(When(b, x)) /\ (When(b, x) = <<>> => ~b)
<1>1. IsSeq(When(b, x)) /\ ToSet(When(b, x)) = {y \in {x} : b}
  BY OneItem
<1>2. ASSUME When(b, x) = <<>>
      PROVE  ~b
  <2>1. {y \in {x} : b} = {}
    BY <1>1, <1>2, NoItems
  <2> QED BY <2>1
<1> QED BY <1>1, <1>2

LEMMA AlterColumnEmpty ==
  ASSUME NEW k, NEW c, NEW p, NEW q
  PROVE  /\ IsSeq(AlterColumn(k, c, p, q))
         /\ AlterColumn(k, c, p, q) = <<>> => ~(p.unique /\ ~q.unique)
<1> DEFINE a == When(p.type # q.type,
                     [op |-> "alterColumnType", key |-> k, column |-> c, type |-> q.type])
           b == When(q.unique /\ ~p.unique,
                     [op |-> "addUnique", key |-> k, column |-> c])
           w == p.unique /\ ~q.unique
           d == When(w, [op |-> "dropConstraint", key |-> k, name |-> AutoName(k, c, "key")])
           f == When(p.references \notin {q.references, None},
                     [op |-> "dropForeignKey", key |-> k, column |-> c,
                      name |-> AutoName(k, c, "fkey")])
           g == When(q.references \notin {p.references, None},
                     [op |-> "addForeignKey", key |-> k, column |-> c,
                      name |-> AutoName(k, c, "fkey"), to |-> q.references])
<1>1. AlterColumn(k, c, p, q) = a \o b \o d \o f \o g
  BY DEF AlterColumn
<1>2. IsSeq(a) /\ IsSeq(b) /\ IsSeq(f) /\ IsSeq(g)
  BY WhenEmpty
<1>3. IsSeq(d) /\ (d = <<>> => ~w)
  <2> HIDE DEF w
  <2> QED BY WhenEmpty
<1> HIDE DEF a, b, d, f, g, w
<1> DEFINE ab == a \o b
           abd == ab \o d
           abdf == abd \o f
<1>4. IsSeq(ab)
  BY <1>2, BothEmpty
<1> HIDE DEF ab
<1>5. IsSeq(abd) /\ (abd = <<>> => d = <<>>)
  BY <1>3, <1>4, BothEmpty
<1> HIDE DEF abd
<1>6. IsSeq(abdf) /\ (abdf = <<>> => abd = <<>>)
  BY <1>2, <1>5, BothEmpty
<1> HIDE DEF abdf
<1>7. IsSeq(abdf \o g) /\ (abdf \o g = <<>> => abdf = <<>>)
  BY <1>2, <1>6, BothEmpty
<1>8. abdf \o g = <<>> => ~w
  BY <1>3, <1>5, <1>6, <1>7
<1> QED BY <1>1, <1>7, <1>8 DEF ab, abd, abdf, w

(* The table is one that stays as it is. *)
Untouched(p, q, r) ==
  /\ Changed(p.indexes, q.indexes) = {}
  /\ Changed(p.constraints, q.constraints) = {}
  /\ \A c \in DOMAIN q.columns :
       OldKey(r, c) \in DOMAIN p.columns =>
         ~(p.columns[OldKey(r, c)].unique /\ ~q.columns[c].unique)

LEMMA AlterTableEmpty ==
  ASSUME NEW k, NEW p, IsTable(p), NEW q, IsTable(q), NEW r,
         IsRenaming(r, p.columns, q.columns)
  PROVE  /\ IsSeq(AlterTable(k, p, q, r))
         /\ AlterTable(k, p, q, r) = <<>> => Untouched(p, q, r)
<1> DEFINE C == p.columns
           G == q.columns
           S1 == Changed(p.indexes, q.indexes)
           S3 == DOMAIN C \ (DOMAIN G \cup DOMAIN r)
           S5 == Changed(p.constraints, q.constraints)
           S6 == Changed(q.constraints, p.constraints)
           S7 == Changed(q.indexes, p.indexes)
           e4 == SetToSeq(DOMAIN G)
           Part(c) == IF OldKey(r, c) \in DOMAIN C THEN AlterColumn(k, c, C[OldKey(r, c)], G[c])
                      ELSE <<[op |-> "addColumn", key |-> k, column |-> c, def |-> G[c]]>>
           pa == ForEach(S1, LAMBDA n : [op |-> "dropIndex", name |-> n])
           pb == ForEach(DOMAIN r, LAMBDA c : [op |-> "renameColumn", key |-> k, column |-> c, to |-> r[c]])
           pc == ForEach(S3, LAMBDA c : [op |-> "dropColumn", key |-> k, column |-> c])
           ss == ForEach(DOMAIN G, LAMBDA c :
                   IF OldKey(r, c) \in DOMAIN C THEN AlterColumn(k, c, C[OldKey(r, c)], G[c])
                   ELSE <<[op |-> "addColumn", key |-> k, column |-> c, def |-> G[c]]>>)
           pd == FlattenSeq(ss)
           pe == ForEach(S5, LAMBDA n : [op |-> "dropConstraint", key |-> k, name |-> n])
           pf == ForEach(S6, LAMBDA n : [op |-> "addConstraint", key |-> k, name |-> n,
                                         columns |-> q.constraints[n]])
           pg == CreateIndexes(k, q, S7)
<1>1. AlterTable(k, p, q, r) = pa \o pb \o pc \o pd \o pe \o pf \o pg
  BY DEF AlterTable, OldKey
<1>2. /\ OfEach(pa, S1) /\ OfEach(pb, DOMAIN r) /\ OfEach(pc, S3) /\ OfEach(pe, S5)
      /\ OfEach(pf, S6) /\ OfEach(pg, S7)
  BY DEF OfEach, ForEach, CreateIndexes
<1>3. ss = [i \in DOMAIN e4 |-> Part(e4[i])]
  BY DEF ForEach
<1>4. /\ IsFiniteSet(S1) /\ IsFiniteSet(DOMAIN r) /\ IsFiniteSet(S3) /\ IsFiniteSet(S5)
      /\ IsFiniteSet(S6) /\ IsFiniteSet(S7) /\ IsFiniteSet(DOMAIN G)
  <2>0. /\ IsFiniteSet(DOMAIN C) /\ IsFiniteSet(DOMAIN G) /\ IsFiniteSet(DOMAIN p.indexes)
        /\ IsFiniteSet(DOMAIN q.indexes) /\ IsFiniteSet(DOMAIN p.constraints)
        /\ IsFiniteSet(DOMAIN q.constraints)
    BY DEF IsTable, IsMap
  <2>1. DOMAIN r \subseteq DOMAIN C /\ S3 \subseteq DOMAIN C
    BY DEF IsRenaming
  <2>2. /\ S5 \subseteq DOMAIN p.constraints /\ S6 \subseteq DOMAIN q.constraints
        /\ S7 \subseteq DOMAIN q.indexes /\ S1 \subseteq DOMAIN p.indexes
    BY DEF Changed
  <2> HIDE DEF S1, S3, S5, S6, S7, C, G
  <2> QED BY <2>0, <2>1, <2>2, FS_Subset
<1>5. IsSeq(e4) /\ ToSet(e4) = DOMAIN G /\ Lists(e4, DOMAIN G)
  BY <1>4, SetToSeqLists DEF Lists
<1>6. \A c : /\ IsSeq(Part(c))
             /\ Part(c) = <<>> => OldKey(r, c) \in DOMAIN C
             /\ Part(c) = <<>> => ~(C[OldKey(r, c)].unique /\ ~G[c].unique)
  <2>1. ASSUME NEW c, OldKey(r, c) \in DOMAIN C
        PROVE  IsSeq(Part(c)) /\ (Part(c) = <<>> => ~(C[OldKey(r, c)].unique /\ ~G[c].unique))
    <3> DEFINE x == C[OldKey(r, c)]
               y == G[c]
    <3>1. Part(c) = AlterColumn(k, c, x, y)
      BY <2>1
    <3> HIDE DEF x, y, Part
    <3>2. IsSeq(Part(c)) /\ (Part(c) = <<>> => ~(x.unique /\ ~y.unique))
      BY <3>1, AlterColumnEmpty
    <3> QED BY <3>2 DEF x, y
  <2>2. ASSUME NEW c, OldKey(r, c) \notin DOMAIN C
        PROVE  IsSeq(Part(c)) /\ Part(c) # <<>>
    <3> DEFINE st == [op |-> "addColumn", key |-> k, column |-> c, def |-> G[c]]
    <3>1. Part(c) = <<st>>
      BY <2>2
    <3> HIDE DEF st, Part
    <3>2. IsSeq(<<st>>) /\ Len(<<st>>) = 1 /\ Len(<<>>) = 0
      BY Singleton, NoItems
    <3>3. <<st>> # <<>>
      BY <3>2
    <3> QED BY <3>1, <3>2, <3>3
  <2> HIDE DEF Part
  <2> QED BY <2>1, <2>2
<1> HIDE DEF Part, e4, ss
<1>7. IsSeqOfSeqs(ss) /\ DOMAIN e4 = 1..Len(e4) /\ Len(ss) = Len(e4)
  <2>1. ss = [i \in DOMAIN e4 |-> ss[i]]
    BY <1>3
  <2>2. IsSeq(ss) /\ Len(ss) = Len(e4) /\ DOMAIN e4 = 1..Len(e4)
    BY <1>5, <2>1, OnePerItem
  <2>3. ASSUME NEW i \in 1..Len(ss)
        PROVE  IsSeq(ss[i])
    <3>1. ss[i] = Part(e4[i])
      BY <1>3, <2>2
    <3> QED BY <1>6, <3>1
  <2> QED BY <2>2, <2>3 DEF IsSeqOfSeqs
<1>8. IsSeq(pd) /\ (pd = <<>> => \A c \in DOMAIN G : Part(c) = <<>>)
  <2>1. IsSeq(pd)
    BY <1>7, Flat
  <2>2. ASSUME pd = <<>>, NEW c \in DOMAIN G
        PROVE  Part(c) = <<>>
    <3>1. PICK i \in DOMAIN e4 : e4[i] = c
      BY <1>5 DEF ToSet
    <3>2. i \in 1..Len(ss) /\ ss[i] = Part(c)
      BY <1>3, <1>7, <3>1
    <3> QED BY <1>7, <2>2, <3>2, EachEmpty
  <2> QED BY <2>1, <2>2
<1>9. /\ IsSeq(pa) /\ (pa = <<>> => S1 = {}) /\ IsSeq(pb) /\ IsSeq(pc)
      /\ IsSeq(pe) /\ (pe = <<>> => S5 = {}) /\ IsSeq(pf) /\ IsSeq(pg)
  <2> HIDE DEF pa, pb, pc, pe, pf, pg, S1, S3, S5, S6, S7, G
  <2> QED BY <1>2, <1>4, OfEachEmpty
<1> HIDE DEF pa, pb, pc, pd, pe, pf, pg
<1> DEFINE x2 == pa \o pb
           x3 == x2 \o pc
           x4 == x3 \o pd
           x5 == x4 \o pe
           x6 == x5 \o pf
           x7 == x6 \o pg
<1>10. /\ IsSeq(x7)
       /\ x7 = <<>> => pa = <<>> /\ pd = <<>> /\ pe = <<>>
  <2> HIDE DEF S1, S5, G
  <2>1. IsSeq(x2) /\ (x2 = <<>> => pa = <<>>)
    BY <1>9, BothEmpty
  <2> HIDE DEF x2
  <2>2. IsSeq(x3) /\ (x3 = <<>> => x2 = <<>>)
    BY <1>9, <2>1, BothEmpty
  <2> HIDE DEF x3
  <2>3. IsSeq(x4) /\ (x4 = <<>> => x3 = <<>> /\ pd = <<>>)
    BY <1>8, <2>2, BothEmpty
  <2> HIDE DEF x4
  <2>4. IsSeq(x5) /\ (x5 = <<>> => x4 = <<>> /\ pe = <<>>)
    BY <1>9, <2>3, BothEmpty
  <2> HIDE DEF x5
  <2>5. IsSeq(x6) /\ (x6 = <<>> => x5 = <<>>)
    BY <1>9, <2>4, BothEmpty
  <2> HIDE DEF x6
  <2>6. IsSeq(x7) /\ (x7 = <<>> => x6 = <<>>)
    BY <1>9, <2>5, BothEmpty
  <2> QED BY <2>1, <2>2, <2>3, <2>4, <2>5, <2>6
<1>11. AlterTable(k, p, q, r) = x7
  BY <1>1
<1> HIDE DEF x7
<1>12. ASSUME x7 = <<>>
       PROVE  Untouched(p, q, r)
  <2>1. S1 = {} /\ S5 = {} /\ \A c \in DOMAIN G : Part(c) = <<>>
    <3> HIDE DEF S1, S5, G
    <3> QED BY <1>8, <1>9, <1>10, <1>12
  <2>2. \A c \in DOMAIN G : ~(C[OldKey(r, c)].unique /\ ~G[c].unique)
    <3> HIDE DEF C, G
    <3> QED BY <1>6, <2>1
  <2> QED BY <2>1, <2>2 DEF Untouched
<1> QED BY <1>10, <1>11, <1>12

LEMMA EmptyEnums ==
  ASSUME NEW prev, IsSnapshot(prev), NEW curr, IsSnapshot(curr), ~Refused(prev, curr),
         AlterEnums(prev, curr, "up") = <<>>
  PROVE  \A e \in DOMAIN prev.enums \cap DOMAIN curr.enums :
           ~Clash(e, prev.enums[e], curr.enums[e])
<1> DEFINE P == StayedEnums(prev, curr)
           G == curr.enums
<1>1. EnumsGrow(P, G)
  BY EnumsGrowing
<1>2. PICK ss, o : /\ AlterEnums(prev, curr, "up") = FlattenSeq(ss)
                   /\ Lists(o, DOMAIN G) /\ EnumParts(ss, o, P, G)
  BY EnumsAreParts
<1>3. \A e \in DOMAIN prev.enums \cap DOMAIN G : e \in DOMAIN P /\ P[e] = prev.enums[e]
  BY EnumsGrowing
<1> HIDE DEF P, G
<1>4. IsSeqOfSeqs(ss)
  BY <1>1, <1>2, EnumsBlock
<1>5. \A i \in 1..Len(ss) : ss[i] = <<>>
  BY <1>2, <1>4, EachEmpty
<1>6. IsSeq(o) /\ ToSet(o) = DOMAIN G /\ DOMAIN o = 1..Len(o) /\ Len(ss) = Len(o)
  BY <1>2, OnePerItem DEF Lists, EnumParts
<1>7. ASSUME NEW e \in DOMAIN prev.enums \cap DOMAIN G
      PROVE  ~Clash(e, prev.enums[e], G[e])
  <2> DEFINE old == P[e]
             new == G[e]
             add == Added(old, new)
             part == [i \in DOMAIN add |-> AddValue(e, add[i], old, new)]
  <2>1. PICK i \in DOMAIN o : o[i] = e
    BY <1>6 DEF ToSet
  <2>2. ss[i] = EnumPart(e, P, G) /\ i \in 1..Len(ss)
    BY <1>2, <1>6, <2>1 DEF EnumParts
  <2>3. EnumPart(e, P, G) = part
    BY <1>3 DEF EnumPart
  <2>4. part = <<>>
    BY <1>5, <2>2, <2>3
  <2> HIDE DEF add, old, new
  <2>5. DOMAIN add = {}
    <3>1. DOMAIN part = DOMAIN add
      OBVIOUS
    <3>2. DOMAIN part = {}
      BY <2>4
    <3> QED BY <3>1, <3>2
  <2>6. ~Clash(e, old, new)
    BY <2>5 DEF Clash, add
  <2> QED BY <1>3, <2>6 DEF old, new
<1> QED BY <1>7 DEF G

LEMMA UntouchedWell ==
  ASSUME NEW k, NEW p, NEW q, NEW r, Untouched(p, q, r)
  PROVE  ~ForgetsKey(p, q, r) /\ ~ConfusesNames(k, p, q, r)
<1> DEFINE S == Stayed(p.columns, q.columns, r)
<1>1. \A c \in DOMAIN S : ~(S[c].unique /\ ~q.columns[c].unique)
  BY DEF Stayed, Untouched
<1>2. Changed(p.constraints, q.constraints) = {}
  BY DEF Untouched
<1> HIDE DEF S
<1> QED BY <1>1, <1>2 DEF ForgetsKey, ConfusesNames, S

LEMMA EmptyTables ==
  ASSUME NEW prev, IsSnapshot(prev), NEW curr, IsSnapshot(curr), IsSeq(TableOrder),
         NEW r \in TableRenames(prev, curr), NEW cr \in ColumnRenames(prev, curr, r),
         NEW P, P = Stayed(prev.tables, curr.tables, r),
         AlterTables(prev, curr, r, cr) = <<>>
  PROVE  /\ NotShared(P, curr.tables)
         /\ \A k \in DOMAIN P : AltersWell(k, P, curr.tables, cr)
<1> DEFINE G == curr.tables
<1>1. Diff(P, G, cr)
  BY TablesDiff
<1>2. PICK ss, o : /\ AlterTables(prev, curr, r, cr) = FlattenSeq(ss)
                   /\ Lists(o, DOMAIN G) /\ TableParts(ss, o, P, G, cr)
  BY TablesAreParts
<1> HIDE DEF G
<1>3. IsSeqOfSeqs(ss)
  BY <1>1, <1>2, TablesBlockAnyway
<1>4. \A i \in 1..Len(ss) : ss[i] = <<>>
  BY <1>2, <1>3, EachEmpty
<1>5. IsSeq(o) /\ ToSet(o) = DOMAIN G /\ DOMAIN o = 1..Len(o) /\ Len(ss) = Len(o)
  BY <1>2, OnePerItem DEF Lists, TableParts
<1>6. ASSUME NEW k \in DOMAIN P
      PROVE  AltersWell(k, P, G, cr) /\ Changed(P[k].indexes, G[k].indexes) = {}
  <2> DEFINE p == P[k]
             q == G[k]
             f == cr[k]
  <2>1. k \in DOMAIN G /\ IsTable(p) /\ IsTable(q) /\ IsRenaming(f, p.columns, q.columns)
    BY <1>1 DEF Diff, IsTables, AreRenamings
  <2>2. PICK i \in DOMAIN o : o[i] = k
    BY <1>5, <2>1 DEF ToSet
  <2>3. ss[i] = TablePart(k, P, G, cr) /\ i \in 1..Len(ss)
    BY <1>2, <1>5, <2>2 DEF TableParts
  <2>4. AlterTable(k, p, q, f) = <<>>
    BY <1>4, <2>3 DEF TablePart
  <2> HIDE DEF p, q, f
  <2>5. Untouched(p, q, f)
    BY <2>1, <2>4, AlterTableEmpty
  <2>6. ~ForgetsKey(p, q, f) /\ ~ConfusesNames(k, p, q, f)
    BY <2>5, UntouchedWell
  <2>7. Changed(p.indexes, q.indexes) = {}
    BY <2>5 DEF Untouched
  <2> QED BY <2>6, <2>7 DEF AltersWell, p, q, f
<1>7. NotShared(P, G)
  BY <1>6 DEF NotShared
<1> QED BY <1>6, <1>7 DEF G

(* generate writes nothing only where the schema is what was recorded. *)
THEOREM NothingWritten ==
  ASSUME NEW prev, IsSnapshot(prev), NEW curr, IsSnapshot(curr), IsSeq(TableOrder),
         ~Refused(prev, curr),
         NEW r \in TableRenames(prev, curr), NEW cr \in ColumnRenames(prev, curr, r),
         GenerateMigration(prev, curr, "up", r, cr) = <<>>
  PROVE  prev = curr
<1> DEFINE P == Stayed(prev.tables, curr.tables, r)
<1>1. PICK u : /\ Leads(GenerateMigration(prev, curr, "up", r, cr), prev, u)
               /\ Outcome(u, prev, curr, r, cr)
  BY GenerateLeads
<1>2. u = prev
  BY <1>1, ReplayFew DEF Leads
<1>3. AlterEnums(prev, curr, "up") = <<>> /\ AlterTables(prev, curr, r, cr) = <<>>
  BY GenerateLeads
<1>4. \A e \in DOMAIN prev.enums \cap DOMAIN curr.enums :
        ~Clash(e, prev.enums[e], curr.enums[e])
  BY <1>3, EmptyEnums
<1>p. P = Stayed(prev.tables, curr.tables, r)
  OBVIOUS
<1> HIDE DEF P
<1>5. NotShared(P, curr.tables) /\ \A k \in DOMAIN P : AltersWell(k, P, curr.tables, cr)
  BY <1>3, <1>p, EmptyTables
<1>6. u = curr
  BY <1>1, <1>4, <1>5, <1>p, OutcomeExactly
<1> QED BY <1>2, <1>6
=============================================================================
