---------------------------- MODULE ConsoleProofs ----------------------------
(***************************************************************************)
(* Proofs that the REPL sends the statements that were typed, and that exec *)
(* carries out those that PostgreSQL sees in a script.                      *)
(*                                                                          *)
(* The second needs the splitter and the lexer to cut alike.  Both go       *)
(* through a script by recursive functions: an induction is a least         *)
(* counterexample (Smallest), a recursive function exists because its loop  *)
(* comes to an end (LoopDefined), and then one lemma per kind of text says  *)
(* that the splitter goes in one step where the lexer goes character by     *)
(* character (Passed).                                                      *)
(***************************************************************************)
EXTENDS Console, SequenceTheorems, NaturalsInduction, WellFoundedInduction, TLAPS

(* A letter or a digit is no blank and no delimiter. *)
LEMMA Characters ==
  /\ "E" \in Letter
  /\ \A c \in Letter \cup Digit :
       c \notin Blank /\ c \notin {"'", DoubleQuote, "-", "/", "*", "$", Semicolon, "\\"}
BY AlphabetAssumption DEF AlphabetAssumption

(* A double quote and a semicolon are no other delimiter, letter or digit. *)
LEMMA QuotesDiffer ==
  /\ DoubleQuote \notin {"'", "-", "/", "*", "$", Semicolon, "\\", "\n", " ", "none"}
  /\ Semicolon \notin {"'", "-", "/", "*", "$", DoubleQuote, "\\", "\n", " ", "none"}
  /\ DoubleQuote \notin Letter \cup Digit
  /\ Semicolon \notin Letter \cup Digit
<1>1. DoubleQuote \notin {"'", "-", "/", "*", "$", Semicolon, "\\", "\n", " ", "none"}
  BY Zenon DEF DoubleQuote, Semicolon
<1>2. Semicolon \notin {"'", "-", "/", "*", "$", DoubleQuote, "\\", "\n", " ", "none"}
  BY Zenon DEF DoubleQuote, Semicolon
<1> QED BY <1>1, <1>2, Characters

(* A set of numbers has a least element. *)
LEMMA Smallest ==
  ASSUME NEW S, S \subseteq Nat, S # {}
  PROVE  \E x \in S : \A y \in S : x <= y
<1> DEFINE R == {p \in Nat \X Nat : p[1] < p[2]}
<1>1. IsWellFoundedOn(R, Nat)
  BY NatLessThanWellFounded DEF OpToRel
<1>2. PICK x \in S : \A y \in S : ~(<<y, x>> \in R)
  BY <1>1, WFMin
<1>3. ASSUME NEW y \in S
      PROVE  x <= y
  <2>1. x \in Nat /\ y \in Nat
    OBVIOUS
  <2>2. ~(y < x)
    BY <1>2, <2>1
  <2> QED BY <2>1, <2>2
<1> QED BY <1>3

(* Induction upwards from a number. *)
LEMMA Upwards ==
  ASSUME NEW T, NEW a \in Nat, a \in T,
         \A i \in Nat : i >= a /\ i \in T => i + 1 \in T
  PROVE  \A i \in Nat : i >= a => i \in T
<1> DEFINE F == {i \in Nat : i >= a /\ i \notin T}
<1> SUFFICES ASSUME F # {}
             PROVE  FALSE
  OBVIOUS
<1>1. PICK x \in F : \A y \in F : x <= y
  BY Smallest
<1>2. x \in Nat /\ x >= a /\ x # a /\ x \notin T
  BY <1>1
<1>3. x - 1 \in Nat /\ x - 1 >= a /\ (x - 1) + 1 = x
  BY <1>2
<1>4. x - 1 \notin F
  BY <1>1, <1>3
<1> QED BY <1>2, <1>3, <1>4

(* What holds of everything after i holds of i, and of all after n anyway. *)
FromAbove(T, n) ==
  \A i \in Nat : (\A k \in Nat : i < k /\ i <= n => k \in T) => i \in T

(* Induction downwards from the end of a script. *)
LEMMA Downwards ==
  ASSUME NEW T, NEW n \in Nat, FromAbove(T, n)
  PROVE  \A i \in Nat : i \in T
<1>0. \A i \in Nat : (\A k \in Nat : i < k /\ i <= n => k \in T) => i \in T
  BY DEF FromAbove
<1>1. \A i \in Nat : i > n => i \in T
  BY <1>0
<1> DEFINE F == {d \in 0..n : n - d \notin T}
<1> SUFFICES ASSUME F # {}
             PROVE  FALSE
  <2>1. ASSUME F = {}, NEW i \in Nat
        PROVE  i \in T
    <3>1. CASE i > n
      BY <1>1, <3>1
    <3>2. CASE i <= n
      <4>1. n - i \in 0..n /\ n - (n - i) = i
        BY <3>2
      <4>2. \A d \in 0..n : n - d \in T
        BY <2>1
      <4>3. n - (n - i) \in T
        BY <4>1, <4>2
      <4> QED BY <4>1, <4>3
    <3> QED BY <3>1, <3>2
  <2> QED BY <2>1
<1>2. F \subseteq Nat
  OBVIOUS
<1>3. PICK d \in F : \A y \in F : d <= y
  BY <1>2, Smallest
<1>4. n - d \in Nat /\ n - d \notin T
  BY <1>3
<1>5. ASSUME NEW k \in Nat, n - d < k
      PROVE  k \in T
  <2>1. CASE k > n
    BY <1>1, <2>1
  <2>2. CASE k <= n
    <3>1. n - k \in 0..n /\ n - (n - k) = k /\ ~(d <= n - k)
      BY <1>5, <2>2, <1>3
    <3> QED BY <1>3, <3>1
  <2> QED BY <2>1, <2>2
<1> QED BY <1>0, <1>4, <1>5

(* Induction along a measure. *)
LEMMA ByMeasure ==
  ASSUME NEW D, NEW T, NEW measure, measure \in [D -> Nat],
         \A x \in D : (\A y \in D : measure[y] < measure[x] => y \in T) => x \in T
  PROVE  \A x \in D : x \in T
<1> DEFINE F == {measure[x] : x \in {y \in D : y \notin T}}
<1> SUFFICES ASSUME NEW z \in D, z \notin T
             PROVE  FALSE
  OBVIOUS
<1>1. F \subseteq Nat /\ F # {}
  OBVIOUS
<1>2. PICK m \in F : \A k \in F : m <= k
  <2> HIDE DEF F
  <2> QED BY <1>1, Smallest
<1>3. PICK x \in D : x \notin T /\ measure[x] = m
  BY <1>2
<1>4. ASSUME NEW y \in D, measure[y] < measure[x], y \notin T
      PROVE  FALSE
  <2>1. measure[y] \in F /\ measure[y] \in Nat /\ m \in Nat
    BY <1>4, <1>2, <1>1
  <2> HIDE DEF F
  <2> QED BY <2>1, <1>2, <1>3, <1>4
<1>5. \A y \in D : measure[y] < measure[x] => y \in T
  BY <1>4
<1>6. (\A y \in D : measure[y] < measure[x] => y \in T) => x \in T
  OBVIOUS
<1> QED BY <1>3, <1>5, <1>6

(* A loop that comes to its end defines a function of where it begins, and *)
(* only one.  `combine' is what a round does with the result of the rest.  *)
Rounds(D, V, stop, out, next, combine, measure) ==
  /\ out \in [D -> V] /\ combine \in [D \X V -> V]
  /\ stop \in [D -> BOOLEAN] /\ next \in [D -> D] /\ measure \in [D -> Nat]
  /\ \A x \in D : ~stop[x] => measure[next[x]] < measure[x]

(* A loop that comes to its end defines a function. *)
LEMMA LoopDefined ==
  ASSUME NEW D, NEW V, NEW stop, NEW out, NEW next, NEW combine, NEW measure,
         Rounds(D, V, stop, out, next, combine, measure)
  PROVE  \E g \in [D -> V] :
           \A x \in D : g[x] = IF stop[x] THEN out[x] ELSE combine[<<x, g[next[x]]>>]
<1> DEFINE Holds(g, x) == g[x] = IF stop[x] THEN out[x] ELSE combine[<<x, g[next[x]]>>]
           Fits(g, n) == \A x \in D : measure[x] < n => Holds(g, x)
<1> USE DEF Rounds
<1>0. \A x \in D : measure[x] \in Nat /\ out[x] \in V
  OBVIOUS
<1>1. \A n \in Nat : \E g \in [D -> V] : Fits(g, n)
  <2> DEFINE T == {n \in Nat : \E g \in [D -> V] : Fits(g, n)}
  <2>1. 0 \in T
    <3>1. out \in [D -> V] /\ Fits(out, 0)
      BY <1>0
    <3> QED BY <3>1
  <2>2. ASSUME NEW n \in Nat, n \in T
        PROVE  n + 1 \in T
    <3>1. PICK g \in [D -> V] : Fits(g, n)
      BY <2>2
    <3> DEFINE h == [x \in D |-> IF stop[x] THEN out[x] ELSE combine[<<x, g[next[x]]>>]]
    <3>2. h \in [D -> V]
      <4>1. ASSUME NEW x \in D
            PROVE  h[x] \in V
        <5>1. CASE stop[x]
          BY <5>1, <1>0
        <5>2. CASE ~stop[x]
          <6>1. next[x] \in D
            BY <5>2
          <6>2. <<x, g[next[x]]>> \in D \X V
            BY <6>1
          <6> QED BY <5>2, <6>2
        <5> QED BY <5>1, <5>2
      <4> QED BY <4>1
    <3>3. ASSUME NEW x \in D, measure[x] < n + 1
          PROVE  Holds(h, x)
      <4>1. CASE stop[x]
        BY <4>1
      <4>2. CASE ~stop[x]
        <5>1. next[x] \in D /\ measure[next[x]] < n
          BY <4>2, <3>3, <1>0
        <5>2. h[next[x]] = g[next[x]]
          BY <3>1, <5>1
        <5> QED BY <4>2, <5>2
      <4> QED BY <4>1, <4>2
    <3>4. Fits(h, n + 1)
      BY <3>3
    <3> HIDE DEF h, Fits
    <3> QED BY <3>2, <3>4
  <2> HIDE DEF T
  <2>3. \A i \in Nat : i >= 0 => i \in T
    BY <2>1, <2>2, Upwards
  <2> QED BY <2>3 DEF T
<1>2. ASSUME NEW g, NEW h, NEW m \in Nat, Fits(g, m), Fits(h, m)
      PROVE  \A x \in D : measure[x] < m => g[x] = h[x]
  <2> DEFINE U == {n \in Nat : \A x \in D : measure[x] < n /\ measure[x] < m => g[x] = h[x]}
  <2>1. 0 \in U
    BY <1>0
  <2>2. ASSUME NEW n \in Nat, n \in U
        PROVE  n + 1 \in U
    <3>1. ASSUME NEW x \in D, measure[x] < n + 1, measure[x] < m
          PROVE  g[x] = h[x]
      <4>1. Holds(g, x) /\ Holds(h, x)
        BY <1>2, <3>1
      <4>2. CASE stop[x]
        BY <4>1, <4>2
      <4>3. CASE ~stop[x]
        <5>1. next[x] \in D /\ measure[next[x]] < n /\ measure[next[x]] < m
          BY <4>3, <3>1, <1>0
        <5>2. g[next[x]] = h[next[x]]
          BY <2>2, <5>1
        <5> QED BY <4>1, <4>3, <5>2
      <4> QED BY <4>2, <4>3
    <3> QED BY <3>1
  <2> HIDE DEF U
  <2>3. \A i \in Nat : i >= 0 => i \in U
    BY <2>1, <2>2, Upwards
  <2>4. m \in U
    BY <2>3
  <2> QED BY <2>4 DEF U
<1> DEFINE Some(n) == CHOOSE g \in [D -> V] : Fits(g, n)
           G == [x \in D |-> Some(measure[x] + 1)[x]]
<1>3. \A n \in Nat : Some(n) \in [D -> V] /\ Fits(Some(n), n)
  BY <1>1
<1> HIDE DEF Some
<1>4. G \in [D -> V]
  <2>1. ASSUME NEW x \in D
        PROVE  G[x] \in V
    <3>1. measure[x] + 1 \in Nat
      BY <1>0
    <3> QED BY <3>1, <1>3
  <2> QED BY <2>1
<1>5. ASSUME NEW x \in D
      PROVE  Holds(G, x)
  <2>1. measure[x] + 1 \in Nat /\ measure[x] < measure[x] + 1
    BY <1>0
  <2> DEFINE g == Some(measure[x] + 1)
  <2>2. Fits(g, measure[x] + 1)
    BY <1>3, <2>1
  <2>3. Holds(g, x) /\ G[x] = g[x]
    BY <2>1, <2>2
  <2>4. CASE stop[x]
    BY <2>3, <2>4
  <2>5. CASE ~stop[x]
    <3> DEFINE y == next[x]
    <3>1. y \in D /\ measure[y] < measure[x] /\ measure[y] + 1 \in Nat
      BY <2>5, <1>0
    <3> DEFINE k == Some(measure[y] + 1)
    <3>2. Fits(k, measure[y] + 1)
      BY <3>1, <1>3
    <3>3. Fits(g, measure[y] + 1)
      BY <2>2, <3>1, <1>0
    <3>4. k[y] = g[y]
      <4> HIDE DEF Fits, y, g, k
      <4> QED BY <1>2, <3>1, <3>2, <3>3
    <3>5. G[y] = g[y]
      BY <3>1, <3>4
    <3> QED BY <2>3, <2>5, <3>5
  <2> QED BY <2>4, <2>5
<1> QED BY <1>4, <1>5

Place == [j : Nat, depth : Nat]

(* A round of the loop over a comment goes on in the script. *)
LEMMA CommentLoopGoesOn ==
  ASSUME NEW s, Len(s) \in Nat, NEW x \in Place, x.depth # 0
  PROVE  CommentLoop(s, x) \in Place /\ CommentLoop(s, x).j > x.j
<1>1. x.j \in Nat /\ x.depth \in Nat /\ x = [j |-> x.j, depth |-> x.depth]
  BY DEF Place
<1>2. CASE At(s, x.j) = "/" /\ At(s, x.j + 1) = "*"
  BY <1>1, <1>2 DEF CommentLoop, Place
<1>3. CASE At(s, x.j) # "/" /\ At(s, x.j) = "*" /\ At(s, x.j + 1) = "/"
  BY <1>1, <1>3 DEF CommentLoop, Place
<1>4. CASE ~(At(s, x.j) = "/" /\ At(s, x.j + 1) = "*") /\ ~(At(s, x.j) = "*" /\ At(s, x.j + 1) = "/")
  <2>1. CommentLoop(s, x) = [x EXCEPT !.j = @ + 1]
    BY <1>4 DEF CommentLoop
  <2> QED BY <1>1, <2>1 DEF Place
<1> QED BY <1>2, <1>3, <1>4

(* The function that goes through a comment exists, and fits its recursive  *)
(* equation.                                                                *)
LEMMA CommentEndsDefined ==
  ASSUME NEW s, Len(s) \in Nat
  PROVE  \A x \in Place :
           /\ CommentEnds(s)[x] \in Nat /\ CommentEnds(s)[x] >= x.j
           /\ CommentEnds(s)[x] =
                IF x.j > Len(s) \/ x.depth = 0 THEN x.j
                ELSE CommentEnds(s)[CommentLoop(s, x)]
<1> DEFINE stop == [x \in Place |-> x.j > Len(s) \/ x.depth = 0]
           out == [x \in Place |-> x.j]
           next == [x \in Place |-> IF x.depth = 0 THEN x ELSE CommentLoop(s, x)]
           combine == [p \in Place \X Nat |-> p[2]]
           measure == [x \in Place |-> IF x.j > Len(s) THEN 0 ELSE Len(s) + 1 - x.j]
           Is(f) == f = [x \in Place |-> IF x.j > Len(s) \/ x.depth = 0 THEN x.j
                                         ELSE f[CommentLoop(s, x)]]
<1>1. /\ out \in [Place -> Nat] /\ measure \in [Place -> Nat]
      /\ stop \in [Place -> BOOLEAN] /\ next \in [Place -> Place]
  <2>1. next \in [Place -> Place]
    BY CommentLoopGoesOn
  <2> QED BY <2>1 DEF Place
<1>2. combine \in [Place \X Nat -> Nat]
  OBVIOUS
<1>3. ASSUME NEW x \in Place, ~stop[x]
      PROVE  next[x] \in Place /\ measure[next[x]] < measure[x]
  <2>1. ~(x.j > Len(s)) /\ x.depth # 0 /\ x.j \in Nat
    BY <1>3 DEF Place
  <2>2. CommentLoop(s, x) \in Place /\ CommentLoop(s, x).j > x.j
    BY <2>1, CommentLoopGoesOn
  <2>3. CommentLoop(s, x).j \in Nat
    BY <2>2 DEF Place
  <2> QED BY <2>1, <2>2, <2>3
<1>4. PICK g \in [Place -> Nat] :
        \A x \in Place : g[x] = IF stop[x] THEN out[x] ELSE combine[<<x, g[next[x]]>>]
  <2>1. \A x \in Place : ~stop[x] => measure[next[x]] < measure[x]
    BY <1>3
  <2> HIDE DEF out, measure, next, stop, combine
  <2>2. Rounds(Place, Nat, stop, out, next, combine, measure)
    BY <1>1, <1>2, <2>1 DEF Rounds
  <2> QED BY <2>2, LoopDefined
<1>5. ASSUME NEW x \in Place
      PROVE  g[x] = IF x.j > Len(s) \/ x.depth = 0 THEN x.j ELSE g[CommentLoop(s, x)]
  <2>1. CASE stop[x]
    BY <1>4, <2>1
  <2>2. CASE ~stop[x]
    <3>1. next[x] \in Place /\ next[x] = CommentLoop(s, x)
      BY <1>3, <2>2
    <3>2. combine[<<x, g[next[x]]>>] = g[next[x]]
      BY <3>1
    <3> QED BY <1>4, <2>2, <3>1, <3>2
  <2> QED BY <2>1, <2>2
<1>6. Is(g)
  BY <1>4, <1>5
<1> DEFINE e == CommentEnds(s)
<1>7. Is(e)
  BY <1>6 DEF CommentEnds, Place
<1> HIDE DEF e
<1>8. \A x \in Place : e[x] \in Nat /\ e[x] >= x.j
  <2> DEFINE T == {x \in Place : e[x] \in Nat /\ e[x] >= x.j}
  <2>1. ASSUME NEW x \in Place, \A y \in Place : measure[y] < measure[x] => y \in T
        PROVE  x \in T
    <3>1. CASE stop[x]
      <4>1. e[x] = x.j /\ x.j \in Nat
        BY <1>7, <3>1 DEF Place
      <4> QED BY <4>1
    <3>2. CASE ~stop[x]
      <4>1. next[x] \in T /\ next[x] = CommentLoop(s, x)
        BY <1>3, <2>1, <3>2
      <4>2. e[next[x]] \in Nat /\ e[next[x]] >= next[x].j /\ e[x] = e[next[x]]
        BY <1>7, <3>2, <4>1
      <4>3. next[x].j > x.j /\ next[x].j \in Nat /\ x.j \in Nat
        BY <1>3, <3>2, <4>1, CommentLoopGoesOn DEF Place
      <4> QED BY <4>2, <4>3
    <3> QED BY <3>1, <3>2
  <2> HIDE DEF T, measure
  <2>2. \A x \in Place : x \in T
    BY <1>1, <2>1, ByMeasure
  <2> QED BY <2>2 DEF T
<1> QED BY <1>7, <1>8 DEF e

(* So does the one that goes through a string or a quoted identifier. *)
LEMMA QuoteEndsDefined ==
  ASSUME NEW s, Len(s) \in Nat, NEW i
  PROVE  \A j \in Nat :
           /\ QuoteEnds(s, i)[j] \in Nat /\ QuoteEnds(s, i)[j] >= j
           /\ QuoteEnds(s, i)[j] =
                IF j > Len(s) THEN j
                ELSE IF s[j] = "\\" /\ s[i] = "'" /\ IsEscapeString(s, i)
                     THEN QuoteEnds(s, i)[j + 2]
                ELSE IF s[j] # s[i] THEN QuoteEnds(s, i)[j + 1]
                ELSE IF At(s, j + 1) = s[i] THEN QuoteEnds(s, i)[j + 2]
                ELSE j + 1
<1> DEFINE Escaped(j) == s[j] = "\\" /\ s[i] = "'" /\ IsEscapeString(s, i)
           Pair(j) == s[j] = s[i] /\ At(s, j + 1) = s[i]
           Closes(j) == ~Escaped(j) /\ s[j] = s[i] /\ At(s, j + 1) # s[i]
           stop == [j \in Nat |-> j > Len(s) \/ Closes(j)]
           out == [j \in Nat |-> IF j > Len(s) THEN j ELSE j + 1]
           next == [j \in Nat |-> IF Escaped(j) \/ Pair(j) THEN j + 2 ELSE j + 1]
           combine == [p \in Nat \X Nat |-> p[2]]
           measure == [j \in Nat |-> IF j > Len(s) THEN 0 ELSE Len(s) + 1 - j]
           Body(f, j) == IF j > Len(s) THEN j
                         ELSE IF s[j] = "\\" /\ s[i] = "'" /\ IsEscapeString(s, i)
                              THEN f[j + 2]
                         ELSE IF s[j] # s[i] THEN f[j + 1]
                         ELSE IF At(s, j + 1) = s[i] THEN f[j + 2]
                         ELSE j + 1
           Is(f) == f = [j \in Nat |-> Body(f, j)]
<1>1. \A f : \A j \in Nat :
        Body(f, j) = IF j > Len(s) \/ Closes(j) THEN (IF j > Len(s) THEN j ELSE j + 1)
                     ELSE f[IF Escaped(j) \/ Pair(j) THEN j + 2 ELSE j + 1]
  OBVIOUS
<1> HIDE DEF Body, Escaped, Pair, Closes
<1>2. \A j \in Nat : next[j] \in Nat /\ next[j] > j
  OBVIOUS
<1>r. \A j \in Nat : ~stop[j] => measure[next[j]] < measure[j]
  <2>1. \A j \in Nat : ~stop[j] => ~(j > Len(s))
    OBVIOUS
  <2>2. \A j \in Nat : measure[j] = IF j > Len(s) THEN 0 ELSE Len(s) + 1 - j
    OBVIOUS
  <2> HIDE DEF stop, next, measure
  <2> QED BY <1>2, <2>1, <2>2
<1>5. \E g : Is(g)
  <2>3. PICK g \in [Nat -> Nat] :
          \A j \in Nat : g[j] = IF stop[j] THEN out[j] ELSE combine[<<j, g[next[j]]>>]
    <3>1. stop \in [Nat -> BOOLEAN] /\ out \in [Nat -> Nat] /\ combine \in [Nat \X Nat -> Nat]
      OBVIOUS
    <3>2. next \in [Nat -> Nat] /\ measure \in [Nat -> Nat]
      BY <1>2
    <3> HIDE DEF out, measure, next, stop, combine
    <3> DEFINE D == Nat
    <3>3. Rounds(D, D, stop, out, next, combine, measure)
      BY <1>r, <3>1, <3>2 DEF Rounds
    <3> HIDE DEF D
    <3>4. \E g \in [D -> D] :
            \A j \in D : g[j] = IF stop[j] THEN out[j] ELSE combine[<<j, g[next[j]]>>]
      BY <3>3, LoopDefined
    <3> QED BY <3>4 DEF D
  <2>4. ASSUME NEW j \in Nat
        PROVE  g[j] = Body(g, j)
    <3>1. next[j] \in Nat
      OBVIOUS
    <3>2. combine[<<j, g[next[j]]>>] = g[next[j]]
      BY <3>1
    <3> QED BY <1>1, <2>3, <3>1, <3>2
  <2>5. Is(g)
    BY <2>4
  <2> QED BY <2>5
<1> DEFINE e == QuoteEnds(s, i)
<1>6. Is(e)
  BY <1>5 DEF QuoteEnds, Body
<1> HIDE DEF e
<1>7. \A j \in Nat : e[j] \in Nat /\ e[j] >= j
  <2> DEFINE T == {j \in Nat : e[j] \in Nat /\ e[j] >= j}
  <2>1. ASSUME NEW j \in Nat, \A k \in Nat : measure[k] < measure[j] => k \in T
        PROVE  j \in T
    <3>0. e[j] = Body(e, j)
      BY <1>6
    <3>1. CASE stop[j]
      <4>1. j > Len(s) \/ Closes(j)
        BY <3>1
      <4>2. Body(e, j) = IF j > Len(s) THEN j ELSE j + 1
        BY <1>1, <4>1
      <4>3. e[j] = IF j > Len(s) THEN j ELSE j + 1
        BY <3>0, <4>2, Zenon
      <4>4. e[j] \in Nat /\ e[j] >= j
        BY <4>3
      <4> QED BY <4>4
    <3>2. CASE ~stop[j]
      <4>1. next[j] \in T
        <5> HIDE DEF T, next, measure, stop
        <5> QED BY <1>2, <1>r, <2>1, <3>2
      <4>2. ~(j > Len(s) \/ Closes(j)) /\ next[j] = IF Escaped(j) \/ Pair(j) THEN j + 2 ELSE j + 1
        BY <3>2
      <4>3. e[j] = e[next[j]]
        BY <1>1, <3>0, <4>2
      <4>4. e[next[j]] \in Nat /\ e[next[j]] >= next[j]
        BY <4>1
      <4>5. next[j] \in Nat /\ next[j] > j /\ j \in Nat
        BY <1>2, <2>1
      <4>6. e[j] \in Nat /\ e[j] >= j
        <5> HIDE DEF next
        <5> QED BY <4>3, <4>4, <4>5
      <4> QED BY <4>6
    <3> QED BY <3>1, <3>2
  <2>2. measure \in [Nat -> Nat]
    OBVIOUS
  <2> DEFINE D == Nat
  <2>3. /\ \A j \in D : (\A k \in D : measure[k] < measure[j] => k \in T) => j \in T
        /\ measure \in [D -> Nat]
    <3> HIDE DEF T, measure
    <3> QED BY <2>1, <2>2
  <2> HIDE DEF T, measure, D
  <2>4. \A j \in D : j \in T
    BY <2>3, ByMeasure
  <2> QED BY <2>4 DEF T, D
<1> QED BY <1>6, <1>7 DEF e, Body

-----------------------------------------------------------------------------
(* What `Least' chooses. *)
LEMMA LeastIs ==
  ASSUME NEW S, S \subseteq Nat, S # {}, NEW d
  PROVE  Least(S, d) \in S /\ \A y \in S : Least(S, d) <= y
<1>1. \E x \in S : \A y \in S : x <= y
  BY Smallest
<1> QED BY <1>1 DEF Least

(* The first `part' from i on. *)
IsAt(s, part, j) ==
  j \in 1..Len(s) + 1 - Len(part) /\ SubSeq(s, j, j + Len(part) - 1) = part

(* What `After' finds: the end of the script, or the place after the first  *)
(* match.                                                                   *)
LEMMA AfterIs ==
  ASSUME NEW s, NEW part, NEW i, Len(s) \in Nat, Len(part) \in Nat, i \in Nat, i >= 1
  PROVE  \/ /\ After(s, part, i) = Len(s) + 1
            /\ \A j \in Nat : j >= i => ~IsAt(s, part, j)
         \/ \E j \in Nat : /\ j >= i /\ IsAt(s, part, j)
                           /\ After(s, part, i) = j + Len(part)
                           /\ \A k \in Nat : k >= i /\ IsAt(s, part, k) => j <= k
<1> DEFINE J == {j \in i..Len(s) + 1 - Len(part) :
                    SubSeq(s, j, j + Len(part) - 1) = part}
           S == {j + Len(part) : j \in J}
<1>1. After(s, part, i) = Least(S, Len(s) + 1)
  BY DEF After
<1>2. \A j \in Nat : j \in J <=> j >= i /\ IsAt(s, part, j)
  BY DEF IsAt
<1>3. J \subseteq Nat
  OBVIOUS
<1> HIDE DEF J
<1>4. CASE J = {}
  <2>1. S = {}
    BY <1>4
  <2>2. After(s, part, i) = Len(s) + 1
    BY <1>1, <2>1 DEF Least
  <2> QED BY <1>2, <1>4, <2>2
<1>5. CASE J # {}
  <2>0. \A j \in J : j + Len(part) \in S /\ j + Len(part) \in Nat
    BY <1>3
  <2>1. S # {} /\ S \subseteq Nat
    BY <1>5, <2>0
  <2> HIDE DEF S
  <2>2. Least(S, Len(s) + 1) \in S /\ \A y \in S : Least(S, Len(s) + 1) <= y
    BY <2>1, LeastIs
  <2>3. PICK j \in J : Least(S, Len(s) + 1) = j + Len(part)
    BY <2>2 DEF S
  <2>4. ASSUME NEW k \in Nat, k >= i, IsAt(s, part, k)
        PROVE  j <= k
    <3>1. k \in J
      BY <2>4, <1>2
    <3>2. k + Len(part) \in S
      BY <3>1 DEF S
    <3>3. j + Len(part) <= k + Len(part) /\ j \in Nat
      BY <3>2, <2>2, <2>3, <1>3
    <3> QED BY <3>3
  <2> QED BY <1>1, <1>2, <1>3, <2>3, <2>4
<1> QED BY <1>4, <1>5

(* A tag goes from a dollar to a dollar. *)
LEMMA TagIs ==
  ASSUME NEW C, NEW s \in Seq(C), NEW i \in Nat, Tag(s, i) # <<>>
  PROVE  /\ i \in 1..Len(s) /\ s[i] = "$"
         /\ \E c \in i + 1..Len(s) : /\ s[c] = "$" /\ Tag(s, i) = SubSeq(s, i, c)
                                     /\ Len(Tag(s, i)) = c - i + 1
<1> DEFINE close == {j \in i + 1..Len(s) :
                  /\ s[j] = "$" /\ s[i + 1] \notin Digit
                  /\ \A k \in i + 1..j - 1 : s[k] \in Letter \cup Digit}
<1>1. At(s, i) = "$" /\ close # {} /\ Tag(s, i) = SubSeq(s, i, Least(close, 0))
  BY DEF Tag
<1>2. i \in DOMAIN s /\ s[i] = "$"
  BY <1>1 DEF At
<1>3. close \subseteq Nat
  OBVIOUS
<1>4. Least(close, 0) \in close
  <2> HIDE DEF close
  <2> QED BY <1>1, <1>3, LeastIs
<1> DEFINE c == Least(close, 0)
<1>5. c \in i + 1..Len(s) /\ s[c] = "$"
  BY <1>4
<1> HIDE DEF c
<1>6. Len(SubSeq(s, i, c)) = c - i + 1
  BY <1>2, <1>5
<1>7. i \in 1..Len(s)
  BY <1>2
<1> QED BY <1>1, <1>2, <1>5, <1>6, <1>7 DEF c

(* A match of a tag ends in a dollar. *)
LEMMA TagEndsInDollar ==
  ASSUME NEW C, NEW s \in Seq(C), NEW i \in Nat, Tag(s, i) # <<>>,
         NEW j \in Nat, IsAt(s, Tag(s, i), j)
  PROVE  /\ Len(Tag(s, i)) \in Nat /\ Len(Tag(s, i)) >= 2
         /\ j + Len(Tag(s, i)) - 1 \in 1..Len(s)
         /\ s[j + Len(Tag(s, i)) - 1] = "$"
<1> DEFINE tag == Tag(s, i)
<1>1. PICK c \in i + 1..Len(s) :
        s[c] = "$" /\ tag = SubSeq(s, i, c) /\ Len(tag) = c - i + 1
  BY TagIs
<1>2. i \in 1..Len(s) /\ Len(s) \in Nat
  BY TagIs
<1>3. c \in Nat /\ c >= i + 1 /\ c <= Len(s) /\ i >= 1
  BY <1>1, <1>2
<1>4. SubSeq(s, i, c)[c - i + 1] = s[c]
  BY <1>2, <1>3
<1> HIDE DEF tag
<1>5. tag[Len(tag)] = "$" /\ Len(tag) \in Nat /\ Len(tag) >= 2
  BY <1>1, <1>2, <1>3, <1>4
<1> DEFINE m == j + Len(tag) - 1
<1>6. j >= 1 /\ j + Len(tag) <= Len(s) + 1 /\ SubSeq(s, j, m) = tag
  BY <1>2, <1>5 DEF IsAt, tag
<1>7. m \in 1..Len(s) /\ m >= j /\ Len(tag) = m - j + 1
  BY <1>2, <1>5, <1>6
<1> HIDE DEF m
<1>8. SubSeq(s, j, m)[m - j + 1] = s[m]
  BY <1>2, <1>6, <1>7
<1>9. s[m] = "$"
  BY <1>5, <1>6, <1>7, <1>8
<1> QED BY <1>5, <1>7, <1>9 DEF tag, m

(* A comment takes at least its two first characters. *)
LEMMA CommentEndGoesOn ==
  ASSUME NEW s, Len(s) \in Nat, NEW i \in Nat
  PROVE  CommentEnd(s, i) \in Nat /\ CommentEnd(s, i) >= i + 2
<1> DEFINE x == [j |-> i + 2, depth |-> 1]
<1>1. x \in Place /\ x.j = i + 2
  BY DEF Place
<1>2. CommentEnds(s)[x] \in Nat /\ CommentEnds(s)[x] >= x.j
  <2> HIDE DEF x
  <2> QED BY <1>1, CommentEndsDefined
<1> QED BY <1>1, <1>2 DEF CommentEnd

(* The splitter never stands still. *)
LEMMA PartEndGoesOn ==
  ASSUME NEW C, NEW s \in Seq(C), NEW i \in 1..Len(s)
  PROVE  PartEnd(s, i) \in Nat /\ PartEnd(s, i) > i
<1>0. Len(s) \in Nat /\ i \in Nat /\ i >= 1 /\ i <= Len(s)
  OBVIOUS
<1>1. CASE s[i] = "-" /\ IsComment(s, i)
  <2>1. PartEnd(s, i) = After(s, <<"\n">>, i)
    BY <1>1, QuotesDiffer DEF PartEnd
  <2>2. Len(<<"\n">>) = 1
    OBVIOUS
  <2> DEFINE part == <<"\n">>
  <2>3. Len(part) = 1
    BY <2>2
  <2> HIDE DEF part
  <2>4. After(s, part, i) \in Nat /\ After(s, part, i) > i
    <3>1. Len(part) \in Nat
      BY <2>3
    <3>2. \/ After(s, part, i) = Len(s) + 1
          \/ \E j \in Nat : j >= i /\ After(s, part, i) = j + Len(part)
      BY <1>0, <3>1, AfterIs
    <3> QED BY <1>0, <2>3, <3>2
  <2> QED BY <2>1, <2>4 DEF part
<1>2. CASE s[i] = "/" /\ IsComment(s, i)
  <2>1. PartEnd(s, i) = CommentEnd(s, i)
    BY <1>2, QuotesDiffer DEF PartEnd
  <2> QED BY <1>0, <2>1, CommentEndGoesOn
<1>3. CASE s[i] \in {"'", DoubleQuote}
  <2>1. PartEnd(s, i) = QuoteEnd(s, i)
    BY <1>3, QuotesDiffer DEF PartEnd
  <2>2. i + 1 \in Nat /\ QuoteEnd(s, i) = QuoteEnds(s, i)[i + 1]
    BY <1>0 DEF QuoteEnd
  <2> QED BY <1>0, <2>1, <2>2, QuoteEndsDefined
<1>4. CASE s[i] = "$" /\ Tag(s, i) # <<>>
  <2>1. PartEnd(s, i) = After(s, Tag(s, i), i + Len(Tag(s, i)))
    BY <1>4 DEF PartEnd
  <2>2. PICK c \in i + 1..Len(s) : Len(Tag(s, i)) = c - i + 1
    BY <1>0, <1>4, TagIs
  <2> DEFINE tag == Tag(s, i)
  <2>3. Len(tag) \in Nat /\ Len(tag) >= 2 /\ i + Len(tag) <= Len(s) + 1
    BY <1>0, <2>2
  <2> HIDE DEF tag
  <2>4. After(s, tag, i + Len(tag)) \in Nat /\ After(s, tag, i + Len(tag)) > i
    <3>1. i + Len(tag) \in Nat /\ i + Len(tag) >= 1
      BY <1>0, <2>3
    <3> QED BY <1>0, <2>3, <3>1, AfterIs
  <2> QED BY <2>1, <2>4 DEF tag
<1>5. CASE /\ ~(s[i] = "-" /\ IsComment(s, i)) /\ ~(s[i] = "/" /\ IsComment(s, i))
           /\ s[i] \notin {"'", DoubleQuote} /\ ~(s[i] = "$" /\ Tag(s, i) # <<>>)
  <2>1. PartEnd(s, i) = i + 1
    BY <1>5 DEF PartEnd
  <2> QED BY <1>0, <2>1
<1> QED BY <1>1, <1>2, <1>3, <1>4, <1>5

-----------------------------------------------------------------------------
(* A set of places in a script has a greatest element. *)
LEMMA Largest ==
  ASSUME NEW n \in Nat, NEW S, S \subseteq 1..n, S # {}
  PROVE  \E x \in S : \A y \in S : y <= x
<1> DEFINE F == {d \in 0..n : n - d \in S}
<1>1. PICK z \in S : TRUE
  OBVIOUS
<1>2. n - z \in 0..n /\ n - (n - z) = z
  BY <1>1
<1>3. n - z \in F
  BY <1>1, <1>2
<1>4. F \subseteq Nat /\ F # {}
  <2>1. F \subseteq Nat
    OBVIOUS
  <2> HIDE DEF F
  <2> QED BY <1>3, <2>1
<1>5. PICK d \in F : \A k \in F : d <= k
  <2> HIDE DEF F
  <2> QED BY <1>4, Smallest
<1>6. n - d \in S /\ d \in 0..n
  BY <1>5
<1>7. ASSUME NEW y \in S
      PROVE  y <= n - d
  <2>1. y \in 1..n /\ n - y \in 0..n /\ n - (n - y) = y
    BY <1>7
  <2>2. n - y \in F
    BY <1>7, <2>1
  <2>3. d <= n - y
    BY <1>5, <2>2
  <2> QED BY <1>6, <2>1, <2>3
<1> QED BY <1>6, <1>7

(* A trimmed text consists of characters of the text. *)
LEMMA TrimIs ==
  ASSUME NEW C, NEW t \in Seq(C)
  PROVE  Trim(t) \in Seq(C)
<1> DEFINE dark == {i \in DOMAIN t : t[i] \notin Blank}
           last == CHOOSE i \in dark : \A j \in dark : j <= i
<1>1. DOMAIN t = 1..Len(t) /\ Len(t) \in Nat
  OBVIOUS
<1>2. dark \subseteq 1..Len(t) /\ dark \subseteq Nat
  BY <1>1
<1>3. Trim(t) = IF dark = {} THEN <<>> ELSE SubSeq(t, Least(dark, 0), last)
  BY DEF Trim
<1>4. CASE dark = {}
  BY <1>3, <1>4
<1>5. CASE dark # {}
  <2> HIDE DEF dark
  <2>1. Least(dark, 0) \in dark
    BY <1>2, <1>5, LeastIs
  <2>2. last \in dark
    BY <1>1, <1>2, <1>5, Largest
  <2> HIDE DEF last
  <2>3. Least(dark, 0) \in 1..Len(t) /\ last \in 1..Len(t)
    BY <1>2, <2>1, <2>2
  <2>4. SubSeq(t, Least(dark, 0), last) \in Seq(C)
    BY <2>3
  <2> QED BY <1>3, <1>5, <2>4
<1> QED BY <1>4, <1>5

(* So does a statement. *)
LEMMA StatementIs ==
  ASSUME NEW C, NEW s \in Seq(C), NEW a \in Nat \ {0}, NEW b \in Nat, b <= Len(s)
  PROVE  <<Trim(SubSeq(s, a, b))>> \in Seq(Seq(C))
<1>1. SubSeq(s, a, b) \in Seq(C)
  <2>1. CASE a <= b
    BY <2>1
  <2>2. CASE a > b
    <3>1. SubSeq(s, a, b) = <<>>
      BY <2>2
    <3> QED BY <3>1
  <2> QED BY <2>1, <2>2
<1>2. Trim(SubSeq(s, a, b)) \in Seq(C)
  BY <1>1, TrimIs
<1> QED BY <1>2

(* So does what pushStatement pushes. *)
LEMMA PushIs ==
  ASSUME NEW C, NEW s \in Seq(C), NEW a \in Nat \ {0}, NEW b \in Nat, b <= Len(s), NEW c
  PROVE  PushStatement(s, a, b, c) \in Seq(Seq(C))
<1>1. <<Trim(SubSeq(s, a, b))>> \in Seq(Seq(C)) /\ <<>> \in Seq(Seq(C))
  BY StatementIs
<1> QED BY <1>1 DEF PushStatement

(* A round of the loop over a script goes on in the script. *)
LEMMA SplitLoopGoesOn ==
  ASSUME NEW C, NEW s \in Seq(C), NEW x \in Loop, x.i <= Len(s)
  PROVE  SplitLoop(s, x) \in Loop /\ SplitLoop(s, x).i > x.i
<1>1. x.i \in 1..Len(s) /\ x.start \in Nat \ {0} /\ x.hasContent \in BOOLEAN
  BY DEF Loop
<1>2. x = [i |-> x.i, start |-> x.start, hasContent |-> x.hasContent]
  BY DEF Loop
<1>3. CASE s[x.i] = Semicolon
  <2>1. SplitLoop(s, x) = [i |-> x.i + 1, start |-> x.i + 1, hasContent |-> FALSE]
    BY <1>3 DEF SplitLoop
  <2> QED BY <1>1, <2>1 DEF Loop
<1>4. CASE s[x.i] # Semicolon
  <2> DEFINE e == PartEnd(s, x.i)
             h == IF s[x.i] \in Blank \/ IsComment(s, x.i) THEN x.hasContent ELSE TRUE
  <2>1. SplitLoop(s, x) = [x EXCEPT !.i = e, !.hasContent = h]
    BY <1>4 DEF SplitLoop
  <2>2. e \in Nat /\ e > x.i
    BY <1>1, PartEndGoesOn
  <2>3. h \in BOOLEAN
    BY <1>1
  <2> HIDE DEF e, h
  <2>4. SplitLoop(s, x) = [i |-> e, start |-> x.start, hasContent |-> h]
    BY <1>2, <2>1
  <2> QED BY <1>1, <2>2, <2>3, <2>4 DEF Loop
<1> QED BY <1>3, <1>4

(* The function that is that loop exists, and fits its recursive equation. *)
LEMMA SplittingDefined ==
  ASSUME NEW C, NEW s \in Seq(C)
  PROVE  \A x \in Loop :
           Splitting(s)[x] =
             IF x.i > Len(s) THEN PushStatement(s, x.start, Len(s), x.hasContent)
             ELSE IF s[x.i] = Semicolon
                  THEN PushStatement(s, x.start, x.i - 1, x.hasContent)
                         \o Splitting(s)[SplitLoop(s, x)]
             ELSE Splitting(s)[SplitLoop(s, x)]
<1> DEFINE Body(f, x) ==
             IF x.i > Len(s) THEN PushStatement(s, x.start, Len(s), x.hasContent)
             ELSE IF s[x.i] = Semicolon
                  THEN PushStatement(s, x.start, x.i - 1, x.hasContent)
                         \o f[SplitLoop(s, x)]
             ELSE f[SplitLoop(s, x)]
           Is(f) == f = [x \in Loop |-> Body(f, x)]
           V == Seq(Seq(C))
           Pushed(x) == PushStatement(s, x.start, x.i - 1, x.hasContent)
           stop == [x \in Loop |-> x.i > Len(s)]
           out == [x \in Loop |-> PushStatement(s, x.start, Len(s), x.hasContent)]
           next == [x \in Loop |-> IF x.i > Len(s) THEN x ELSE SplitLoop(s, x)]
           combine == [p \in Loop \X V |->
                         IF ~stop[p[1]] /\ s[p[1].i] = Semicolon THEN Pushed(p[1]) \o p[2] ELSE p[2]]
           measure == [x \in Loop |-> IF x.i > Len(s) THEN 0 ELSE Len(s) + 1 - x.i]
<1>0. Len(s) \in Nat
  OBVIOUS
<1>a. \A x \in Loop : x.i \in Nat \ {0} /\ x.start \in Nat \ {0}
  BY DEF Loop
<1>1. next \in [Loop -> Loop]
  BY <1>0, <1>a, SplitLoopGoesOn
<1>2. out \in [Loop -> V]
  <2>1. \A x \in Loop : PushStatement(s, x.start, Len(s), x.hasContent) \in V
    BY <1>0, <1>a, PushIs
  <2> HIDE DEF V
  <2> QED BY <2>1
<1>3. combine \in [Loop \X V -> V]
  <2>1. ASSUME NEW p \in Loop \X V
        PROVE  combine[p] \in V
    <3>1. p[1] \in Loop /\ p[2] \in V
      OBVIOUS
    <3>2. CASE ~stop[p[1]] /\ s[p[1].i] = Semicolon
      <4>1. Pushed(p[1]) \in V
        <5>1. p[1].i - 1 \in Nat /\ p[1].i - 1 <= Len(s) /\ p[1].start \in Nat \ {0}
          <6>1. p[1].i \in Nat \ {0} /\ p[1].start \in Nat \ {0}
            BY <1>a, <3>1
          <6>2. ~(p[1].i > Len(s))
            BY <3>1, <3>2
          <6> QED BY <1>0, <6>1, <6>2
        <5> QED BY <5>1, PushIs
      <4>2. combine[p] = Pushed(p[1]) \o p[2]
        BY <3>2
      <4> HIDE DEF Pushed, combine
      <4> QED BY <3>1, <4>1, <4>2
    <3>3. CASE ~(~stop[p[1]] /\ s[p[1].i] = Semicolon)
      <4>1. combine[p] = p[2]
        BY <3>3
      <4> HIDE DEF combine
      <4> QED BY <3>1, <4>1
    <3> QED BY <3>2, <3>3
  <2> HIDE DEF V, stop, Pushed
  <2> QED BY <2>1
<1>4. stop \in [Loop -> BOOLEAN] /\ measure \in [Loop -> Nat]
  BY <1>0, <1>a
<1>5. \A x \in Loop : ~stop[x] => measure[next[x]] < measure[x]
  <2>1. ASSUME NEW x \in Loop, ~stop[x]
        PROVE  measure[next[x]] < measure[x]
    <3> DEFINE y == SplitLoop(s, x)
    <3>1. x.i <= Len(s)
      <4>1. x.i \in Nat \ {0}
        BY <1>a, <2>1
      <4>2. ~(x.i > Len(s))
        BY <2>1
      <4> QED BY <1>0, <4>1, <4>2
    <3>2. y \in Loop /\ y.i > x.i /\ next[x] = y
      BY <2>1, <3>1, SplitLoopGoesOn
    <3> HIDE DEF y, next
    <3> QED BY <1>0, <1>a, <2>1, <3>1, <3>2
  <2> QED BY <2>1
<1>6. \E g : Is(g)
  <2>1. PICK g \in [Loop -> V] :
          \A x \in Loop : g[x] = IF stop[x] THEN out[x] ELSE combine[<<x, g[next[x]]>>]
    <3> HIDE DEF out, measure, next, stop, combine, V
    <3>1. Rounds(Loop, V, stop, out, next, combine, measure)
      BY <1>1, <1>2, <1>3, <1>4, <1>5 DEF Rounds
    <3> QED BY <3>1, LoopDefined
  <2>2. ASSUME NEW x \in Loop
        PROVE  g[x] = Body(g, x)
    <3>1. CASE stop[x]
      BY <2>1, <3>1
    <3>2. CASE ~stop[x]
      <4>1. next[x] \in Loop /\ next[x] = SplitLoop(s, x)
        BY <1>1, <3>2
      <4>2. <<x, g[next[x]]>> \in Loop \X V
        <5> HIDE DEF V, next
        <5> QED BY <4>1
      <4>3. combine[<<x, g[next[x]]>>] =
              IF s[x.i] = Semicolon THEN Pushed(x) \o g[next[x]] ELSE g[next[x]]
        <5> DEFINE y == g[next[x]]
        <5>1. <<x, y>> \in Loop \X V
          BY <4>2
        <5> HIDE DEF y, V, Pushed
        <5>2. combine[<<x, y>>] = IF s[x.i] = Semicolon THEN Pushed(x) \o y ELSE y
          BY <3>2, <5>1
        <5> QED BY <5>2 DEF y
      <4>4. g[x] = combine[<<x, g[next[x]]>>] /\ ~(x.i > Len(s))
        BY <2>1, <3>2
      <4> HIDE DEF combine, next
      <4> QED BY <4>1, <4>3, <4>4
    <3> QED BY <3>1, <3>2
  <2> HIDE DEF Body
  <2> QED BY <2>2
<1> DEFINE e == Splitting(s)
<1>7. Is(e)
  BY <1>6 DEF Splitting
<1> HIDE DEF e
<1>8. \A x \in Loop : e[x] = Body(e, x)
  <2> HIDE DEF Body
  <2> QED BY <1>7
<1> QED BY <1>8 DEF e

(* What `Stop' finds: the first semicolon that ends a statement. *)
LEMMA StopIs ==
  ASSUME NEW s, Len(s) \in Nat, NEW lex, NEW i \in Nat \ {0}, i <= Len(s) + 1
  PROVE  /\ Stop(s, lex, i) \in i..Len(s) + 1
         /\ Stop(s, lex, i) <= Len(s) => Ends(s, lex, Stop(s, lex, i))
         /\ \A j \in i..Len(s) : Ends(s, lex, j) => Stop(s, lex, i) <= j
<1> DEFINE S == {j \in i..Len(s) : Ends(s, lex, j)}
<1>1. Stop(s, lex, i) = Least(S, Len(s) + 1)
  BY DEF Stop
<1>2. S \subseteq Nat /\ \A j \in S : j \in i..Len(s) /\ Ends(s, lex, j)
  OBVIOUS
<1>3. \A j \in i..Len(s) : Ends(s, lex, j) => j \in S
  OBVIOUS
<1> HIDE DEF S
<1>4. CASE S = {}
  <2>1. Stop(s, lex, i) = Len(s) + 1
    BY <1>1, <1>4 DEF Least
  <2> QED BY <1>3, <1>4, <2>1
<1>5. CASE S # {}
  <2>1. Least(S, Len(s) + 1) \in S /\ \A y \in S : Least(S, Len(s) + 1) <= y
    BY <1>2, <1>5, LeastIs
  <2> DEFINE m == Least(S, Len(s) + 1)
  <2>2. m \in i..Len(s) /\ Ends(s, lex, m)
    BY <1>2, <2>1
  <2>3. \A j \in i..Len(s) : Ends(s, lex, j) => m <= j
    BY <1>3, <2>1
  <2> HIDE DEF m
  <2>4. Stop(s, lex, i) = m
    BY <1>1 DEF m
  <2>5. m \in i..Len(s) + 1
    BY <2>2
  <2> QED BY <2>2, <2>3, <2>4, <2>5
<1> QED BY <1>4, <1>5

(* The function that cuts at those semicolons exists, and fits its          *)
(* recursive equation.                                                      *)
LEMMA PgSplittingDefined ==
  ASSUME NEW C, NEW s \in Seq(C)
  PROVE  \A i \in Nat \ {0} :
           PgSplitting(s)[i] =
             IF i > Len(s) THEN <<>>
             ELSE (IF HasText(s, Lex(s), i, Stop(s, Lex(s), i))
                   THEN <<Trim(SubSeq(s, i, Stop(s, Lex(s), i) - 1))>> ELSE <<>>)
                  \o PgSplitting(s)[Stop(s, Lex(s), i) + 1]
<1> DEFINE D == Nat \ {0}
           V == Seq(Seq(C))
           lex == Lex(s)
           end(i) == Stop(s, lex, i)
           First(i) == IF HasText(s, lex, i, end(i))
                       THEN <<Trim(SubSeq(s, i, end(i) - 1))>> ELSE <<>>
           Body(f, i) == IF i > Len(s) THEN <<>> ELSE First(i) \o f[end(i) + 1]
           Is(f) == f = [i \in D |-> Body(f, i)]
           stop == [i \in D |-> i > Len(s)]
           out == [i \in D |-> <<>>]
           next == [i \in D |-> IF i > Len(s) THEN i ELSE end(i) + 1]
           combine == [p \in D \X V |-> IF p[1] > Len(s) THEN p[2] ELSE First(p[1]) \o p[2]]
           measure == [i \in D |-> IF i > Len(s) THEN 0 ELSE Len(s) + 1 - i]
<1>0. Len(s) \in Nat
  OBVIOUS
<1> HIDE DEF lex
<1>1. \A i \in D : i <= Len(s) => end(i) \in D /\ end(i) >= i /\ end(i) - 1 \in Nat /\ end(i) - 1 <= Len(s)
  <2>1. ASSUME NEW i \in D, i <= Len(s)
        PROVE  end(i) \in D /\ end(i) >= i /\ end(i) - 1 \in Nat /\ end(i) - 1 <= Len(s)
    <3>1. Stop(s, lex, i) \in i..Len(s) + 1
      BY <1>0, <2>1, StopIs
    <3> QED BY <1>0, <2>1, <3>1
  <2> QED BY <2>1
<1> HIDE DEF end
<1>2. \A i \in D : i <= Len(s) => First(i) \in V
  <2>1. ASSUME NEW i \in D, i <= Len(s)
        PROVE  First(i) \in V
    <3>1. <<Trim(SubSeq(s, i, end(i) - 1))>> \in Seq(Seq(C)) /\ <<>> \in Seq(Seq(C))
      BY <1>1, <2>1, StatementIs
    <3> QED BY <3>1
  <2> QED BY <2>1
<1> HIDE DEF First
<1>3. next \in [D -> D] /\ measure \in [D -> Nat] /\ stop \in [D -> BOOLEAN]
  <2>1. ASSUME NEW i \in D
        PROVE  next[i] \in D
    <3>1. CASE i > Len(s)
      BY <3>1
    <3>2. CASE ~(i > Len(s))
      <4>1. end(i) \in D
        BY <1>0, <1>1, <3>2
      <4>2. next[i] = end(i) + 1
        BY <3>2
      <4> HIDE DEF next
      <4> QED BY <4>1, <4>2
    <3> QED BY <3>1, <3>2
  <2>2. next \in [D -> D]
    BY <2>1
  <2> QED BY <1>0, <2>2
<1>4. out \in [D -> V]
  <2>1. <<>> \in V
    OBVIOUS
  <2> HIDE DEF V
  <2> QED BY <2>1
<1>5. combine \in [D \X V -> V]
  <2>1. ASSUME NEW p \in D \X V
        PROVE  combine[p] \in V
    <3>1. p[1] \in D /\ p[2] \in V
      OBVIOUS
    <3>2. CASE p[1] > Len(s)
      <4>1. combine[p] = p[2]
        BY <3>2
      <4> QED BY <3>1, <4>1
    <3>3. CASE ~(p[1] > Len(s))
      <4>1. combine[p] = First(p[1]) \o p[2]
        BY <3>3
      <4>2. First(p[1]) \in V
        BY <1>0, <1>2, <3>1, <3>3
      <4> HIDE DEF combine
      <4> QED BY <3>1, <4>1, <4>2
    <3> QED BY <3>2, <3>3
  <2> HIDE DEF V
  <2> QED BY <2>1
<1>6. \A i \in D : ~stop[i] => measure[next[i]] < measure[i]
  <2>1. ASSUME NEW i \in D, ~stop[i]
        PROVE  measure[next[i]] < measure[i]
    <3>1. ~(i > Len(s)) /\ i \in Nat
      BY <2>1
    <3>2. next[i] = end(i) + 1 /\ end(i) \in Nat /\ end(i) >= i
      BY <1>0, <1>1, <3>1
    <3>3. next[i] \in D /\ next[i] > i
      BY <3>1, <3>2
    <3> HIDE DEF next
    <3> QED BY <1>0, <3>1, <3>3
  <2> QED BY <2>1
<1>7. \E g : Is(g)
  <2>1. PICK g \in [D -> V] :
          \A i \in D : g[i] = IF stop[i] THEN out[i] ELSE combine[<<i, g[next[i]]>>]
    <3> HIDE DEF out, measure, next, stop, combine, V, D
    <3>1. Rounds(D, V, stop, out, next, combine, measure)
      BY <1>3, <1>4, <1>5, <1>6 DEF Rounds
    <3> QED BY <3>1, LoopDefined
  <2>2. ASSUME NEW i \in D
        PROVE  g[i] = Body(g, i)
    <3>1. CASE i > Len(s)
      BY <2>1, <3>1
    <3>2. CASE ~(i > Len(s))
      <4>1. next[i] \in D /\ next[i] = end(i) + 1
        BY <1>3, <3>2
      <4> DEFINE y == g[next[i]]
      <4>2. <<i, y>> \in D \X V
        <5> HIDE DEF V, next, D
        <5> QED BY <4>1
      <4>3. g[i] = combine[<<i, y>>]
        BY <2>1, <3>2
      <4>4. combine[<<i, y>>] = First(i) \o y
        <5> HIDE DEF y, V, D
        <5> QED BY <3>2, <4>2
      <4>5. y = g[end(i) + 1]
        BY <4>1
      <4> HIDE DEF y, combine
      <4> QED BY <3>2, <4>3, <4>4, <4>5
    <3> QED BY <3>1, <3>2
  <2> HIDE DEF Body, D
  <2> QED BY <2>2
<1> DEFINE e == PgSplitting(s)
<1>8. Is(e)
  BY <1>7 DEF PgSplitting, First, end, lex
<1> HIDE DEF e
<1>9. \A i \in D : e[i] = Body(e, i)
  <2> HIDE DEF Body, D
  <2> QED BY <1>8
<1> QED BY <1>9 DEF e, First, end, lex

-----------------------------------------------------------------------------
Lexing == [in : {"code", "name", "string", "escape", "quoted", "line", "block", "dollar"},
           since : Nat, depth : Nat, skip : Nat, closed : Nat]

(* A state of the lexer leads to a state of the lexer. *)
LEMMA LexStepIs ==
  ASSUME NEW C, NEW s \in Seq(C), NEW x \in Lexing, NEW i \in 1..Len(s)
  PROVE  LexStep(s, x, i) \in Lexing
<1>0. /\ x.in \in {"code", "name", "string", "escape", "quoted", "line", "block", "dollar"}
      /\ x.since \in Nat /\ x.depth \in Nat /\ x.skip \in Nat /\ x.closed \in Nat
  BY DEF Lexing
<1>i. i \in Nat /\ i >= 1
  OBVIOUS
<1>o. Outside(x, i) \in Lexing
  BY <1>0, <1>i DEF Outside, Lexing
<1>p. ASSUME NEW y \in Lexing, NEW d \in Nat, NEW k \in Nat
      PROVE  [y EXCEPT !.skip = k, !.depth = d] \in Lexing
  BY <1>p DEF Lexing
<1>1. InCode(s, x, i) \in Lexing
  <2> DEFINE Into(what) == [x EXCEPT !.in = what, !.since = i]
  <2>1. \A what \in {"name", "line", "block", "escape", "string", "quoted", "dollar"} :
          Into(what) \in Lexing
    BY <1>0, <1>i DEF Lexing
  <2>2. \A what \in {"line", "block"} : [Into(what) EXCEPT !.skip = i + 1, !.depth = 1] \in Lexing
    <3>1. ASSUME NEW what \in {"line", "block"}
          PROVE  [Into(what) EXCEPT !.skip = i + 1, !.depth = 1] \in Lexing
      <4>1. i + 1 \in Nat /\ 1 \in Nat
        BY <1>i
      <4> HIDE DEF Into
      <4>2. Into(what) \in Lexing
        BY <2>1, <3>1
      <4> QED BY <1>p, <4>1, <4>2
    <3> HIDE DEF Into
    <3> QED BY <3>1
  <2>3. Tag(s, i) # <<>> => [Into("dollar") EXCEPT !.skip = i + Len(Tag(s, i)) - 1] \in Lexing
    <3>1. ASSUME Tag(s, i) # <<>>
          PROVE  i + Len(Tag(s, i)) - 1 \in Nat
      <4>1. PICK c \in i + 1..Len(s) : Len(Tag(s, i)) = c - i + 1
        BY <1>i, <3>1, TagIs
      <4> QED BY <1>i, <4>1
    <3> QED BY <1>0, <1>i, <3>1 DEF Lexing
  <2> HIDE DEF Into
  <2> QED BY <1>o, <2>1, <2>2, <2>3 DEF InCode, Into
<1>2. \A q : InQuotes(s, x, i, q) \in Lexing
  <2>1. [x EXCEPT !.skip = i + 1] \in Lexing
    BY <1>0, <1>i DEF Lexing
  <2>2. [Outside(x, i) EXCEPT !.closed = IF x.in = "escape" THEN i ELSE @] \in Lexing
    <3>1. CASE x.in = "escape"
      BY <1>0, <1>i, <3>1 DEF Lexing, Outside
    <3>2. CASE x.in # "escape"
      BY <1>0, <1>i, <3>2 DEF Lexing, Outside
    <3> QED BY <3>1, <3>2
  <2> QED BY <2>1, <2>2 DEF InQuotes
<1>3. x.depth > 0 => InBlock(s, x, i) \in Lexing
  <2>1. \A d \in Nat, k \in Nat : [x EXCEPT !.depth = d, !.skip = k] \in Lexing
    BY DEF Lexing
  <2>2. x.depth + 1 \in Nat /\ (x.depth > 0 => x.depth - 1 \in Nat) /\ i + 1 \in Nat
    BY <1>0, <1>i
  <2>3. /\ [x EXCEPT !.depth = @ + 1, !.skip = i + 1] = [x EXCEPT !.depth = x.depth + 1, !.skip = i + 1]
        /\ [x EXCEPT !.depth = @ - 1, !.skip = i + 1] = [x EXCEPT !.depth = x.depth - 1, !.skip = i + 1]
    OBVIOUS
  <2> QED BY <2>1, <2>2, <2>3 DEF InBlock
<1>4. InDollar(s, x, i) \in Lexing
  BY <1>o DEF InDollar
<1>5. x.depth = 0 \/ x.depth > 0
  BY <1>0
<1> QED BY <1>0, <1>1, <1>2, <1>3, <1>4, <1>5, <1>o DEF LexStep

LexStart == [in |-> "code", since |-> 0, depth |-> 0, skip |-> 0, closed |-> 0]

(* The lexer's function exists, and fits its recursive equation. *)
LEMMA LexDefined ==
  ASSUME NEW C, NEW s \in Seq(C)
  PROVE  /\ Lex(s)[0] = LexStart
         /\ \A i \in 1..Len(s) : Lex(s)[i] = LexStep(s, Lex(s)[i - 1], i)
         /\ \A i \in 0..Len(s) : Lex(s)[i] \in Lexing
<1> DEFINE D == 0..Len(s)
           Body(f, i) == IF i = 0 THEN LexStart ELSE LexStep(s, f[i - 1], i)
           Is(f) == f = [i \in D |-> Body(f, i)]
           stop == [i \in D |-> i = 0]
           out == [i \in D |-> LexStart]
           next == [i \in D |-> IF i = 0 THEN 0 ELSE i - 1]
           combine == [p \in D \X Lexing |-> IF p[1] = 0 THEN p[2] ELSE LexStep(s, p[2], p[1])]
           measure == [i \in D |-> i]
<1>0. Len(s) \in Nat
  OBVIOUS
<1>1. LexStart \in Lexing
  BY DEF LexStart, Lexing
<1>2. out \in [D -> Lexing]
  BY <1>1
<1>3. next \in [D -> D] /\ measure \in [D -> Nat] /\ stop \in [D -> BOOLEAN]
  BY <1>0
<1>4. combine \in [D \X Lexing -> Lexing]
  <2>1. ASSUME NEW p \in D \X Lexing
        PROVE  combine[p] \in Lexing
    <3>1. p[1] \in D /\ p[2] \in Lexing
      OBVIOUS
    <3>2. CASE p[1] = 0
      BY <3>1, <3>2
    <3>3. CASE p[1] # 0
      <4>1. p[1] \in 1..Len(s)
        BY <1>0, <3>1, <3>3
      <4> QED BY <3>1, <3>3, <4>1, LexStepIs
    <3> QED BY <3>2, <3>3
  <2> QED BY <2>1
<1>5. \A i \in D : ~stop[i] => measure[next[i]] < measure[i]
  BY <1>0
<1>6. \E g : Is(g)
  <2>1. PICK g \in [D -> Lexing] :
          \A i \in D : g[i] = IF stop[i] THEN out[i] ELSE combine[<<i, g[next[i]]>>]
    <3> HIDE DEF out, measure, next, stop, combine, D
    <3>1. Rounds(D, Lexing, stop, out, next, combine, measure)
      BY <1>2, <1>3, <1>4, <1>5 DEF Rounds
    <3> QED BY <3>1, LoopDefined
  <2>2. ASSUME NEW i \in D
        PROVE  g[i] = Body(g, i)
    <3>1. CASE i = 0
      BY <2>1, <3>1
    <3>2. CASE i # 0
      <4>1. next[i] \in D /\ next[i] = i - 1
        BY <1>3, <3>2
      <4> DEFINE y == g[i - 1]
      <4>2. <<i, y>> \in D \X Lexing
        BY <4>1
      <4>3. g[i] = combine[<<i, y>>]
        BY <2>1, <3>2, <4>1
      <4>4. combine[<<i, y>>] = LexStep(s, y, i)
        <5> HIDE DEF y, D
        <5> QED BY <3>2, <4>2
      <4> HIDE DEF combine
      <4> QED BY <3>2, <4>3, <4>4
    <3> QED BY <3>1, <3>2
  <2> HIDE DEF Body, D
  <2> QED BY <2>2
<1> DEFINE e == Lex(s)
<1>7. Is(e)
  BY <1>6 DEF Lex, LexStart
<1> HIDE DEF e
<1>8. \A i \in D : e[i] = Body(e, i)
  <2> HIDE DEF Body, D
  <2> QED BY <1>7
<1>9. e[0] = LexStart /\ \A i \in 1..Len(s) : e[i] = LexStep(s, e[i - 1], i)
  BY <1>0, <1>8
<1>10. \A i \in 0..Len(s) : e[i] \in Lexing
  <2> DEFINE T == {i \in Nat : i <= Len(s) => e[i] \in Lexing}
  <2>1. 0 \in T
    BY <1>1, <1>9
  <2>2. ASSUME NEW i \in Nat, i >= 0, i \in T
        PROVE  i + 1 \in T
    <3>1. ASSUME i + 1 <= Len(s)
          PROVE  e[i + 1] \in Lexing
      <4>1. e[i] \in Lexing /\ i + 1 \in 1..Len(s) /\ (i + 1) - 1 = i
        BY <1>0, <2>2, <3>1
      <4>2. LexStep(s, e[i], i + 1) \in Lexing
        BY <4>1, LexStepIs
      <4>3. e[i + 1] = LexStep(s, e[(i + 1) - 1], i + 1)
        BY <1>9, <4>1
      <4> QED BY <4>1, <4>2, <4>3
    <3> QED BY <3>1
  <2> HIDE DEF T
  <2>3. \A i \in Nat : i >= 0 => i \in T
    BY <2>1, <2>2, Upwards
  <2> QED BY <1>0, <2>3 DEF T
<1> QED BY <1>9, <1>10 DEF e

LD == Letter \cup Digit \cup {"$"}

(* Where a character in code leads. *)
FromCode(s, x, i, y) ==
  /\ x.in = "name" /\ s[i] \in LD => y = x
  /\ ~(x.in = "name" /\ s[i] \in LD) =>
       /\ y.since = i
       /\ s[i] \in Letter => y.in = "name" /\ y.skip = x.skip
       /\ s[i] \notin Letter =>
            /\ IsComment(s, i) =>
                 /\ y.in = IF s[i] = "-" THEN "line" ELSE "block"
                 /\ y.skip = i + 1 /\ y.depth = 1
            /\ ~IsComment(s, i) =>
                 /\ s[i] = "'" =>
                      /\ y.skip = x.skip
                      /\ y.in = IF \/ x.in = "name" /\ x.since = i - 1 /\ s[i - 1] = "E"
                                   \/ Continues(s, x, i)
                                THEN "escape" ELSE "string"
                 /\ s[i] = DoubleQuote => y.in = "quoted" /\ y.skip = x.skip
                 /\ s[i] \notin {"'", DoubleQuote} =>
                      /\ Tag(s, i) # <<>> => y.in = "dollar" /\ y.skip = i + Len(Tag(s, i)) - 1
                      /\ Tag(s, i) = <<>> => y.in = "code" /\ y.skip = x.skip

(* What `InCode' gives. *)
LEMMA InCodeIs ==
  ASSUME NEW s, NEW x \in Lexing, NEW i
  PROVE  FromCode(s, x, i, InCode(s, x, i))
<1> USE DEF FromCode
<1> DEFINE Into(what) == [x EXCEPT !.in = what, !.since = i]
<1>1. \A what : Into(what).in = what /\ Into(what).since = i /\ Into(what).skip = x.skip
  BY DEF Lexing
<1>2. \A what, k : LET z == [Into(what) EXCEPT !.skip = k, !.depth = 1]
                   IN  z.in = what /\ z.since = i /\ z.skip = k /\ z.depth = 1
  BY DEF Lexing
<1>3. \A what, k : LET z == [Into(what) EXCEPT !.skip = k]
                   IN  z.in = what /\ z.since = i /\ z.skip = k
  BY DEF Lexing
<1>4. Outside(x, i).in = "code" /\ Outside(x, i).since = i /\ Outside(x, i).skip = x.skip
  BY DEF Lexing, Outside
<1> DEFINE y == InCode(s, x, i)
<1>5. CASE x.in = "name" /\ s[i] \in LD
  BY <1>5 DEF InCode, LD
<1>6. CASE ~(x.in = "name" /\ s[i] \in LD)
  <2> HIDE DEF Into
  <2>1. CASE s[i] \in Letter
    <3>1. y = Into("name")
      BY <1>6, <2>1 DEF InCode, LD, Into
    <3> QED BY <1>1, <1>6, <2>1, <3>1
  <2>2. CASE s[i] \notin Letter /\ IsComment(s, i)
    <3>1. y = [Into(IF s[i] = "-" THEN "line" ELSE "block") EXCEPT !.skip = i + 1, !.depth = 1]
      BY <1>6, <2>2 DEF InCode, LD, Into
    <3> QED BY <1>2, <1>6, <2>2, <3>1
  <2>3. CASE s[i] \notin Letter /\ ~IsComment(s, i) /\ s[i] = "'"
    <3>1. y = Into(IF \/ x.in = "name" /\ x.since = i - 1 /\ s[i - 1] = "E"
                      \/ Continues(s, x, i)
                   THEN "escape" ELSE "string")
      BY <1>6, <2>3, QuotesDiffer DEF InCode, LD, Into
    <3> QED BY <1>1, <1>6, <2>3, <3>1, QuotesDiffer
  <2>4. CASE s[i] \notin Letter /\ ~IsComment(s, i) /\ s[i] = DoubleQuote
    <3>1. y = Into("quoted")
      BY <1>6, <2>4, QuotesDiffer DEF InCode, LD, Into
    <3> QED BY <1>1, <1>6, <2>4, <3>1, QuotesDiffer
  <2>5. CASE s[i] \notin Letter /\ ~IsComment(s, i) /\ s[i] \notin {"'", DoubleQuote} /\ Tag(s, i) # <<>>
    <3>1. y = [Into("dollar") EXCEPT !.skip = i + Len(Tag(s, i)) - 1]
      BY <1>6, <2>5 DEF InCode, LD, Into
    <3>2. y.in = "dollar" /\ y.since = i /\ y.skip = i + Len(Tag(s, i)) - 1
      BY <1>3, <3>1
    <3> QED BY <1>6, <2>5, <3>2
  <2>6. CASE s[i] \notin Letter /\ ~IsComment(s, i) /\ s[i] \notin {"'", DoubleQuote} /\ Tag(s, i) = <<>>
    <3>1. y = Outside(x, i)
      BY <1>6, <2>6 DEF InCode, LD, Into
    <3> QED BY <1>4, <1>6, <2>6, <3>1
  <2> QED BY <2>1, <2>2, <2>3, <2>4, <2>5, <2>6
<1> QED BY <1>5, <1>6

(* In quotes. *)
FromQuotes(s, x, i, q, y) ==
  /\ x.in = "escape" /\ s[i] = "\\" =>
       y.in = x.in /\ y.since = x.since /\ y.skip = i + 1
  /\ ~(x.in = "escape" /\ s[i] = "\\") =>
       /\ s[i] # q => y = x
       /\ s[i] = q /\ At(s, i + 1) = q =>
            y.in = x.in /\ y.since = x.since /\ y.skip = i + 1
       /\ s[i] = q /\ At(s, i + 1) # q =>
            y.in = "code" /\ y.since = i /\ y.skip = x.skip

(* What `InQuotes' gives. *)
LEMMA InQuotesIs ==
  ASSUME NEW s, NEW x \in Lexing, NEW i, NEW q
  PROVE  FromQuotes(s, x, i, q, InQuotes(s, x, i, q))
<1> USE DEF FromQuotes
<1>1. LET y == [x EXCEPT !.skip = i + 1]
      IN  y.in = x.in /\ y.since = x.since /\ y.skip = i + 1
  BY DEF Lexing
<1>2. LET y == [Outside(x, i) EXCEPT !.closed = IF x.in = "escape" THEN i ELSE @]
      IN  y.in = "code" /\ y.since = i /\ y.skip = x.skip
  BY DEF Lexing, Outside
<1> QED BY <1>1, <1>2 DEF InQuotes

(* In a comment. *)
FromBlock(s, x, i, y) ==
  /\ y.in = x.in /\ y.since = x.since
  /\ s[i] = "/" /\ At(s, i + 1) = "*" => y.depth = x.depth + 1 /\ y.skip = i + 1
  /\ ~(s[i] = "/" /\ At(s, i + 1) = "*") =>
       /\ s[i] = "*" /\ At(s, i + 1) = "/" => y.depth = x.depth - 1 /\ y.skip = i + 1
       /\ ~(s[i] = "*" /\ At(s, i + 1) = "/") => y = x

(* What `InBlock' gives. *)
LEMMA InBlockIs ==
  ASSUME NEW s, NEW x \in Lexing, NEW i
  PROVE  FromBlock(s, x, i, InBlock(s, x, i))
<1> USE DEF FromBlock
<1>1. LET y == [x EXCEPT !.depth = @ + 1, !.skip = i + 1]
      IN  y.in = x.in /\ y.since = x.since /\ y.depth = x.depth + 1 /\ y.skip = i + 1
  BY DEF Lexing
<1>2. LET y == [x EXCEPT !.depth = @ - 1, !.skip = i + 1]
      IN  y.in = x.in /\ y.since = x.since /\ y.depth = x.depth - 1 /\ y.skip = i + 1
  BY DEF Lexing
<1> QED BY <1>1, <1>2 DEF InBlock

(* What `Outside' gives. *)
LEMMA OutsideIs ==
  ASSUME NEW x \in Lexing, NEW i
  PROVE  LET y == Outside(x, i) IN y.in = "code" /\ y.since = i /\ y.skip = x.skip
BY DEF Lexing, Outside

(* What the state after a character tells of it. *)
LexOK(s, i) ==
  LET x == Lex(s)[i]
  IN  /\ x.since <= i
      /\ x.in \in {"code", "name"} => x.skip <= i
      /\ x.in = "block" /\ x.depth = 0 => x.skip >= i /\ s[x.skip] = "/"
      /\ x.in = "name" =>
           /\ i >= 1 /\ s[i] \in LD
           /\ x.since = i \/ (i >= 2 /\ s[i - 1] \in LD)
      /\ x.in = "code" /\ i >= 1 => s[i] \notin Letter
      /\ x.in = "dollar" => Tag(s, x.since) # <<>>

(* The state before character i is outside of everything. *)
Open(s, i) ==
  LET x == Lex(s)[i - 1]
  IN  /\ x.skip < i
      /\ x.in \in {"code", "name"} \/ (x.in = "block" /\ x.depth = 0)

(* A character that `At' finds is one of the script. *)
LEMMA AtIs ==
  ASSUME NEW C, NEW s \in Seq(C), NEW i, NEW c, c # "none", At(s, i) = c
  PROVE  i \in 1..Len(s) /\ s[i] = c
BY DEF At

(* What the state tells of a character, it tells of the next one. *)
LEMMA LexOKStep ==
  ASSUME NEW C, NEW s \in Seq(C), NEW i \in 1..Len(s), LexOK(s, i - 1)
  PROVE  LexOK(s, i)
<1> DEFINE x == Lex(s)[i - 1]
           y == Lex(s)[i]
<1>1. i \in Nat /\ i >= 1 /\ Len(s) \in Nat /\ i <= Len(s) /\ i - 1 \in 0..Len(s) /\ i \in 0..Len(s)
  OBVIOUS
<1>2. x \in Lexing /\ y = LexStep(s, x, i)
  BY <1>1, LexDefined
<1>3. /\ x.since <= i - 1
      /\ x.in \in {"code", "name"} => x.skip <= i - 1
      /\ x.in = "block" /\ x.depth = 0 => x.skip >= i - 1 /\ s[x.skip] = "/"
      /\ x.in = "name" => i - 1 >= 1 /\ s[i - 1] \in LD
      /\ x.in = "dollar" => Tag(s, x.since) # <<>>
  BY DEF LexOK
<1>4. /\ x.in \in {"code", "name", "string", "escape", "quoted", "line", "block", "dollar"}
      /\ x.since \in Nat /\ x.depth \in Nat /\ x.skip \in Nat
  BY <1>2 DEF Lexing
<1>5. SUFFICES /\ y.since <= i
               /\ y.in \in {"code", "name"} => y.skip <= i
               /\ y.in = "block" /\ y.depth = 0 => y.skip >= i /\ s[y.skip] = "/"
               /\ y.in = "name" =>
                    s[i] \in LD /\ (y.since = i \/ (i >= 2 /\ s[i - 1] \in LD))
               /\ y.in = "code" => s[i] \notin Letter
               /\ y.in = "dollar" => Tag(s, y.since) # <<>>
  BY <1>1 DEF LexOK
<1> HIDE DEF x, y
<1>6. CASE i <= x.skip
  <2>1. y = x
    BY <1>2, <1>6 DEF LexStep
  <2>2. x.in \notin {"code", "name"}
    BY <1>1, <1>3, <1>4, <1>6
  <2> QED BY <1>1, <1>3, <1>4, <1>6, <2>1, <2>2
<1>7. CASE ~(i <= x.skip) /\ (x.in \in {"code", "name"} \/ (x.in = "block" /\ x.depth = 0))
  <2>1. y = InCode(s, x, i)
    BY <1>2, <1>7 DEF LexStep
  <2>f. FromCode(s, x, i, y)
    BY <1>2, <2>1, InCodeIs
  <2>2. x.skip < i
    BY <1>1, <1>4, <1>7
  <2>3. CASE x.in = "name" /\ s[i] \in LD
    <3>1. y = x
      BY <1>1, <2>f, <2>3 DEF FromCode
    <3> QED BY <1>1, <1>3, <1>4, <2>2, <2>3, <3>1
  <2>4. CASE ~(x.in = "name" /\ s[i] \in LD) /\ s[i] \in Letter
    <3>1. y.since = i /\ y.in = "name" /\ y.skip = x.skip
      BY <1>1, <2>f, <2>4 DEF FromCode
    <3> QED BY <1>1, <1>4, <2>2, <2>4, <3>1 DEF LD
  <2>5. CASE ~(x.in = "name" /\ s[i] \in LD) /\ s[i] \notin Letter
    <3>1. /\ y.since = i /\ y.in # "name"
          /\ y.in = "code" => y.skip = x.skip
          /\ y.in = "block" => y.depth = 1
          /\ y.in = "dollar" => Tag(s, i) # <<>>
      <4>0. y.since = i
        BY <1>1, <2>f, <2>5 DEF FromCode
      <4>1. CASE IsComment(s, i)
        <5>1. y.in = (IF s[i] = "-" THEN "line" ELSE "block") /\ y.depth = 1
          BY <1>1, <2>f, <2>5, <4>1 DEF FromCode
        <5> QED BY <4>0, <5>1
      <4>2. CASE ~IsComment(s, i) /\ s[i] = "'"
        <5>1. y.in \in {"escape", "string"}
          BY <1>1, <2>f, <2>5, <4>2 DEF FromCode
        <5> QED BY <4>0, <5>1
      <4>3. CASE ~IsComment(s, i) /\ s[i] = DoubleQuote
        <5>1. y.in = "quoted"
          BY <1>1, <2>f, <2>5, <4>3 DEF FromCode
        <5> QED BY <4>0, <5>1
      <4>4. CASE ~IsComment(s, i) /\ s[i] \notin {"'", DoubleQuote}
        <5>1. CASE Tag(s, i) # <<>>
          <6>1. y.in = "dollar"
            BY <1>1, <2>f, <2>5, <4>4, <5>1 DEF FromCode
          <6> QED BY <4>0, <5>1, <6>1
        <5>2. CASE Tag(s, i) = <<>>
          <6>1. y.in = "code" /\ y.skip = x.skip
            BY <1>1, <2>f, <2>5, <4>4, <5>2 DEF FromCode
          <6> QED BY <4>0, <6>1
        <5> QED BY <5>1, <5>2
      <4> QED BY <4>1, <4>2, <4>3, <4>4
    <3> QED BY <1>1, <1>4, <2>2, <2>5, <3>1
  <2> QED BY <2>3, <2>4, <2>5
<1>8. CASE ~(i <= x.skip) /\ x.in \in {"string", "escape", "quoted"}
  <2>1. PICK q \in {"'", DoubleQuote} : y = InQuotes(s, x, i, q)
    BY <1>2, <1>8 DEF LexStep
  <2>f. FromQuotes(s, x, i, q, y)
    BY <1>2, <2>1, InQuotesIs
  <2>2. x.skip < i
    BY <1>1, <1>4, <1>8
  <2>3. q \notin Letter
    BY <2>1, Characters
  <2>4. \/ y.in = x.in /\ y.since = x.since
        \/ y.in = "code" /\ y.since = i /\ y.skip = x.skip /\ s[i] = q
    BY <1>1, <2>f DEF FromQuotes
  <2> QED BY <1>1, <1>3, <1>4, <1>8, <2>2, <2>3, <2>4
<1>9. CASE ~(i <= x.skip) /\ x.in = "block" /\ x.depth > 0
  <2>1. y = InBlock(s, x, i)
    BY <1>2, <1>4, <1>9 DEF LexStep
  <2>f. FromBlock(s, x, i, y)
    BY <1>2, <2>1, InBlockIs
  <2>2. y.in = "block" /\ y.since = x.since
    BY <1>1, <1>9, <2>f DEF FromBlock
  <2>3. ASSUME y.depth = 0
        PROVE  y.skip = i + 1 /\ s[y.skip] = "/"
    <3>1. s[i] = "*" /\ At(s, i + 1) = "/" /\ y.skip = i + 1
      <4>1. ~(s[i] = "/" /\ At(s, i + 1) = "*")
        <5>1. ASSUME s[i] = "/" /\ At(s, i + 1) = "*"
              PROVE  y.depth = x.depth + 1
          BY <1>1, <1>4, <2>f, <5>1 DEF FromBlock
        <5> QED BY <1>4, <2>3, <5>1
      <4>2. s[i] = "*" /\ At(s, i + 1) = "/"
        <5>1. ASSUME ~(s[i] = "*" /\ At(s, i + 1) = "/")
              PROVE  y = x
          BY <1>1, <2>f, <4>1, <5>1 DEF FromBlock
        <5> QED BY <1>9, <2>3, <5>1
      <4> QED BY <1>1, <1>4, <2>f, <4>1, <4>2 DEF FromBlock
    <3> QED BY <3>1, AtIs
  <2> QED BY <1>1, <1>3, <1>4, <2>2, <2>3
<1>10. CASE ~(i <= x.skip) /\ x.in = "dollar"
  <2>1. y = InDollar(s, x, i)
    BY <1>2, <1>10 DEF LexStep
  <2>2. CASE y = x
    BY <1>1, <1>3, <1>4, <1>10, <2>2
  <2>3. CASE y # x
    <3> DEFINE tag == Tag(s, x.since)
               start == i - Len(tag) + 1
    <3>1. y = Outside(x, i) /\ start >= x.since + Len(tag) /\ SubSeq(s, start, i) = tag
      BY <2>1, <2>3 DEF InDollar
    <3>2. y.in = "code" /\ y.since = i /\ y.skip = x.skip
      BY <1>2, <3>1, OutsideIs
    <3>3. s[i] \notin Letter
      <4>1. x.since \in Nat /\ tag # <<>>
        BY <1>3, <1>4, <1>10
      <4>2. x.since \in 1..Len(s) /\ \E c \in x.since + 1..Len(s) : Len(tag) = c - x.since + 1
        BY <4>1, TagIs
      <4> DEFINE n == Len(tag)
      <4> HIDE DEF tag
      <4>3. n \in Nat /\ n >= 2
        BY <1>1, <4>1, <4>2
      <4>4. start = i - n + 1 /\ start >= x.since + n
        BY <3>1
      <4>5. start \in Nat /\ start \in 1..Len(s) + 1 - n /\ start + n - 1 = i
        BY <1>1, <4>1, <4>3, <4>4
      <4>6. IsAt(s, tag, start)
        BY <3>1, <4>5 DEF IsAt
      <4>7. s[i] = "$"
        <5> HIDE DEF start
        <5>1. s[start + n - 1] = "$"
          BY <4>1, <4>5, <4>6, TagEndsInDollar DEF tag
        <5> QED BY <4>5, <5>1
      <4> QED BY <4>7, Characters
    <3> QED BY <1>1, <1>4, <1>10, <3>2, <3>3
  <2> QED BY <2>2, <2>3
<1>11. CASE ~(i <= x.skip) /\ x.in = "line"
  <2>1. y = IF s[i] = "\n" THEN Outside(x, i) ELSE x
    BY <1>2, <1>11 DEF LexStep
  <2>2. CASE s[i] = "\n"
    <3>1. y.in = "code" /\ y.since = i /\ y.skip = x.skip
      BY <1>2, <2>1, <2>2, OutsideIs
    <3>2. s[i] \notin Letter
      BY <2>2, Characters DEF Blank
    <3> QED BY <1>1, <1>4, <1>11, <3>1, <3>2
  <2>3. CASE s[i] # "\n"
    <3>1. y = x
      BY <2>1, <2>3
    <3>2. y.since <= i /\ y.in = "line"
      BY <1>1, <1>3, <1>4, <1>11, <3>1
    <3> QED BY <3>2
  <2> QED BY <2>2, <2>3
<1> QED BY <1>4, <1>6, <1>7, <1>8, <1>9, <1>10, <1>11

(* The state after each character tells that much of it. *)
LEMMA LexAlwaysOK ==
  ASSUME NEW C, NEW s \in Seq(C)
  PROVE  \A i \in 0..Len(s) : LexOK(s, i)
<1> DEFINE T == {i \in Nat : i <= Len(s) => LexOK(s, i)}
<1>0. Len(s) \in Nat
  OBVIOUS
<1>1. 0 \in T
  <2>1. Lex(s)[0] = LexStart
    BY LexDefined
  <2>2. LexOK(s, 0)
    BY <2>1 DEF LexOK, LexStart
  <2> QED BY <2>2
<1>2. ASSUME NEW i \in Nat, i >= 0, i \in T
      PROVE  i + 1 \in T
  <2>1. ASSUME i + 1 <= Len(s)
        PROVE  LexOK(s, i + 1)
    <3>1. i + 1 \in 1..Len(s) /\ (i + 1) - 1 = i /\ LexOK(s, i)
      BY <1>0, <1>2, <2>1
    <3>2. LexOK(s, (i + 1) - 1)
      BY <3>1
    <3> QED BY <3>1, <3>2, LexOKStep
  <2> QED BY <2>1
<1> HIDE DEF T
<1>3. \A i \in Nat : i >= 0 => i \in T
  BY <1>1, <1>2, Upwards
<1> QED BY <1>0, <1>3 DEF T

(* What follows an open place. *)
LEMMA OpenStep ==
  ASSUME NEW C, NEW s \in Seq(C), NEW i \in 1..Len(s), Open(s, i)
  PROVE  FromCode(s, Lex(s)[i - 1], i, Lex(s)[i])
<1> DEFINE x == Lex(s)[i - 1]
           y == Lex(s)[i]
<1>1. i - 1 \in 0..Len(s) /\ i \in Nat
  OBVIOUS
<1>2. x \in Lexing /\ y = LexStep(s, x, i)
  BY <1>1, LexDefined
<1>3. x.skip < i /\ (x.in \in {"code", "name"} \/ (x.in = "block" /\ x.depth = 0))
  BY DEF Open
<1>4. x.skip \in Nat
  BY <1>2 DEF Lexing
<1> HIDE DEF x, y
<1>5. ~(i <= x.skip)
  BY <1>1, <1>3, <1>4
<1>6. y = InCode(s, x, i)
  BY <1>2, <1>3, <1>5 DEF LexStep
<1>7. FromCode(s, x, i, y)
  BY <1>2, <1>6, InCodeIs
<1> QED BY <1>7 DEF x, y

(* Both see the same strings with escapes. *)
LEMMA EscapeSeen ==
  ASSUME NEW C, NEW s \in Seq(C), NEW i \in 1..Len(s), Open(s, i),
         s[i] = "'", ~Unusual(s)
  PROVE  /\ Lex(s)[i].in \in {"escape", "string"}
         /\ Lex(s)[i].in = "escape" <=> IsEscapeString(s, i)
<1> DEFINE x == Lex(s)[i - 1]
           y == Lex(s)[i]
<1>1. i \in Nat /\ i >= 1 /\ i <= Len(s) /\ Len(s) \in Nat /\ i - 1 \in 0..Len(s)
  OBVIOUS
<1>2. FromCode(s, x, i, y)
  BY OpenStep
<1>3. s[i] \notin LD /\ s[i] \notin Letter /\ ~IsComment(s, i)
  BY Characters DEF IsComment, LD
<1>4. /\ y.since = i
      /\ y.in = IF \/ x.in = "name" /\ x.since = i - 1 /\ s[i - 1] = "E"
                   \/ Continues(s, x, i)
                THEN "escape" ELSE "string"
  BY <1>2, <1>3 DEF FromCode
<1>5. y.in = "escape" => IsEscapeString(s, i)
  <2>1. i \in DOMAIN s
    BY <1>1
  <2> QED BY <1>4, <2>1 DEF Unusual
<1>6. ASSUME IsEscapeString(s, i)
      PROVE  y.in = "escape"
  <2>1. At(s, i - 1) = "E" /\ At(s, i - 2) \notin LD
    BY <1>6 DEF IsEscapeString, LD
  <2>2. i - 1 \in 1..Len(s) /\ s[i - 1] = "E"
    BY <2>1, AtIs
  <2>3. s[i - 1] \in Letter /\ s[i - 1] # "/"
    BY <2>2, Characters
  <2>4. LexOK(s, i - 1)
    BY <1>1, LexAlwaysOK
  <2>5. x \in Lexing
    BY <1>1, LexDefined
  <2>6. x.skip \in Nat /\ x.since \in Nat
    BY <2>5 DEF Lexing
  <2>7. x.skip < i /\ (x.in \in {"code", "name"} \/ (x.in = "block" /\ x.depth = 0))
    BY DEF Open
  <2>8. x.in # "code"
    BY <1>1, <2>2, <2>3, <2>4 DEF LexOK
  <2>9. ~(x.in = "block" /\ x.depth = 0)
    <3>1. ASSUME x.in = "block" /\ x.depth = 0
          PROVE  FALSE
      <4>1. x.skip >= i - 1 /\ s[x.skip] = "/"
        BY <2>4, <3>1 DEF LexOK
      <4>2. x.skip = i - 1
        BY <1>1, <2>6, <2>7, <4>1
      <4> QED BY <2>3, <4>1, <4>2
    <3> QED BY <3>1
  <2>10. x.in = "name"
    BY <2>7, <2>8, <2>9
  <2>11. x.since = i - 1 \/ (i - 1 >= 2 /\ s[(i - 1) - 1] \in LD)
    BY <2>4, <2>10 DEF LexOK
  <2>12. ~(i - 1 >= 2 /\ s[(i - 1) - 1] \in LD)
    <3>1. ASSUME i - 1 >= 2
          PROVE  At(s, i - 2) = s[(i - 1) - 1]
      <4>1. i - 2 \in DOMAIN s /\ (i - 1) - 1 = i - 2
        BY <1>1, <3>1
      <4> QED BY <4>1 DEF At
    <3> QED BY <2>1, <3>1
  <2> QED BY <1>4, <2>2, <2>10, <2>11, <2>12
<1> QED BY <1>4, <1>5, <1>6

-----------------------------------------------------------------------------
Dark(s, k) == s[k] \notin Blank /\ Lex(s)[k].in \notin {"line", "block"}

(* The splitter goes from i to e in one step, and the lexer is open again   *)
(* there; on the way no statement ends, and there is text just if the       *)
(* splitter thinks so.                                                      *)
Passed(s, i, e, content) ==
  /\ e \in Nat /\ e > i
  /\ e <= Len(s) => Open(s, e)
  /\ \A k \in i..Len(s) : k < e => ~Ends(s, Lex(s), k)
  /\ content <=> \E k \in i..Len(s) : k < e /\ Dark(s, k)

Content(s, i) == s[i] \notin Blank /\ ~IsComment(s, i)

(* The splitter takes a character that begins nothing as the lexer does. *)
LEMMA OnePassed ==
  ASSUME NEW C, NEW s \in Seq(C), NEW i \in 1..Len(s), Open(s, i), s[i] # Semicolon,
         ~IsComment(s, i), s[i] \notin {"'", DoubleQuote}, Tag(s, i) = <<>>
  PROVE  Passed(s, i, i + 1, Content(s, i))
<1> DEFINE x == Lex(s)[i - 1]
           y == Lex(s)[i]
<1>1. i \in Nat /\ i >= 1 /\ i <= Len(s) /\ Len(s) \in Nat /\ i - 1 \in 0..Len(s)
  OBVIOUS
<1>2. FromCode(s, x, i, y)
  BY OpenStep
<1>3. x.skip < i
  BY DEF Open
<1>4. y.in \in {"code", "name"} /\ y.skip = x.skip
  <2>1. CASE x.in = "name" /\ s[i] \in LD
    BY <1>2, <2>1 DEF FromCode
  <2>2. CASE ~(x.in = "name" /\ s[i] \in LD) /\ s[i] \in Letter
    BY <1>2, <2>2 DEF FromCode
  <2>3. CASE ~(x.in = "name" /\ s[i] \in LD) /\ s[i] \notin Letter
    BY <1>2, <2>3 DEF FromCode
  <2> QED BY <2>1, <2>2, <2>3
<1>5. y.skip < i + 1
  <2>1. x \in Lexing
    BY <1>1, LexDefined
  <2>2. x.skip \in Nat
    BY <2>1 DEF Lexing
  <2> QED BY <1>1, <1>3, <1>4, <2>2
<1>6. Open(s, i + 1)
  <2>1. (i + 1) - 1 = i
    BY <1>1
  <2> QED BY <1>4, <1>5, <2>1 DEF Open
<1>7. \A k \in i..Len(s) : k < i + 1 <=> k = i
  BY <1>1
<1>8. i \in i..Len(s)
  BY <1>1
<1>9. Dark(s, i) <=> Content(s, i)
  BY <1>4 DEF Dark, Content
<1>10. ~Ends(s, Lex(s), i)
  BY DEF Ends
<1> QED BY <1>1, <1>6, <1>7, <1>8, <1>9, <1>10 DEF Passed

(* Two states in a row. *)
LEMMA Lexed ==
  ASSUME NEW C, NEW s \in Seq(C), NEW i \in 1..Len(s)
  PROVE  /\ Lex(s)[i - 1] \in Lexing /\ Lex(s)[i] \in Lexing
         /\ Lex(s)[i] = LexStep(s, Lex(s)[i - 1], i)
         /\ Lex(s)[i - 1].skip \in Nat /\ Lex(s)[i - 1].depth \in Nat
         /\ Lex(s)[i].skip \in Nat /\ Lex(s)[i].depth \in Nat
<1>1. i - 1 \in 0..Len(s) /\ i \in 0..Len(s)
  OBVIOUS
<1>2. Lex(s)[i - 1] \in Lexing /\ Lex(s)[i] \in Lexing /\ Lex(s)[i] = LexStep(s, Lex(s)[i - 1], i)
  BY <1>1, LexDefined
<1> QED BY <1>2 DEF Lexing

(* A character that is accounted for changes nothing. *)
LEMMA SkipStep ==
  ASSUME NEW C, NEW s \in Seq(C), NEW i \in 1..Len(s), i <= Lex(s)[i - 1].skip
  PROVE  Lex(s)[i] = Lex(s)[i - 1]
BY Lexed DEF LexStep

(* It goes to the end of a line comment as the lexer does. *)
LEMMA LinePassed ==
  ASSUME NEW C, NEW s \in Seq(C), NEW i \in 1..Len(s), Open(s, i),
         s[i] = "-", IsComment(s, i)
  PROVE  Passed(s, i, After(s, <<"\n">>, i), FALSE)
<1> DEFINE e == After(s, <<"\n">>, i)
           part == <<"\n">>
<1>1. i \in Nat /\ i >= 1 /\ i <= Len(s) /\ Len(s) \in Nat
  OBVIOUS
<1>2. At(s, i + 1) = "-"
  BY DEF IsComment
<1>3. i + 1 \in 1..Len(s) /\ s[i + 1] = "-"
  BY <1>2, AtIs
<1>4. FromCode(s, Lex(s)[i - 1], i, Lex(s)[i])
  BY OpenStep
<1>5. s[i] \notin LD /\ s[i] \notin Letter
  BY Characters DEF LD
<1>6. Lex(s)[i].in = "line" /\ Lex(s)[i].skip = i + 1
  BY <1>4, <1>5 DEF FromCode
<1> DEFINE T == {k \in Nat : k <= Len(s) /\ (\A j \in i..k : s[j] # "\n") =>
                               Lex(s)[k].in = "line" /\ Lex(s)[k].skip = i + 1}
<1>7. \A k \in Nat : k >= i => k \in T
  <2>1. i \in T
    BY <1>1, <1>6
  <2>2. ASSUME NEW k \in Nat, k >= i, k \in T
        PROVE  k + 1 \in T
    <3>1. ASSUME k + 1 <= Len(s), \A j \in i..k + 1 : s[j] # "\n"
          PROVE  Lex(s)[k + 1].in = "line" /\ Lex(s)[k + 1].skip = i + 1
      <4>1. k <= Len(s) /\ \A j \in i..k : s[j] # "\n"
        BY <1>1, <2>2, <3>1
      <4>2. Lex(s)[k].in = "line" /\ Lex(s)[k].skip = i + 1
        BY <2>2, <4>1
      <4>3. k + 1 \in 1..Len(s) /\ (k + 1) - 1 = k /\ s[k + 1] # "\n"
        BY <1>1, <2>2, <3>1
      <4>4. Lex(s)[k + 1] = LexStep(s, Lex(s)[k], k + 1)
        BY <4>3, Lexed
      <4>5. Lex(s)[k + 1] = Lex(s)[k]
        BY <4>2, <4>3, <4>4 DEF LexStep
      <4> QED BY <4>2, <4>5
    <3> QED BY <3>1
  <2> HIDE DEF T
  <2> QED BY <1>1, <2>1, <2>2, Upwards
<1>8. \A k \in i..Len(s) : (\A j \in i..k : s[j] # "\n") =>
        Lex(s)[k].in = "line" /\ Lex(s)[k].skip = i + 1
  BY <1>1, <1>7
<1> HIDE DEF T
<1>9. Len(part) = 1 /\ \A j \in Nat : IsAt(s, part, j) <=> j \in 1..Len(s) /\ s[j] = "\n"
  <2>1. Len(part) = 1
    OBVIOUS
  <2>2. \A j \in 1..Len(s) : SubSeq(s, j, j + 1 - 1) = <<s[j]>>
    <3>1. ASSUME NEW j \in 1..Len(s)
          PROVE  SubSeq(s, j, j) = <<s[j]>>
      <4> DEFINE t == SubSeq(s, j, j)
      <4>1. t \in Seq(C) /\ Len(t) = 1 /\ t[1] = s[j]
        BY <3>1
      <4> HIDE DEF t
      <4>2. t = <<t[1]>>
        BY <4>1
      <4> QED BY <4>1, <4>2 DEF t
    <3>2. \A j \in 1..Len(s) : j + 1 - 1 = j
      BY <1>1
    <3> QED BY <3>1, <3>2
  <2>3. \A j \in 1..Len(s) : SubSeq(s, j, j + 1 - 1) = part <=> s[j] = "\n"
    <3>1. \A a : <<a>> = part <=> a = "\n"
      OBVIOUS
    <3> HIDE DEF part
    <3> QED BY <2>2, <3>1
  <2> HIDE DEF part
  <2> QED BY <1>1, <2>1, <2>3 DEF IsAt
<1>10. e = After(s, part, i)
  OBVIOUS
<1> HIDE DEF part, e
<1>11. CASE \A j \in i..Len(s) : s[j] # "\n"
  <2>1. e = Len(s) + 1
    <3>1. \A j \in Nat : j >= i => ~IsAt(s, part, j)
      BY <1>1, <1>9, <1>11
    <3> QED BY <1>1, <1>9, <1>10, <3>1, AfterIs
  <2>2. \A k \in i..Len(s) : Lex(s)[k].in = "line"
    BY <1>1, <1>8, <1>11
  <2>3. e \in Nat /\ e > i /\ ~(e <= Len(s))
    BY <1>1, <2>1
  <2> QED BY <2>2, <2>3 DEF Passed, Ends, Dark, e
<1>12. CASE \E j \in i..Len(s) : s[j] = "\n"
  <2>1. PICK j \in Nat : j >= i /\ IsAt(s, part, j) /\ e = j + 1
                         /\ \A k \in Nat : k >= i /\ IsAt(s, part, k) => j <= k
    <3>1. \E j \in Nat : j >= i /\ IsAt(s, part, j)
      BY <1>1, <1>9, <1>12
    <3>2. Len(part) \in Nat
      BY <1>9
    <3>3. \E j \in Nat : /\ j >= i /\ IsAt(s, part, j)
                         /\ e = j + Len(part)
                         /\ \A k \in Nat : k >= i /\ IsAt(s, part, k) => j <= k
      BY <1>1, <1>10, <3>1, <3>2, AfterIs
    <3> QED BY <1>9, <3>3
  <2>2. j \in 1..Len(s) /\ s[j] = "\n"
    BY <1>9, <2>1
  <2>3. \A k \in i..Len(s) : s[k] = "\n" => j <= k
    BY <1>1, <1>9, <2>1
  <2>4. j > i + 1
    BY <1>1, <1>3, <2>1, <2>2
  <2>5. \A k \in i..Len(s) : k < j => Lex(s)[k].in = "line" /\ Lex(s)[k].skip = i + 1
    <3>1. ASSUME NEW k \in i..Len(s), k < j
          PROVE  \A m \in i..k : s[m] # "\n"
      BY <1>1, <2>1, <2>2, <2>3, <3>1
    <3> QED BY <1>8, <3>1
  <2>6. Lex(s)[j - 1].in = "line" /\ Lex(s)[j - 1].skip = i + 1
    BY <1>1, <2>1, <2>2, <2>4, <2>5
  <2>7. Lex(s)[j] = LexStep(s, Lex(s)[j - 1], j) /\ Lex(s)[j - 1] \in Lexing
    BY <2>2, Lexed
  <2>8. Lex(s)[j] = Outside(Lex(s)[j - 1], j)
    BY <1>1, <2>1, <2>2, <2>4, <2>6, <2>7 DEF LexStep
  <2>9. Lex(s)[j].in = "code" /\ Lex(s)[j].skip = i + 1
    BY <2>6, <2>7, <2>8, OutsideIs
  <2>10. Open(s, e)
    <3>1. e - 1 = j /\ i + 1 < e
      BY <1>1, <2>1, <2>4
    <3> QED BY <2>9, <3>1 DEF Open
  <2>11. \A k \in i..Len(s) : k < e => k < j \/ k = j
    BY <1>1, <2>1
  <2>12. ~Ends(s, Lex(s), j) /\ ~Dark(s, j)
    BY <2>2, QuotesDiffer DEF Ends, Dark, Blank
  <2>13. \A k \in i..Len(s) : k < e => ~Ends(s, Lex(s), k) /\ ~Dark(s, k)
    BY <2>5, <2>11, <2>12 DEF Ends, Dark
  <2>14. e \in Nat /\ e > i
    BY <1>1, <2>1
  <2> QED BY <2>10, <2>13, <2>14 DEF Passed, e
<1> QED BY <1>11, <1>12

(* The lexer in the comment that the splitter's loop is in. *)
InComment(s, x) ==
  /\ x.j - 1 \in 1..Len(s)
  /\ Lex(s)[x.j - 1].in = "block"
  /\ Lex(s)[x.j - 1].depth = x.depth
  /\ Lex(s)[x.j - 1].skip < x.j

CommentPassed(s, x) ==
  /\ \A k \in x.j..Len(s) : k < CommentEnds(s)[x] => Lex(s)[k].in = "block"
  /\ CommentEnds(s)[x] <= Len(s) => Open(s, CommentEnds(s)[x])

(* The lexer follows a round of the loop over a comment. *)
LEMMA CommentLoopPassed ==
  ASSUME NEW C, NEW s \in Seq(C), NEW x \in Place, InComment(s, x),
         x.j <= Len(s), x.depth # 0,
         InComment(s, CommentLoop(s, x)) => CommentPassed(s, CommentLoop(s, x))
  PROVE  CommentPassed(s, x)
<1> DEFINE z == CommentLoop(s, x)
           b == Lex(s)[x.j - 1]
           y == Lex(s)[x.j]
           e == CommentEnds(s)[x]
<1>1. x.j \in Nat /\ x.depth \in Nat /\ x.j >= 2 /\ x.j <= Len(s) /\ Len(s) \in Nat
  <2>1. x.j \in Nat /\ x.depth \in Nat
    BY DEF Place
  <2> QED BY <2>1 DEF InComment
<1>2. x.j \in 1..Len(s)
  BY <1>1
<1>3. b \in Lexing /\ y \in Lexing /\ y = LexStep(s, b, x.j) /\ b.skip \in Nat
  BY <1>2, Lexed
<1>4. b.in = "block" /\ b.depth = x.depth /\ b.skip < x.j
  BY DEF InComment
<1>5. ~(x.j <= b.skip) /\ b.depth > 0
  BY <1>1, <1>3, <1>4
<1>6. y = InBlock(s, b, x.j)
  <2> HIDE DEF b, y
  <2> QED BY <1>3, <1>4, <1>5 DEF LexStep
<1>7. FromBlock(s, b, x.j, y)
  BY <1>3, <1>6, InBlockIs
<1>8. At(s, x.j) = s[x.j]
  BY <1>2 DEF At
<1>9. e = CommentEnds(s)[z]
  BY <1>1, CommentEndsDefined
<1>10. z \in Place /\ z.j \in Nat
  <2>1. z \in Place
    BY <1>1, CommentLoopGoesOn
  <2> QED BY <2>1 DEF Place
<1>11. x = [j |-> x.j, depth |-> x.depth]
  BY DEF Place
<1>12. CASE \/ s[x.j] = "/" /\ At(s, x.j + 1) = "*"
            \/ s[x.j] = "*" /\ At(s, x.j + 1) = "/"
  <2>1. x.j + 1 \in 1..Len(s)
    BY <1>12, AtIs
  <2>2. z.j = x.j + 2 /\ y.depth = z.depth /\ y.skip = x.j + 1 /\ y.in = "block"
    <3>1. CASE s[x.j] = "/" /\ At(s, x.j + 1) = "*"
      <4>1. z.j = x.j + 2 /\ z.depth = x.depth + 1
        BY <1>8, <3>1 DEF CommentLoop
      <4>2. y.depth = b.depth + 1 /\ y.skip = x.j + 1 /\ y.in = b.in
        BY <1>7, <3>1 DEF FromBlock
      <4> QED BY <1>4, <4>1, <4>2
    <3>2. CASE s[x.j] = "*" /\ At(s, x.j + 1) = "/"
      <4>1. z.j = x.j + 2 /\ z.depth = x.depth - 1
        BY <1>8, <3>2 DEF CommentLoop
      <4>2. y.depth = b.depth - 1 /\ y.skip = x.j + 1 /\ y.in = b.in
        BY <1>7, <3>2 DEF FromBlock
      <4> QED BY <1>4, <4>1, <4>2
    <3> QED BY <1>12, <3>1, <3>2
  <2>3. (x.j + 1) - 1 = x.j /\ x.j + 1 = z.j - 1 /\ x.j + 1 < z.j
    BY <1>1, <2>2
  <2>4. Lex(s)[x.j + 1] = y
    <3>1. x.j + 1 <= Lex(s)[(x.j + 1) - 1].skip
      BY <1>1, <2>2, <2>3
    <3> QED BY <2>1, <2>3, <3>1, SkipStep
  <2>5. InComment(s, z)
    <3>1. Lex(s)[z.j - 1] = y
      BY <2>3, <2>4
    <3> HIDE DEF y, z
    <3> QED BY <2>1, <2>2, <2>3, <3>1 DEF InComment
  <2>6. /\ \A k \in z.j..Len(s) : k < e => Lex(s)[k].in = "block"
        /\ e <= Len(s) => Open(s, e)
    BY <1>9, <2>5 DEF CommentPassed
  <2>7. \A k \in x.j..Len(s) : k = x.j \/ k = x.j + 1 \/ k \in z.j..Len(s)
    BY <1>1, <2>2
  <2> HIDE DEF z, b
  <2> QED BY <2>2, <2>4, <2>6, <2>7 DEF CommentPassed
<1>13. CASE /\ ~(s[x.j] = "/" /\ At(s, x.j + 1) = "*")
            /\ ~(s[x.j] = "*" /\ At(s, x.j + 1) = "/")
  <2>1. z.j = x.j + 1 /\ z.depth = x.depth
    BY <1>1, <1>8, <1>11, <1>13 DEF CommentLoop
  <2>2. y = b
    BY <1>7, <1>13 DEF FromBlock
  <2>3. z.j - 1 = x.j /\ b.skip < z.j
    BY <1>1, <1>3, <1>4, <2>1
  <2>4. InComment(s, z)
    <3>1. Lex(s)[z.j - 1] = y
      BY <2>3
    <3> HIDE DEF y, z, b
    <3> QED BY <1>2, <1>4, <2>1, <2>2, <2>3, <3>1 DEF InComment
  <2>5. /\ \A k \in z.j..Len(s) : k < e => Lex(s)[k].in = "block"
        /\ e <= Len(s) => Open(s, e)
    BY <1>9, <2>4 DEF CommentPassed
  <2>6. \A k \in x.j..Len(s) : k = x.j \/ k \in z.j..Len(s)
    BY <1>1, <2>1
  <2>7. y.in = "block"
    BY <1>4, <2>2
  <2> HIDE DEF z, b
  <2> QED BY <2>5, <2>6, <2>7 DEF CommentPassed
<1> QED BY <1>12, <1>13

(* The lexer follows the loop to its end, however deep the comment nests. *)
LEMMA CommentsPassed ==
  ASSUME NEW C, NEW s \in Seq(C)
  PROVE  \A x \in Place : InComment(s, x) => CommentPassed(s, x)
<1> DEFINE T == {x \in Place : InComment(s, x) => CommentPassed(s, x)}
           measure == [x \in Place |-> IF x.j > Len(s) THEN 0 ELSE Len(s) + 1 - x.j]
<1>0. Len(s) \in Nat
  OBVIOUS
<1>1. ASSUME NEW x \in Place, \A y \in Place : measure[y] < measure[x] => y \in T
      PROVE  x \in T
  <2> SUFFICES ASSUME InComment(s, x)
               PROVE  CommentPassed(s, x)
    BY <1>1
  <2>1. x.j \in Nat /\ x.depth \in Nat
    BY <1>1 DEF Place
  <2>2. CASE x.j > Len(s)
    <3>1. CommentEnds(s)[x] = x.j
      BY <1>0, <2>2, CommentEndsDefined
    <3> QED BY <1>0, <2>1, <2>2, <3>1 DEF CommentPassed
  <2>3. CASE ~(x.j > Len(s)) /\ x.depth = 0
    <3>1. CommentEnds(s)[x] = x.j
      BY <1>0, <2>3, CommentEndsDefined
    <3>2. Open(s, x.j)
      BY <2>3 DEF InComment, Open
    <3> QED BY <1>0, <2>1, <3>1, <3>2 DEF CommentPassed
  <2>4. CASE ~(x.j > Len(s)) /\ x.depth # 0
    <3> DEFINE z == CommentLoop(s, x)
    <3>1. z \in Place /\ z.j > x.j
      BY <1>0, <2>4, CommentLoopGoesOn
    <3>2. z.j \in Nat
      BY <3>1 DEF Place
    <3>3. measure[z] < measure[x]
      <4> HIDE DEF z
      <4> QED BY <1>0, <2>1, <2>4, <3>1, <3>2
    <3>4. z \in T
      <4> HIDE DEF T, z, measure
      <4> QED BY <1>1, <3>1, <3>3
    <3>5. InComment(s, z) => CommentPassed(s, z)
      BY <3>4
    <3>6. x.j <= Len(s)
      BY <1>0, <2>1, <2>4
    <3> QED BY <2>4, <3>5, <3>6, CommentLoopPassed
  <2> QED BY <2>2, <2>3, <2>4
<1>2. measure \in [Place -> Nat]
  BY <1>0 DEF Place
<1> HIDE DEF T, measure
<1>3. \A x \in Place : x \in T
  BY <1>1, <1>2, ByMeasure
<1> QED BY <1>3 DEF T

(* The splitter goes through a nested comment as the lexer does. *)
LEMMA BlockPassed ==
  ASSUME NEW C, NEW s \in Seq(C), NEW i \in 1..Len(s), Open(s, i),
         s[i] = "/", IsComment(s, i)
  PROVE  Passed(s, i, CommentEnd(s, i), FALSE)
<1> DEFINE x == [j |-> i + 2, depth |-> 1]
           e == CommentEnds(s)[x]
<1>1. i \in Nat /\ i >= 1 /\ i <= Len(s) /\ Len(s) \in Nat
  OBVIOUS
<1>2. At(s, i + 1) = "*"
  BY DEF IsComment
<1>3. i + 1 \in 1..Len(s)
  BY <1>2, AtIs
<1>4. FromCode(s, Lex(s)[i - 1], i, Lex(s)[i])
  BY OpenStep
<1>5. s[i] \notin LD /\ s[i] \notin Letter
  BY Characters DEF LD
<1>6. Lex(s)[i].in = "block" /\ Lex(s)[i].skip = i + 1 /\ Lex(s)[i].depth = 1
  BY <1>4, <1>5 DEF FromCode
<1>7. Lex(s)[i + 1] = Lex(s)[i]
  <2>1. (i + 1) - 1 = i /\ i + 1 <= Lex(s)[i].skip
    BY <1>1, <1>6
  <2>2. i + 1 <= Lex(s)[(i + 1) - 1].skip
    BY <2>1
  <2> QED BY <1>3, <2>1, <2>2, SkipStep
<1>8. x \in Place /\ x.j = i + 2 /\ x.depth = 1
  BY <1>1 DEF Place
<1>9. InComment(s, x)
  <2>1. x.j - 1 = i + 1 /\ i + 1 < x.j
    BY <1>1, <1>8
  <2> HIDE DEF x
  <2> QED BY <1>3, <1>6, <1>7, <1>8, <2>1 DEF InComment
<1>10. CommentPassed(s, x)
  BY <1>8, <1>9, CommentsPassed
<1>11. e \in Nat /\ e >= i + 2
  <2> HIDE DEF x
  <2> QED BY <1>1, <1>8, CommentEndsDefined
<1>12. CommentEnd(s, i) = e
  BY DEF CommentEnd
<1>13. \A k \in i..Len(s) : k < e => Lex(s)[k].in = "block"
  <2>1. \A k \in i..Len(s) : k = i \/ k = i + 1 \/ k \in x.j..Len(s)
    BY <1>1, <1>8
  <2> HIDE DEF x
  <2> QED BY <1>6, <1>7, <1>10, <2>1 DEF CommentPassed
<1>14. e <= Len(s) => Open(s, e)
  <2> HIDE DEF x
  <2> QED BY <1>10 DEF CommentPassed
<1> HIDE DEF e, x
<1>15. e > i
  BY <1>1, <1>11
<1> QED BY <1>11, <1>12, <1>13, <1>14, <1>15 DEF Passed, Ends, Dark

(* The lexer in the string or name that began at i. *)
InQuote(s, i, j) ==
  LET b == Lex(s)[j - 1]
  IN  /\ j - 1 \in 1..Len(s) /\ b.skip < j
      /\ \/ s[i] = DoubleQuote /\ b.in = "quoted"
         \/ s[i] = "'" /\ b.in = IF IsEscapeString(s, i) THEN "escape" ELSE "string"

QuotePassed(s, i, j) ==
  /\ \A k \in j..Len(s) : k < QuoteEnds(s, i)[j] => ~Ends(s, Lex(s), k)
  /\ QuoteEnds(s, i)[j] <= Len(s) => Open(s, QuoteEnds(s, i)[j])

(* The lexer follows one character, or two, of a string or a quoted         *)
(* identifier.                                                              *)
LEMMA QuoteStepPassed ==
  ASSUME NEW C, NEW s \in Seq(C), NEW i, NEW j \in 1..Len(s), InQuote(s, i, j),
         InQuote(s, i, j + 1) => QuotePassed(s, i, j + 1),
         j + 2 <= Len(s) + 1 /\ InQuote(s, i, j + 2) => QuotePassed(s, i, j + 2)
  PROVE  QuotePassed(s, i, j)
<1> DEFINE b == Lex(s)[j - 1]
           y == Lex(s)[j]
           e == QuoteEnds(s, i)[j]
           q == s[i]
           escaped == s[j] = "\\" /\ s[i] = "'" /\ IsEscapeString(s, i)
<1>1. j \in Nat /\ j >= 1 /\ j <= Len(s) /\ Len(s) \in Nat
  OBVIOUS
<1>2. b \in Lexing /\ y \in Lexing /\ y = LexStep(s, b, j) /\ b.skip \in Nat
  BY Lexed
<1>3. /\ b.skip < j
      /\ b.in = IF q = DoubleQuote THEN "quoted"
                ELSE IF IsEscapeString(s, i) THEN "escape" ELSE "string"
      /\ q \in {"'", DoubleQuote}
  BY QuotesDiffer DEF InQuote
<1>4. ~(j <= b.skip)
  BY <1>1, <1>2, <1>3
<1>5. y = InQuotes(s, b, j, q)
  <2> HIDE DEF b, y, q
  <2>1. CASE q = DoubleQuote
    BY <1>2, <1>3, <1>4, <2>1 DEF LexStep
  <2>2. CASE q = "'" /\ q # DoubleQuote
    <3>1. b.in \in {"string", "escape"}
      BY <1>3, <2>2
    <3> QED BY <1>2, <1>4, <2>2, <3>1 DEF LexStep
  <2> QED BY <1>3, <2>1, <2>2
<1>6. FromQuotes(s, b, j, q, y)
  BY <1>2, <1>5, InQuotesIs
<1>7. escaped <=> b.in = "escape" /\ s[j] = "\\"
  BY <1>3, QuotesDiffer
<1>8. e = IF escaped THEN QuoteEnds(s, i)[j + 2]
          ELSE IF s[j] # q THEN QuoteEnds(s, i)[j + 1]
          ELSE IF At(s, j + 1) = q THEN QuoteEnds(s, i)[j + 2]
          ELSE j + 1
  BY <1>1, QuoteEndsDefined
<1>9. b.in # "code" /\ q # Semicolon
  BY <1>3, QuotesDiffer
<1> HIDE DEF escaped
<1>10. CASE y.in = b.in /\ y.skip = j + 1 /\ e = QuoteEnds(s, i)[j + 2]
  <2>1. CASE j + 1 <= Len(s)
    <3>1. j + 1 \in 1..Len(s) /\ (j + 1) - 1 = j /\ (j + 2) - 1 = j + 1 /\ j + 1 < j + 2 /\ j + 2 <= Len(s) + 1
      BY <1>1, <2>1
    <3>2. Lex(s)[j + 1] = y
      <4>1. j + 1 <= Lex(s)[(j + 1) - 1].skip
        BY <1>1, <1>10, <3>1
      <4> QED BY <3>1, <4>1, SkipStep
    <3>3. InQuote(s, i, j + 2)
      <4>1. Lex(s)[(j + 2) - 1] = y
        BY <3>1, <3>2
      <4> HIDE DEF y, b
      <4> QED BY <1>3, <1>10, <3>1, <4>1 DEF InQuote
    <3>4. /\ \A k \in j + 2..Len(s) : k < e => ~Ends(s, Lex(s), k)
          /\ e <= Len(s) => Open(s, e)
      BY <1>10, <3>1, <3>3 DEF QuotePassed
    <3>5. \A k \in j..Len(s) : k = j \/ k = j + 1 \/ k \in j + 2..Len(s)
      BY <1>1
    <3>6. ~Ends(s, Lex(s), j) /\ ~Ends(s, Lex(s), j + 1)
      BY <1>9, <1>10, <3>2 DEF Ends
    <3> QED BY <3>4, <3>5, <3>6 DEF QuotePassed
  <2>2. CASE ~(j + 1 <= Len(s))
    <3>1. \A k \in j..Len(s) : k = j
      BY <1>1, <2>2
    <3>2. ~Ends(s, Lex(s), j)
      BY <1>9, <1>10 DEF Ends
    <3>3. ~(e <= Len(s))
      <4>1. QuoteEnds(s, i)[j + 2] \in Nat /\ QuoteEnds(s, i)[j + 2] >= j + 2
        BY <1>1, QuoteEndsDefined
      <4> QED BY <1>1, <1>10, <2>2, <4>1
    <3> QED BY <3>1, <3>2, <3>3 DEF QuotePassed
  <2> QED BY <2>1, <2>2
<1>11. CASE y = b /\ e = QuoteEnds(s, i)[j + 1]
  <2>1. (j + 1) - 1 = j /\ b.skip < j + 1
    BY <1>1, <1>2, <1>3
  <2>2. InQuote(s, i, j + 1)
    <3>1. Lex(s)[(j + 1) - 1] = b
      BY <1>11, <2>1
    <3>2. (j + 1) - 1 \in 1..Len(s)
      BY <1>1
    <3> HIDE DEF y, b
    <3> QED BY <1>3, <2>1, <3>1, <3>2 DEF InQuote
  <2>3. /\ \A k \in j + 1..Len(s) : k < e => ~Ends(s, Lex(s), k)
        /\ e <= Len(s) => Open(s, e)
    BY <1>11, <2>2 DEF QuotePassed
  <2>4. \A k \in j..Len(s) : k = j \/ k \in j + 1..Len(s)
    BY <1>1
  <2>5. ~Ends(s, Lex(s), j)
    BY <1>9, <1>11 DEF Ends
  <2> QED BY <2>3, <2>4, <2>5 DEF QuotePassed
<1>12. CASE y.in = "code" /\ y.skip = b.skip /\ s[j] = q /\ e = j + 1
  <2>1. (j + 1) - 1 = j /\ b.skip < j + 1 /\ \A k \in j..Len(s) : k < j + 1 => k = j
    BY <1>1, <1>2, <1>3
  <2>2. Open(s, e)
    <3>1. Lex(s)[e - 1] = y /\ y.skip < e
      BY <1>1, <1>12, <2>1
    <3> QED BY <1>12, <3>1 DEF Open
  <2>3. ~Ends(s, Lex(s), j)
    BY <1>9, <1>12 DEF Ends
  <2>4. \A k \in j..Len(s) : k < e => k = j
    BY <1>12, <2>1
  <2> QED BY <2>2, <2>3, <2>4 DEF QuotePassed
<1>13. \/ y.in = b.in /\ y.skip = j + 1 /\ e = QuoteEnds(s, i)[j + 2]
       \/ y = b /\ e = QuoteEnds(s, i)[j + 1]
       \/ y.in = "code" /\ y.skip = b.skip /\ s[j] = q /\ e = j + 1
  <2> HIDE DEF y, b, e, q
  <2>1. CASE escaped
    BY <1>6, <1>7, <1>8, <2>1 DEF FromQuotes
  <2>2. CASE ~escaped /\ s[j] # q
    BY <1>6, <1>7, <1>8, <2>2 DEF FromQuotes
  <2>3. CASE ~escaped /\ s[j] = q /\ At(s, j + 1) = q
    BY <1>6, <1>7, <1>8, <2>3 DEF FromQuotes
  <2>4. CASE ~escaped /\ s[j] = q /\ At(s, j + 1) # q
    BY <1>6, <1>7, <1>8, <2>4 DEF FromQuotes
  <2> QED BY <2>1, <2>2, <2>3, <2>4
<1> QED BY <1>10, <1>11, <1>12, <1>13

(* The lexer follows to its end. *)
LEMMA QuotesPassed ==
  ASSUME NEW C, NEW s \in Seq(C), NEW i
  PROVE  \A j \in Nat : j <= Len(s) + 1 /\ InQuote(s, i, j) => QuotePassed(s, i, j)
<1> DEFINE T == {j \in Nat : j <= Len(s) + 1 /\ InQuote(s, i, j) => QuotePassed(s, i, j)}
<1>0. Len(s) \in Nat
  OBVIOUS
<1> DEFINE n == Len(s)
<1>1. FromAbove(T, n)
  <2> SUFFICES ASSUME NEW j \in Nat, \A k \in Nat : j < k /\ j <= n => k \in T
               PROVE  j \in T
    BY DEF FromAbove
  <2> SUFFICES ASSUME j <= Len(s) + 1, InQuote(s, i, j)
               PROVE  QuotePassed(s, i, j)
    OBVIOUS
  <2>0. j - 1 \in 1..Len(s) /\ j \in Nat
    BY DEF InQuote
  <2>1. CASE j > Len(s)
    <3>1. QuoteEnds(s, i)[j] = j
      BY <1>0, <2>0, <2>1, QuoteEndsDefined
    <3> QED BY <1>0, <2>0, <2>1, <3>1 DEF QuotePassed
  <2>2. CASE j <= Len(s)
    <3>1. j + 1 \in T /\ j + 2 \in T
      <4> HIDE DEF T
      <4> QED BY <1>0, <2>0, <2>2
    <3>2. j \in 1..Len(s) /\ j + 1 <= Len(s) + 1
      BY <1>0, <2>0, <2>2
    <3>3. InQuote(s, i, j + 1) => QuotePassed(s, i, j + 1)
      BY <3>1, <3>2
    <3>4. j + 2 <= Len(s) + 1 /\ InQuote(s, i, j + 2) => QuotePassed(s, i, j + 2)
      BY <3>1
    <3> QED BY <3>2, <3>3, <3>4, QuoteStepPassed
  <2> QED BY <1>0, <2>0, <2>1, <2>2
<1>2. n \in Nat
  OBVIOUS
<1> HIDE DEF T, n
<1>3. \A j \in Nat : j \in T
  BY <1>1, <1>2, Downwards
<1> QED BY <1>3 DEF T

(* The splitter goes through a string or a quoted identifier as the lexer   *)
(* does.                                                                    *)
LEMMA QuotedPassed ==
  ASSUME NEW C, NEW s \in Seq(C), NEW i \in 1..Len(s), Open(s, i),
         s[i] \in {"'", DoubleQuote}, ~Unusual(s)
  PROVE  Passed(s, i, QuoteEnd(s, i), TRUE)
<1> DEFINE e == QuoteEnds(s, i)[i + 1]
           y == Lex(s)[i]
<1>1. i \in Nat /\ i >= 1 /\ i <= Len(s) /\ Len(s) \in Nat /\ i + 1 <= Len(s) + 1 /\ i + 1 \in Nat
  OBVIOUS
<1>2. FromCode(s, Lex(s)[i - 1], i, y)
  BY OpenStep
<1>3. s[i] \notin LD /\ s[i] \notin Letter /\ ~IsComment(s, i) /\ s[i] \notin Blank /\ s[i] # Semicolon
  BY Characters, QuotesDiffer DEF LD, IsComment, Blank
<1>4. y.skip = Lex(s)[i - 1].skip
  BY <1>2, <1>3, QuotesDiffer DEF FromCode
<1>5. y.skip < i + 1
  <2>1. Lex(s)[i - 1].skip < i /\ Lex(s)[i - 1].skip \in Nat
    BY Lexed DEF Open
  <2> QED BY <1>1, <1>4, <2>1
<1>6. \/ s[i] = DoubleQuote /\ y.in = "quoted"
      \/ s[i] = "'" /\ y.in = IF IsEscapeString(s, i) THEN "escape" ELSE "string"
  <2>1. CASE s[i] = DoubleQuote
    BY <1>2, <1>3, <2>1, QuotesDiffer DEF FromCode
  <2>2. CASE s[i] = "'"
    BY <2>2, EscapeSeen
  <2> QED BY <2>1, <2>2
<1>7. (i + 1) - 1 = i /\ (i + 1) - 1 \in 1..Len(s)
  BY <1>1
<1>8. InQuote(s, i, i + 1)
  BY <1>5, <1>6, <1>7 DEF InQuote
<1>9. QuotePassed(s, i, i + 1)
  BY <1>1, <1>8, QuotesPassed
<1>10. e \in Nat /\ e >= i + 1
  BY <1>1, QuoteEndsDefined
<1>11. e > i
  BY <1>1, <1>10
<1>12. \A k \in i..Len(s) : k = i \/ k \in i + 1..Len(s)
  BY <1>1
<1>13. ~Ends(s, Lex(s), i)
  BY <1>3 DEF Ends
<1>14. \A k \in i..Len(s) : k < e => ~Ends(s, Lex(s), k)
  BY <1>9, <1>12, <1>13 DEF QuotePassed
<1>15. e <= Len(s) => Open(s, e)
  BY <1>9 DEF QuotePassed
<1>16. Dark(s, i) /\ i \in i..Len(s)
  BY <1>1, <1>3, <1>6 DEF Dark
<1>17. QuoteEnd(s, i) = e
  BY DEF QuoteEnd
<1> HIDE DEF e
<1> QED BY <1>10, <1>11, <1>14, <1>15, <1>16, <1>17 DEF Passed

(* The splitter goes through a dollar-quoted body as the lexer does. *)
LEMMA DollarPassed ==
  ASSUME NEW C, NEW s \in Seq(C), NEW i \in 1..Len(s), Open(s, i),
         Tag(s, i) # <<>>, ~Unusual(s)
  PROVE  Passed(s, i, After(s, Tag(s, i), i + Len(Tag(s, i))), TRUE)
<1> DEFINE tag == Tag(s, i)
           n == Len(tag)
           e == After(s, tag, i + n)
           y == Lex(s)[i]
           Matches(j) == j >= i + n /\ IsAt(s, tag, j)
<1>1. i \in Nat /\ i >= 1 /\ i <= Len(s) /\ Len(s) \in Nat /\ i \in DOMAIN s
  OBVIOUS
<1>2. s[i] = "$" /\ n \in Nat /\ n >= 2
  <2>1. s[i] = "$"
    BY <1>1, TagIs
  <2>2. PICK c \in i + 1..Len(s) : n = c - i + 1
    BY <1>1, TagIs
  <2>3. c \in Nat /\ c >= i + 1
    BY <1>1
  <2> HIDE DEF n
  <2> QED BY <1>1, <2>1, <2>2, <2>3
<1>3. s[i] \notin Letter /\ ~IsComment(s, i) /\ s[i] \notin {"'", DoubleQuote}
  BY <1>2, Characters, QuotesDiffer DEF IsComment
<1>4. Lex(s)[i - 1].in # "name"
  BY <1>1, <1>2 DEF Unusual
<1>5. FromCode(s, Lex(s)[i - 1], i, y)
  BY OpenStep
<1>6. y.in = "dollar" /\ y.since = i /\ y.skip = i + n - 1 /\ y \in Lexing
  <2>1. y \in Lexing
    BY Lexed
  <2>2. y.in = "dollar" /\ y.skip = i + n - 1 /\ y.since = i
    BY <1>3, <1>4, <1>5 DEF FromCode
  <2> QED BY <2>1, <2>2
<1> DEFINE T == {k \in Nat : k <= Len(s) /\ (\A j \in Nat : Matches(j) => k < j + n - 1)
                               => Lex(s)[k] = y}
<1>7. \A k \in Nat : k >= i => k \in T
  <2>1. i \in T
    BY <1>1
  <2>2. ASSUME NEW k \in Nat, k >= i, k \in T
        PROVE  k + 1 \in T
    <3>1. ASSUME k + 1 <= Len(s), \A j \in Nat : Matches(j) => k + 1 < j + n - 1
          PROVE  Lex(s)[k + 1] = y
      <4>1. k <= Len(s) /\ \A j \in Nat : Matches(j) => k < j + n - 1
        <5> HIDE DEF Matches, n
        <5> QED BY <1>1, <1>2, <2>2, <3>1
      <4>2. Lex(s)[k] = y
        BY <2>2, <4>1
      <4>3. k + 1 \in 1..Len(s) /\ (k + 1) - 1 = k
        BY <1>1, <2>2, <3>1
      <4>4. Lex(s)[k + 1] = LexStep(s, y, k + 1)
        BY <4>2, <4>3, Lexed
      <4>5. CASE k + 1 <= y.skip
        <5> HIDE DEF y
        <5> QED BY <4>4, <4>5 DEF LexStep
      <4>6. CASE ~(k + 1 <= y.skip)
        <5> DEFINE start == k + 1 - n + 1
        <5>1. Lex(s)[k + 1] = InDollar(s, y, k + 1)
          <6> HIDE DEF y
          <6> QED BY <1>6, <4>4, <4>6 DEF LexStep
        <5>2. ~(start >= i + n /\ SubSeq(s, start, k + 1) = tag)
          <6>1. ASSUME start >= i + n, SubSeq(s, start, k + 1) = tag
                PROVE  FALSE
            <7>1. n \in Nat /\ k \in Nat /\ i \in Nat
              BY <1>1, <1>2, <2>2
            <7> HIDE DEF n, tag
            <7>2. start \in Nat /\ start >= 1 /\ start + n - 1 = k + 1 /\ start <= Len(s) + 1 - n
              BY <1>1, <3>1, <6>1, <7>1
            <7>3. start \in 1..Len(s) + 1 - n
              BY <1>1, <7>1, <7>2
            <7>4. IsAt(s, tag, start)
              BY <6>1, <7>2, <7>3 DEF IsAt, n
            <7>5. k + 1 < start + n - 1
              BY <3>1, <6>1, <7>2, <7>4
            <7> QED BY <7>1, <7>2, <7>5
          <6> QED BY <6>1
        <5> HIDE DEF y
        <5> QED BY <1>6, <5>1, <5>2 DEF InDollar
      <4> QED BY <4>5, <4>6
    <3> QED BY <3>1
  <2> HIDE DEF T
  <2> QED BY <1>1, <2>1, <2>2, Upwards
<1>8. \A k \in i..Len(s) : (\A j \in Nat : Matches(j) => k < j + n - 1) => Lex(s)[k] = y
  <2> HIDE DEF Matches, n, y
  <2> QED BY <1>1, <1>7
<1> HIDE DEF T
<1>9. Dark(s, i) /\ i \in i..Len(s)
  BY <1>1, <1>2, <1>6 DEF Dark, Blank
<1>10. CASE e = Len(s) + 1 /\ \A j \in Nat : j >= i + n => ~IsAt(s, tag, j)
  <2>1. \A k \in i..Len(s) : Lex(s)[k] = y
    BY <1>8, <1>10
  <2>2. e \in Nat /\ e > i /\ ~(e <= Len(s))
    BY <1>1, <1>10
  <2> HIDE DEF e, y
  <2> QED BY <1>6, <1>9, <2>1, <2>2 DEF Passed, Ends, e
<1>11. CASE \E j \in Nat : /\ j >= i + n /\ IsAt(s, tag, j)
                           /\ e = j + n
                           /\ \A k \in Nat : k >= i + n /\ IsAt(s, tag, k) => j <= k
  <2>1. PICK j \in Nat : /\ j >= i + n /\ IsAt(s, tag, j)
                         /\ e = j + n
                         /\ \A k \in Nat : k >= i + n /\ IsAt(s, tag, k) => j <= k
    BY <1>11
  <2> DEFINE m == j + n - 1
  <2>2. m \in 1..Len(s) /\ s[m] = "$"
    BY <1>1, <2>1, TagEndsInDollar
  <2> HIDE DEF e, n
  <2>3. m \in Nat /\ m - 1 \in i..Len(s) /\ m >= i + n /\ m - n + 1 = j /\ e = m + 1
    BY <1>1, <1>2, <2>1, <2>2
  <2>4. \A k \in i..Len(s) : k < m => Lex(s)[k] = y
    <3>1. ASSUME NEW k \in i..Len(s), k < m
          PROVE  Lex(s)[k] = y
      <4>1. k \in Nat
        BY <1>1
      <4>2. ASSUME NEW h \in Nat, Matches(h)
            PROVE  k < h + n - 1
        <5>1. j <= h
          BY <2>1, <4>2
        <5> HIDE DEF Matches
        <5> QED BY <1>2, <3>1, <4>1, <5>1
      <4> QED BY <1>8, <4>2
    <3> QED BY <3>1
  <2>5. Lex(s)[m - 1] = y
    <3>1. m - 1 < m
      BY <2>3
    <3> HIDE DEF m, y
    <3> QED BY <2>3, <2>4, <3>1
  <2>6. Lex(s)[m] = LexStep(s, y, m)
    BY <2>2, <2>5, Lexed
  <2>7. Lex(s)[m] = InDollar(s, y, m)
    <3>1. ~(m <= y.skip)
      <4> HIDE DEF m, y
      <4> QED BY <1>1, <1>2, <1>6, <2>3
    <3> HIDE DEF m, y
    <3> QED BY <1>6, <2>6, <3>1 DEF LexStep
  <2>8. Lex(s)[m] = Outside(y, m)
    <3>1. SubSeq(s, j, m) = tag
      BY <2>1 DEF IsAt, n
    <3>2. m - Len(tag) + 1 = j
      BY <2>3 DEF n
    <3>3. j >= y.since + Len(tag)
      BY <1>6, <2>1 DEF n
    <3>4. Tag(s, y.since) = tag
      BY <1>6
    <3> HIDE DEF m, y, tag
    <3> QED BY <2>7, <3>1, <3>2, <3>3, <3>4 DEF InDollar
  <2>9. Lex(s)[m].in = "code" /\ Lex(s)[m].skip = i + n - 1
    <3> HIDE DEF m, y
    <3> QED BY <1>6, <2>8, OutsideIs
  <2>10. Open(s, e)
    <3>1. e - 1 = m /\ i + n - 1 < e
      <4> HIDE DEF m
      <4> QED BY <1>1, <1>2, <2>3
    <3> HIDE DEF m
    <3> QED BY <2>9, <3>1 DEF Open
  <2>11. \A k \in i..Len(s) : k < e => k < m \/ k = m
    <3> HIDE DEF m
    <3> QED BY <1>1, <2>3
  <2>12. ~Ends(s, Lex(s), m)
    BY <2>2, QuotesDiffer DEF Ends
  <2>13. \A k \in i..Len(s) : k < e => ~Ends(s, Lex(s), k)
    <3> HIDE DEF m, y
    <3> QED BY <1>6, <2>4, <2>11, <2>12 DEF Ends
  <2>14. e \in Nat /\ e > i
    BY <1>1, <1>2, <2>1
  <2> QED BY <1>9, <2>10, <2>13, <2>14 DEF Passed, e, n
<1>12. i + n \in Nat /\ i + n >= 1
  BY <1>1, <1>2
<1> QED BY <1>1, <1>2, <1>10, <1>11, <1>12, AfterIs

(* Whatever begins at an open place, except for a semicolon. *)
LEMMA PartPassed ==
  ASSUME NEW C, NEW s \in Seq(C), NEW i \in 1..Len(s), Open(s, i),
         s[i] # Semicolon, ~Unusual(s)
  PROVE  Passed(s, i, PartEnd(s, i), Content(s, i))
<1>0. i \in Nat
  OBVIOUS
<1>1. CASE s[i] = "-" /\ IsComment(s, i)
  <2>1. PartEnd(s, i) = After(s, <<"\n">>, i)
    BY <1>1, QuotesDiffer DEF PartEnd
  <2> QED BY <1>1, <2>1, LinePassed DEF Content
<1>2. CASE s[i] = "/" /\ IsComment(s, i)
  <2>1. PartEnd(s, i) = CommentEnd(s, i)
    BY <1>2, QuotesDiffer DEF PartEnd
  <2> QED BY <1>2, <2>1, BlockPassed DEF Content
<1>3. CASE s[i] \in {"'", DoubleQuote}
  <2>1. PartEnd(s, i) = QuoteEnd(s, i)
    BY <1>3, QuotesDiffer DEF PartEnd
  <2>2. Content(s, i) = TRUE
    BY <1>3, QuotesDiffer DEF Content, IsComment, Blank
  <2> QED BY <1>3, <2>1, <2>2, QuotedPassed
<1>4. CASE Tag(s, i) # <<>>
  <2>1. s[i] = "$"
    BY <1>0, <1>4, TagIs
  <2>2. PartEnd(s, i) = After(s, Tag(s, i), i + Len(Tag(s, i)))
    BY <1>4, <2>1, QuotesDiffer DEF PartEnd
  <2>3. Content(s, i) = TRUE
    BY <2>1 DEF Content, IsComment, Blank
  <2> QED BY <1>4, <2>2, <2>3, DollarPassed
<1>5. CASE ~IsComment(s, i) /\ s[i] \notin {"'", DoubleQuote} /\ Tag(s, i) = <<>>
  <2>1. PartEnd(s, i) = i + 1
    BY <1>5 DEF PartEnd
  <2> QED BY <1>5, <2>1, OnePassed
<1> QED BY <1>1, <1>2, <1>3, <1>4, <1>5 DEF IsComment

(* No statement ends between `start' and `stop', and there is text just if  *)
(* `content' says so.                                                       *)
Gathered(s, start, stop, content) ==
  /\ \A k \in start..Len(s) : k < stop => ~Ends(s, Lex(s), k)
  /\ content <=> \E k \in start..Len(s) : k < stop /\ Dark(s, k)

(* PostgreSQL, too, has one statement there, or nothing but comments. *)
Cut(s, start, stop, content) ==
  PgSplitting(s)[start]
    = PushStatement(s, start, stop - 1, content) \o PgSplitting(s)[stop + 1]

(* What the splitter's loop has gathered is what the lexer has seen since    *)
(* the statement began, and the lexer is outside of everything.             *)
Ready(s, x) ==
  /\ x.start <= x.i /\ x.start <= Len(s) + 1
  /\ x.i <= Len(s) => Open(s, x.i)
  /\ Gathered(s, x.start, x.i, x.hasContent)

Agrees(s, x) == Splitting(s)[x] = PgSplitting(s)[x.start]

(* The statement that goes from `start' to the place before `stop'. *)
LEMMA StatementAgrees ==
  ASSUME NEW C, NEW s \in Seq(C), NEW start \in 1..Len(s), NEW stop \in start..Len(s) + 1,
         NEW content, Gathered(s, start, stop, content),
         stop <= Len(s) => Ends(s, Lex(s), stop)
  PROVE  Cut(s, start, stop, content)
<1> USE DEF Gathered
<1> DEFINE e == Stop(s, Lex(s), start)
<1>1. /\ Len(s) \in Nat /\ start \in Nat \ {0} /\ start \in Nat /\ stop \in Nat
      /\ start <= Len(s) /\ start <= stop /\ stop <= Len(s) + 1
  OBVIOUS
<1>2. /\ e \in start..Len(s) + 1
      /\ e <= Len(s) => Ends(s, Lex(s), e)
      /\ \A j \in start..Len(s) : Ends(s, Lex(s), j) => e <= j
  <2>1. start <= Len(s) + 1
    BY <1>1
  <2> QED BY <1>1, <2>1, StopIs
<1> HIDE DEF e
<1>3. e = stop
  <2>1. ~(e < stop)
    BY <1>1, <1>2
  <2>2. ~(stop < e)
    BY <1>1, <1>2
  <2> QED BY <1>1, <1>2, <2>1, <2>2
<1>4. HasText(s, Lex(s), start, e) <=> content
  <2>1. \A k : k \in start..e - 1 <=> k \in start..Len(s) /\ k < stop
    BY <1>1, <1>3
  <2> QED BY <2>1 DEF HasText, Dark
<1>5. ~(start > Len(s))
  BY <1>1
<1> QED BY <1>1, <1>3, <1>4, <1>5, PgSplittingDefined DEF e, PushStatement, Cut

(* One round of the splitter's loop and the rest of it. *)
LEMMA LoopAgrees ==
  ASSUME NEW C, NEW s \in Seq(C), ~Unusual(s), NEW x \in Loop, Ready(s, x),
         x.i <= Len(s) /\ Ready(s, SplitLoop(s, x)) => Agrees(s, SplitLoop(s, x))
  PROVE  Agrees(s, x)
<1> DEFINE z == SplitLoop(s, x)
<1>1. /\ Len(s) \in Nat /\ x.i \in Nat /\ x.i >= 1 /\ x.start \in Nat \ {0}
      /\ x.start \in Nat /\ x.start >= 1 /\ x.hasContent \in BOOLEAN
  BY DEF Loop
<1>2. x.start <= x.i /\ x.start <= Len(s) + 1
  BY DEF Ready, Gathered
<1>3. CASE x.i > Len(s)
  <2>1. Splitting(s)[x] = PushStatement(s, x.start, Len(s), x.hasContent)
    BY <1>3, SplittingDefined
  <2>2. CASE x.start > Len(s)
    <3>1. ~x.hasContent
      BY <1>1, <2>2 DEF Ready, Gathered
    <3>2. PgSplitting(s)[x.start] = <<>>
      BY <1>1, <2>2, PgSplittingDefined
    <3> QED BY <2>1, <3>1, <3>2 DEF Agrees, PushStatement
  <2>3. CASE x.start <= Len(s)
    <3> DEFINE n == Len(s)
    <3>3. Cut(s, x.start, n + 1, x.hasContent)
      <4>1. x.start \in 1..Len(s) /\ n + 1 \in x.start..Len(s) + 1 /\ ~(n + 1 <= Len(s))
        BY <1>1, <2>3
      <4>2. \A k \in x.start..Len(s) : k < x.i /\ k < n + 1
        BY <1>1, <1>3
      <4> HIDE DEF n
      <4>3. Gathered(s, x.start, n + 1, x.hasContent)
        BY <4>2 DEF Ready, Gathered
      <4> QED BY <4>1, <4>3, StatementAgrees
    <3>4. PgSplitting(s)[n + 1 + 1] = <<>> /\ n + 1 - 1 = Len(s)
      <4>1. n + 1 + 1 \in Nat \ {0} /\ n + 1 + 1 > Len(s)
        BY <1>1
      <4>2. PgSplitting(s)[n + 1 + 1] = <<>>
        <5> HIDE DEF n
        <5> QED BY <4>1, PgSplittingDefined
      <4> QED BY <1>1, <4>2
    <3> DEFINE p == PushStatement(s, x.start, Len(s), x.hasContent)
    <3>5. p \in Seq(Seq(C))
      BY <1>1, PushIs
    <3>6. PgSplitting(s)[x.start] = p \o <<>>
      BY <3>3, <3>4 DEF Cut
    <3>7. p \o <<>> = p
      <4> HIDE DEF p
      <4> QED BY <3>5
    <3> QED BY <2>1, <3>6, <3>7 DEF Agrees
  <2> QED BY <1>1, <2>2, <2>3
<1>4. CASE x.i <= Len(s) /\ s[x.i] = Semicolon
  <2>1. /\ z = [i |-> x.i + 1, start |-> x.i + 1, hasContent |-> FALSE]
        /\ Splitting(s)[x] = PushStatement(s, x.start, x.i - 1, x.hasContent)
                               \o Splitting(s)[z]
    <3>1. ~(x.i > Len(s))
      BY <1>1, <1>4
    <3> QED BY <1>4, <3>1, SplittingDefined DEF SplitLoop
  <2>2. x.i \in 1..Len(s) /\ Open(s, x.i)
    BY <1>1, <1>4 DEF Ready, Gathered
  <2>3. FromCode(s, Lex(s)[x.i - 1], x.i, Lex(s)[x.i])
    BY <2>2, OpenStep
  <2>4. /\ s[x.i] \notin LD /\ s[x.i] \notin Letter /\ ~IsComment(s, x.i)
        /\ s[x.i] \notin {"'", DoubleQuote}
    BY <1>4, QuotesDiffer DEF LD, IsComment
  <2>5. Tag(s, x.i) = <<>>
    <3>1. s[x.i] # "$"
      BY <1>4, QuotesDiffer
    <3> QED BY <1>1, <3>1, TagIs
  <2>6. Lex(s)[x.i].in = "code" /\ Lex(s)[x.i].since = x.i
        /\ Lex(s)[x.i].skip = Lex(s)[x.i - 1].skip
    BY <2>3, <2>4, <2>5 DEF FromCode
  <2>7. Ends(s, Lex(s), x.i)
    BY <1>4, <2>6 DEF Ends
  <2>8. Cut(s, x.start, x.i, x.hasContent)
    <3>1. x.start \in 1..Len(s) /\ x.i \in x.start..Len(s) + 1
      BY <1>1, <1>2, <1>4
    <3>2. Gathered(s, x.start, x.i, x.hasContent)
      BY DEF Ready
    <3> QED BY <2>7, <3>1, <3>2, StatementAgrees
  <2>9. z.i = x.i + 1 /\ z.start = x.i + 1 /\ z.hasContent = FALSE
    BY <2>1
  <2>10. Ready(s, z)
    <3>1. Open(s, x.i + 1)
      <4>1. (x.i + 1) - 1 = x.i
        BY <1>1
      <4>2. Lex(s)[x.i].skip < x.i + 1
        <5>1. Lex(s)[x.i - 1].skip < x.i /\ Lex(s)[x.i - 1].skip \in Nat
          BY <2>2, Lexed DEF Open
        <5> QED BY <1>1, <2>6, <5>1
      <4> QED BY <2>6, <4>1, <4>2 DEF Open
    <3>2. \A k \in x.i + 1..Len(s) : ~(k < x.i + 1)
      BY <1>1
    <3>3. x.i + 1 <= x.i + 1 /\ x.i + 1 <= Len(s) + 1
      BY <1>1, <1>4
    <3> HIDE DEF z
    <3> QED BY <2>9, <3>1, <3>2, <3>3 DEF Ready, Gathered
  <2>11. Splitting(s)[z] = PgSplitting(s)[z.start]
    BY <1>4, <2>10 DEF Agrees
  <2> HIDE DEF z
  <2> QED BY <2>1, <2>8, <2>9, <2>11 DEF Agrees, Cut
<1>5. CASE x.i <= Len(s) /\ s[x.i] # Semicolon
  <2> DEFINE e == PartEnd(s, x.i)
             h == IF s[x.i] \in Blank \/ IsComment(s, x.i) THEN x.hasContent ELSE TRUE
  <2>1. z = [x EXCEPT !.i = e, !.hasContent = h] /\ Splitting(s)[x] = Splitting(s)[z]
    <3>1. ~(x.i > Len(s))
      BY <1>1, <1>5
    <3> QED BY <1>5, <3>1, SplittingDefined DEF SplitLoop
  <2>2. x.i \in 1..Len(s) /\ Open(s, x.i)
    BY <1>1, <1>5 DEF Ready, Gathered
  <2>3. Passed(s, x.i, e, Content(s, x.i))
    BY <1>5, <2>2, PartPassed
  <2>4. z.i = e /\ z.start = x.start /\ z.hasContent = h
    <3> HIDE DEF e, h
    <3> QED BY <2>1 DEF Loop
  <2>5. h <=> x.hasContent \/ Content(s, x.i)
    BY DEF Content
  <2>6. e \in Nat /\ e > x.i /\ x.start <= e
    <3>1. e \in Nat /\ e > x.i
      BY <2>3 DEF Passed
    <3> QED BY <1>1, <1>2, <3>1
  <2>7. \A k \in x.start..Len(s) : k < e <=> k < x.i \/ (k \in x.i..Len(s) /\ k < e)
    <3> HIDE DEF e
    <3> QED BY <1>1, <2>6
  <2>8. Ready(s, z)
    <3>1. \A k \in x.i..Len(s) : k \in x.start..Len(s)
      BY <1>1, <1>2
    <3> HIDE DEF z, e, h
    <3>2. e <= Len(s) => Open(s, e)
      BY <2>3 DEF Passed
    <3>3. \A k \in x.start..Len(s) : k < e => ~Ends(s, Lex(s), k)
      BY <2>3, <2>7 DEF Passed, Ready, Gathered
    <3>4. h <=> \E k \in x.start..Len(s) : k < e /\ Dark(s, k)
      <4>1. x.hasContent <=> \E k \in x.start..Len(s) : k < x.i /\ Dark(s, k)
        BY DEF Ready, Gathered
      <4>2. Content(s, x.i) <=> \E k \in x.i..Len(s) : k < e /\ Dark(s, k)
        BY <2>3 DEF Passed
      <4> QED BY <2>5, <2>7, <3>1, <4>1, <4>2
    <3> QED BY <1>2, <2>4, <2>6, <3>2, <3>3, <3>4 DEF Ready, Gathered
  <2>9. Agrees(s, z)
    BY <1>5, <2>8
  <2> HIDE DEF z, e, h
  <2> QED BY <2>1, <2>4, <2>9 DEF Agrees
<1> QED BY <1>1, <1>3, <1>4, <1>5

(* splitSqlScript cuts a script where PostgreSQL does. *)
THEOREM SplitsAsPostgres ==
  ASSUME NEW C, NEW s \in Seq(C), ~Unusual(s)
  PROVE  Statements(s) = PgStatements(s)
<1> DEFINE T == {x \in Loop : Ready(s, x) => Agrees(s, x)}
           measure == [x \in Loop |-> IF x.i > Len(s) THEN 0 ELSE Len(s) + 1 - x.i]
           x0 == [i |-> 1, start |-> 1, hasContent |-> FALSE]
<1>0. Len(s) \in Nat
  OBVIOUS
<1>1. ASSUME NEW x \in Loop, \A y \in Loop : measure[y] < measure[x] => y \in T
      PROVE  x \in T
  <2> DEFINE z == SplitLoop(s, x)
  <2>1. ASSUME x.i <= Len(s), Ready(s, z)
        PROVE  Agrees(s, z)
    <3>1. z \in Loop /\ z.i > x.i
      BY <2>1, SplitLoopGoesOn
    <3>2. z.i \in Nat /\ x.i \in Nat /\ x.i >= 1
      BY <3>1 DEF Loop
    <3>3. measure[z] < measure[x]
      <4> HIDE DEF z
      <4> QED BY <1>0, <2>1, <3>1, <3>2
    <3>4. z \in T
      <4> HIDE DEF T, z, measure
      <4> QED BY <1>1, <3>1, <3>3
    <3> QED BY <2>1, <3>4
  <2>2. Ready(s, x) => Agrees(s, x)
    BY <2>1, LoopAgrees
  <2> QED BY <2>2
<1>2. measure \in [Loop -> Nat]
  BY <1>0 DEF Loop
<1>3. \A x \in Loop : x \in T
  <2> HIDE DEF T, measure
  <2> QED BY <1>1, <1>2, ByMeasure
<1>4. x0 \in Loop /\ x0.i = 1 /\ x0.start = 1 /\ x0.hasContent = FALSE
  BY DEF Loop
<1>5. Ready(s, x0)
  <2>1. Lex(s)[0] = LexStart
    BY LexDefined
  <2>2. Open(s, 1)
    BY <2>1 DEF Open, LexStart
  <2>3. \A k \in 1..Len(s) : ~(k < 1)
    BY <1>0
  <2>4. 1 <= 1 /\ 1 <= Len(s) + 1
    BY <1>0
  <2> HIDE DEF x0
  <2> QED BY <1>4, <2>2, <2>3, <2>4 DEF Ready, Gathered
<1>6. Agrees(s, x0)
  <2> HIDE DEF x0
  <2> QED BY <1>3, <1>4, <1>5
<1> QED BY <1>4, <1>6 DEF Agrees, Statements, PgStatements

(* The statements of a script consist of its characters. *)
LEMMA StatementsAre ==
  ASSUME NEW C, NEW s \in Seq(C)
  PROVE  Statements(s) \in Seq(Seq(C))
<1> DEFINE T == {x \in Loop : Splitting(s)[x] \in Seq(Seq(C))}
           measure == [x \in Loop |-> IF x.i > Len(s) THEN 0 ELSE Len(s) + 1 - x.i]
           x0 == [i |-> 1, start |-> 1, hasContent |-> FALSE]
           n == Len(s)
<1>0. n \in Nat
  OBVIOUS
<1>1. ASSUME NEW x \in Loop, \A y \in Loop : measure[y] < measure[x] => y \in T
      PROVE  x \in T
  <2> DEFINE z == SplitLoop(s, x)
  <2>1. x.i \in Nat /\ x.i >= 1 /\ x.i - 1 \in Nat /\ x.start \in Nat \ {0}
    BY DEF Loop
  <2>2. CASE x.i > n
    <3>1. PushStatement(s, x.start, Len(s), x.hasContent) \in Seq(Seq(C))
      BY <1>0, <2>1, PushIs
    <3> QED BY <2>2, <3>1, SplittingDefined
  <2>3. CASE ~(x.i > n)
    <3>1. z \in Loop /\ z.i > x.i
      BY <1>0, <2>1, <2>3, SplitLoopGoesOn
    <3>2. z.i \in Nat
      BY <3>1 DEF Loop
    <3>3. measure[z] < measure[x]
      <4> HIDE DEF z
      <4> QED BY <1>0, <2>1, <2>3, <3>1, <3>2
    <3>4. z \in T
      <4> HIDE DEF T, z, measure
      <4> QED BY <1>1, <3>1, <3>3
    <3>5. Splitting(s)[z] \in Seq(Seq(C))
      BY <3>4
    <3>6. PushStatement(s, x.start, x.i - 1, x.hasContent) \in Seq(Seq(C))
      <4>1. x.i - 1 <= Len(s)
        BY <1>0, <2>1, <2>3
      <4> QED BY <2>1, <4>1, PushIs
    <3> DEFINE p == PushStatement(s, x.start, x.i - 1, x.hasContent)
    <3>7. Splitting(s)[x] = (IF s[x.i] = Semicolon THEN p \o Splitting(s)[z] ELSE Splitting(s)[z])
      BY <2>3, SplittingDefined
    <3>8. p \o Splitting(s)[z] \in Seq(Seq(C))
      <4> HIDE DEF p, z
      <4> QED BY <3>5, <3>6 DEF p
    <3> HIDE DEF p, z
    <3> QED BY <3>5, <3>7, <3>8
  <2> QED BY <2>2, <2>3
<1>2. measure \in [Loop -> Nat]
  BY <1>0 DEF Loop
<1>3. \A x \in Loop : x \in T
  <2> HIDE DEF T, measure
  <2> QED BY <1>1, <1>2, ByMeasure
<1>4. x0 \in Loop
  BY DEF Loop
<1> QED BY <1>3, <1>4 DEF Statements

-----------------------------------------------------------------------------
(* Where the command is tells what it has done: all parts before the one at *)
(* hand, and no other; it fails only with a part left.                      *)
Told ==
  /\ step = "ended" => session # "open"
  /\ step \in {"read", "connect"} =>
       parts = NoParts /\ at = 1 /\ done = <<>> /\ exitCode = 0 /\ session = "none"
  /\ step \in {"run", "close"} => parts = SplitSqlScript(script) /\ session = "open"
  /\ step = "run" => exitCode = 0

Carried ==
  parts.type = "sql" =>
    /\ at <= Len(parts.parts) + 1
    /\ done = SubSeq(parts.parts, 1, at - 1)
    /\ step \in {"close", "ended"} /\ exitCode = 0 => at = Len(parts.parts) + 1
    /\ exitCode = 1 => at <= Len(parts.parts) \/ done = <<>>

ExecInv ==
  /\ script \in Script
  /\ lexed = [statements |-> PgStatements(script), unusual |-> Unusual(script)]
  /\ step \in {"read", "connect", "run", "close", "ended"}
  /\ parts \in {NoParts, SplitSqlScript(script)}
  /\ parts = NoParts => done = <<>>
  /\ at \in Nat \ {0}
  /\ step \in {"close", "ended"} /\ exitCode = 0 => parts = SplitSqlScript(script)
  /\ exitCode \in {0, 1}
  /\ Told /\ Carried

(* What a script is cut into, when it is no meta script. *)
LEMMA PartsAre ==
  ASSUME NEW s \in Script, SplitSqlScript(s).type = "sql"
  PROVE  /\ \E C : SplitSqlScript(s).parts \in Seq(Seq(C))
         /\ ~Unusual(s) => SplitSqlScript(s).parts = PgStatements(s)
<1>1. PICK C : s \in Seq(C)
  BY ScriptAssumption
<1>2. SplitSqlScript(s).parts = Statements(s)
  BY DEF SplitSqlScript
<1> QED BY <1>1, <1>2, StatementsAre, SplitsAsPostgres

(* The invariant of exec holds in the beginning. *)
LEMMA ExecInitInv == ExecInit => ExecInv
<1> SUFFICES ASSUME ExecInit
             PROVE  ExecInv
  OBVIOUS
<1>1. NoParts.parts = <<>> /\ Len(NoParts.parts) = 0 /\ SubSeq(<<>>, 1, 1 - 1) = <<>>
  BY DEF NoParts
<1> QED BY <1>1 DEF ExecInit, ExecInv, Told, Carried

(* Every step of exec preserves it. *)
LEMMA ExecStep ==
  ASSUME ExecInv, [ExecNext]_execVars
  PROVE  ExecInv'
<1> USE DEF ExecInv, Told, Carried
<1>n. NoParts.parts = <<>> /\ Len(NoParts.parts) = 0 /\ Len(<<>>) = 0
  BY DEF NoParts
<1>1. CASE ReadFails
  BY <1>1, <1>n DEF ReadFails, Fail
<1>2. CASE Read
  BY <1>2 DEF Read
<1>3. CASE ConnectFails
  BY <1>3, <1>n DEF ConnectFails, Fail
<1>4. CASE Connect
  <2>1. CASE SplitSqlScript(script).type = "sql"
    <3> DEFINE p == SplitSqlScript(script).parts
    <3>1. PICK C : p \in Seq(Seq(C))
      BY <2>1, PartsAre
    <3>2. Len(p) \in Nat /\ SubSeq(p, 1, 1 - 1) = <<>>
      <4> HIDE DEF p
      <4> QED BY <3>1
    <3> HIDE DEF p
    <3>3. parts' = SplitSqlScript(script) /\ parts'.parts = p /\ at' = 1 /\ done' = <<>>
      BY <1>4 DEF Connect, p
    <3>4. Carried'
      BY <1>4, <3>2, <3>3 DEF Connect
    <3> QED BY <1>4, <3>4 DEF Connect
  <2>2. CASE SplitSqlScript(script).type # "sql"
    BY <1>4, <2>2 DEF Connect
  <2> QED BY <2>1, <2>2
<1>5. CASE RunPart
  <2>1. /\ parts = SplitSqlScript(script) /\ at <= Len(parts.parts) /\ at' = at + 1
        /\ UNCHANGED <<script, lexed, step, parts, session, exitCode>>
        /\ step = "run" /\ exitCode = 0
    BY <1>5 DEF RunPart, Running
  <2>2. CASE parts.type = "sql"
    <3> DEFINE p == parts.parts
    <3>1. PICK C : p \in Seq(Seq(C))
      BY <2>1, <2>2, PartsAre
    <3>2. done' = Append(SubSeq(p, 1, at - 1), p[at])
      BY <1>5, <2>2 DEF RunPart, Part
    <3>3. at \in 1..Len(p) /\ at \in Nat /\ at >= 1 /\ Len(p) \in Nat
      <4> HIDE DEF p
      <4> QED BY <2>1, <3>1 DEF p
    <3>4. Append(SubSeq(p, 1, at - 1), p[at]) = SubSeq(p, 1, at + 1 - 1)
      <4> HIDE DEF p
      <4> QED BY <3>1, <3>3
    <3>5. Carried'
      <4>1. at + 1 <= Len(p) + 1 /\ exitCode # 1 /\ step \notin {"close", "ended"}
        <5> HIDE DEF p
        <5> QED BY <2>1, <3>3
      <4>2. parts'.parts = p /\ step' = step /\ exitCode' = exitCode /\ at' = at + 1
        BY <2>1
      <4>3. done' = SubSeq(p, 1, at' - 1)
        <5>1. at' - 1 = at + 1 - 1
          BY <2>1
        <5> HIDE DEF p
        <5> QED BY <3>2, <3>4, <5>1
      <4> HIDE DEF p
      <4> QED BY <4>1, <4>2, <4>3
    <3>6. parts # NoParts
      <4>1. Len(NoParts.parts) = 0
        BY <1>n
      <4> QED BY <3>3, <4>1
    <3> HIDE DEF Carried
    <3> QED BY <2>1, <3>3, <3>5, <3>6
  <2>3. CASE parts.type # "sql"
    <3>1. at + 1 \in Nat \ {0} /\ parts # NoParts
      BY <2>3 DEF NoParts
    <3> QED BY <2>1, <2>3, <3>1
  <2> QED BY <2>2, <2>3
<1>6. CASE PartFails
  BY <1>6 DEF PartFails, Running, Fail
<1>7. CASE Finish
  <2>1. parts.type = "sql" => at = Len(parts.parts) + 1
    <3>1. ASSUME parts.type = "sql"
          PROVE  Len(parts.parts) \in Nat
      <4>1. parts = SplitSqlScript(script)
        BY <1>7 DEF Finish
      <4>2. PICK C : parts.parts \in Seq(Seq(C))
        BY <3>1, <4>1, PartsAre
      <4> QED BY <4>2
    <3> QED BY <1>7, <3>1 DEF Finish
  <2> QED BY <1>7, <2>1 DEF Finish
<1>8. CASE Close
  BY <1>8 DEF Close
<1>9. CASE UNCHANGED execVars
  BY <1>9 DEF execVars
<1> QED BY <1>1, <1>2, <1>3, <1>4, <1>5, <1>6, <1>7, <1>8, <1>9 DEF ExecNext

(* It implies what the documentation promises. *)
LEMMA CarriedOut == ExecInv => ScriptCarriedOut
<1> SUFFICES ASSUME ExecInv
             PROVE  ScriptCarriedOut
  OBVIOUS
<1>1. session = "open" => step \in {"run", "close"}
  BY DEF ExecInv, Told
<1>2. ASSUME ~lexed.unusual, parts.type # "meta"
      PROVE  /\ IsPrefixOf(done, lexed.statements)
             /\ step = "ended" /\ exitCode = 0 => done = lexed.statements
             /\ exitCode = 1 => done # lexed.statements \/ done = <<>>
  <2>1. ~Unusual(script) /\ lexed.statements = PgStatements(script)
    BY <1>2 DEF ExecInv
  <2>2. CASE parts = SplitSqlScript(script)
    <3> DEFINE p == SplitSqlScript(script).parts
    <3>1. parts.type = "sql"
      BY <1>2, <2>2 DEF SplitSqlScript
    <3>2. PICK C : p \in Seq(Seq(C))
      BY <2>2, <3>1, PartsAre DEF ExecInv
    <3>3. p = lexed.statements
      BY <2>1, <2>2, <3>1, PartsAre DEF ExecInv
    <3>4. /\ at \in Nat \ {0} /\ at <= Len(p) + 1 /\ done = SubSeq(p, 1, at - 1)
          /\ step \in {"close", "ended"} /\ exitCode = 0 => at = Len(p) + 1
          /\ exitCode = 1 => at <= Len(p) \/ done = <<>>
      BY <2>2, <3>1 DEF ExecInv, Carried
    <3> HIDE DEF p
    <3>5. Len(done) = at - 1 /\ Len(p) \in Nat /\ at - 1 <= Len(p)
      BY <3>2, <3>4
    <3>6. IsPrefixOf(done, p)
      BY <3>4, <3>5 DEF IsPrefixOf
    <3>7. at = Len(p) + 1 => done = p
      BY <3>2, <3>4
    <3>8. at <= Len(p) => done # p
      BY <3>4, <3>5
    <3> QED BY <3>3, <3>4, <3>6, <3>7, <3>8
  <2>3. CASE parts # SplitSqlScript(script)
    <3>1. done = <<>> /\ ~(step = "ended" /\ exitCode = 0)
      BY <2>3 DEF ExecInv
    <3>2. IsPrefixOf(<<>>, lexed.statements)
      <4>1. PICK C : script \in Seq(C)
        BY ScriptAssumption DEF ExecInv
      <4>2. lexed.statements \in Seq(Seq(C))
        BY <2>1, <4>1, StatementsAre, SplitsAsPostgres
      <4> QED BY <4>2 DEF IsPrefixOf
    <3> QED BY <3>1, <3>2
  <2> QED BY <2>2, <2>3
<1>3. parts.type # "meta" \/ parts.type = "meta"
  OBVIOUS
<1> QED BY <1>1, <1>2 DEF ScriptCarriedOut

-----------------------------------------------------------------------------
(* The REPL. *)

MultiInFlight == \E i \in 1..Len(flying) : flying[i] = "multi"

(* Outside of a statement the buffer is empty, unless the query it was sent *)
(* with is still awaited; inside of one, no such query is.                  *)
BufferInv ==
  ~crossed =>
    /\ inMultiLine => ~MultiInFlight
    /\ ~inMultiLine /\ ~MultiInFlight /\ client # "exited" => buffer = <<>>

(* At most one handler will clear the buffer. *)
OneMulti ==
  ~crossed => \A i, j \in 1..Len(flying) :
                flying[i] = "multi" /\ flying[j] = "multi" => i = j

ReplInv == ReplTypeOK /\ StatementsAsTyped /\ BufferInv /\ OneMulti

(* Empty sequences. *)
LEMMA Empty ==
  /\ Len(<<>>) = 0
  /\ <<>> \in Seq(QueryKind) /\ <<>> \in Seq(Lines) /\ <<>> \in Seq(Seq(Lines))
BY EmptySeq

(* The invariant of the REPL holds in the beginning. *)
LEMMA ReplInitInv == ReplInit => ReplInv
<1> SUFFICES ASSUME ReplInit
             PROVE  ReplInv
  OBVIOUS
<1>1. ReplTypeOK
  <2>1. 0 \in 0..MaxLines
    BY ReplAssumption
  <2>2. flying \in Seq(QueryKind) /\ sent \in Seq(Seq(Lines)) /\ meant \in Seq(Seq(Lines))
    BY Empty DEF ReplInit
  <2>3. buffer \in Seq(Lines) /\ draft \in Seq(Lines)
    BY Empty DEF ReplInit
  <2> QED BY <2>1, <2>2, <2>3 DEF ReplInit, ReplTypeOK
<1>2. \A i \in 1..Len(flying) : FALSE
  BY Empty DEF ReplInit
<1>3. StatementsAsTyped /\ BufferInv /\ OneMulti
  BY <1>2 DEF ReplInit, StatementsAsTyped, BufferInv, OneMulti, MultiInFlight
<1> QED BY <1>1, <1>3 DEF ReplInv

(* What a query that goes out adds to those in flight. *)
LEMMA SendAdds ==
  ASSUME flying \in Seq(QueryKind), NEW k \in QueryKind,
         flying' = Append(flying, k)
  PROVE  /\ flying' \in Seq(QueryKind)
         /\ MultiInFlight' <=> (MultiInFlight \/ k = "multi")
         /\ k # "multi" => \A i \in 1..Len(flying') :
                             flying'[i] = "multi" =>
                               i \in 1..Len(flying) /\ flying[i] = "multi"
         /\ ~MultiInFlight => \A i \in 1..Len(flying') :
                                flying'[i] = "multi" => i = Len(flying) + 1
<1>1. flying' \in Seq(QueryKind) /\ Len(flying') = Len(flying) + 1
  OBVIOUS
<1>2. \A i \in 1..Len(flying) : flying'[i] = flying[i] /\ i \in 1..Len(flying')
  OBVIOUS
<1>3. flying'[Len(flying) + 1] = k /\ Len(flying) + 1 \in 1..Len(flying')
  OBVIOUS
<1>4. \A i \in 1..Len(flying') : i \in 1..Len(flying) \/ i = Len(flying) + 1
  BY <1>1
<1> QED BY <1>1, <1>2, <1>3, <1>4 DEF MultiInFlight

(* What an answer takes away from them. *)
LEMMA AnswerTakes ==
  ASSUME flying \in Seq(QueryKind), flying # <<>>, flying' = Tail(flying)
  PROVE  /\ flying' \in Seq(QueryKind)
         /\ \A i \in 1..Len(flying') :
              i + 1 \in 1..Len(flying) /\ flying'[i] = flying[i + 1] /\ i \in Nat
         /\ Head(flying) # "multi" => (MultiInFlight' <=> MultiInFlight)
<1>1. flying' \in Seq(QueryKind) /\ Len(flying') = Len(flying) - 1
  OBVIOUS
<1>2. \A i \in 1..Len(flying') :
        i + 1 \in 1..Len(flying) /\ flying'[i] = flying[i + 1] /\ i \in Nat
  OBVIOUS
<1>3. \A i \in 1..Len(flying) :
        i = 1 \/ (i - 1 \in 1..Len(flying') /\ flying'[i - 1] = flying[i])
  OBVIOUS
<1>4. Head(flying) = flying[1]
  OBVIOUS
<1> QED BY <1>1, <1>2, <1>3, <1>4 DEF MultiInFlight

-----------------------------------------------------------------------------
(* Every step of the REPL preserves its types. *)
LEMMA ReplTypeStep ==
  ASSUME ReplTypeOK, [ReplNext]_replVars
  PROVE  ReplTypeOK'
<1> USE ReplAssumption DEF ReplTypeOK, Lines
<1>0. ASSUME Reading, lines' = lines + 1
      PROVE  lines' \in 0..MaxLines /\ lines' \in Lines
  BY <1>0 DEF Reading
<1>1. ASSUME NEW kind \in LineKind, ContinueLine(kind) PROVE ReplTypeOK'
  <2>1. crossed' \in BOOLEAN
    BY <1>1, Zenon DEF ContinueLine
  <2> QED BY <1>0, <1>1, <2>1 DEF ContinueLine
<1>2. CASE EndLine
  <2>1. buffer' \in Seq(Lines) /\ Append(draft, lines') \in Seq(Lines)
    BY <1>0, <1>2 DEF EndLine
  <2>2. flying' \in Seq(QueryKind)
    BY <1>2 DEF EndLine, Send, QueryKind
  <2>3. sent' \in Seq(Seq(Lines)) /\ meant' \in Seq(Seq(Lines))
    BY <1>2, <2>1 DEF EndLine, Send
  <2> QED BY <1>0, <1>2, <2>1, <2>2, <2>3, Empty DEF EndLine
<1>3. CASE SingleLine
  <2>1. <<lines'>> \in Seq(Lines)
    BY <1>0, <1>3 DEF SingleLine
  <2> QED BY <1>0, <1>3, <2>1 DEF SingleLine, Send, QueryKind
<1>4. CASE BlankLine
  BY <1>0, <1>4 DEF BlankLine
<1>5. CASE MetaLine
  <2>1. flying' \in Seq(QueryKind)
    <3>1. flying \in Seq(QueryKind) /\ "meta" \in QueryKind
      BY DEF QueryKind
    <3>2. Append(flying, "meta") \in Seq(QueryKind)
      BY <3>1
    <3> QED BY <1>5, <3>1, <3>2 DEF MetaLine
  <2> QED BY <1>0, <1>5, <2>1 DEF MetaLine
<1>6. ASSUME NEW kind \in QueryKind, Answered(kind) PROVE ReplTypeOK'
  <2>1. flying' \in Seq(QueryKind)
    BY <1>6, AnswerTakes DEF Answered
  <2>2. buffer' \in Seq(Lines)
    BY <1>6, Empty DEF Answered
  <2> QED BY <1>6, <2>1, <2>2 DEF Answered
<1>7. CASE Cancel \/ Leave \/ Exit
  BY <1>7, Empty DEF Cancel, Leave, Exit
<1>8. CASE UNCHANGED replVars
  BY <1>8 DEF replVars
<1> QED BY <1>1, <1>2, <1>3, <1>4, <1>5, <1>6, <1>7, <1>8 DEF ReplNext

(* And the rest of its invariant. *)
LEMMA ReplInvStep ==
  ASSUME ReplInv, [ReplNext]_replVars
  PROVE  (StatementsAsTyped /\ BufferInv /\ OneMulti)'
<1> USE DEF ReplInv, ReplTypeOK, StatementsAsTyped, BufferInv, OneMulti
<1>1. ASSUME NEW kind \in LineKind, ContinueLine(kind)
      PROVE  (StatementsAsTyped /\ BufferInv /\ OneMulti)'
  <2>1. MultiInFlight' <=> MultiInFlight
    BY <1>1 DEF ContinueLine, MultiInFlight
  <2>2. ~crossed' => ~crossed /\ ~MultiInFlight
    BY <1>1 DEF ContinueLine, MultiInFlight
  <2> QED BY <1>1, <2>1, <2>2 DEF ContinueLine, Reading
<1>2. CASE EndLine
  <2>1. /\ MultiInFlight'
        /\ ~MultiInFlight => \A i \in 1..Len(flying') :
                               flying'[i] = "multi" => i = Len(flying) + 1
    BY <1>2, SendAdds DEF EndLine, Send, QueryKind
  <2> QED BY <1>2, <2>1 DEF EndLine, Send
<1>3. CASE SingleLine
  <2>1. /\ MultiInFlight' <=> MultiInFlight
        /\ \A i \in 1..Len(flying') :
             flying'[i] = "multi" => i \in 1..Len(flying) /\ flying[i] = "multi"
    BY <1>3, SendAdds DEF SingleLine, Send, QueryKind
  <2> QED BY <1>3, <2>1 DEF SingleLine, Send
<1>4. CASE MetaLine
  <2>1. CASE flying' = flying
    BY <1>4, <2>1 DEF MetaLine, MultiInFlight
  <2>2. CASE flying' = Append(flying, "meta")
    <3>1. /\ MultiInFlight' <=> MultiInFlight
          /\ \A i \in 1..Len(flying') :
               flying'[i] = "multi" => i \in 1..Len(flying) /\ flying[i] = "multi"
      BY <2>2, SendAdds DEF QueryKind
    <3> QED BY <1>4, <3>1 DEF MetaLine
  <2> QED BY <1>4, <2>1, <2>2 DEF MetaLine
<1>5. ASSUME NEW kind \in QueryKind, Answered(kind)
      PROVE  (StatementsAsTyped /\ BufferInv /\ OneMulti)'
  <2>1. /\ \A i \in 1..Len(flying') :
             i + 1 \in 1..Len(flying) /\ flying'[i] = flying[i + 1] /\ i \in Nat
        /\ kind # "multi" => (MultiInFlight' <=> MultiInFlight)
    BY <1>5, AnswerTakes DEF Answered
  <2>2. OneMulti'
    BY <1>5, <2>1 DEF Answered
  <2>3. CASE kind = "multi"
    <3>1. 1 \in 1..Len(flying) /\ flying[1] = "multi"
      BY <1>5, <2>3 DEF Answered
    <3>2. MultiInFlight
      BY <3>1 DEF MultiInFlight
    <3>3. ~crossed => ~MultiInFlight'
      <4>1. ASSUME ~crossed, NEW i \in 1..Len(flying'), flying'[i] = "multi"
            PROVE  FALSE
        <5>1. i + 1 \in 1..Len(flying) /\ flying[i + 1] = "multi" /\ i + 1 # 1
          BY <2>1, <4>1
        <5> QED BY <3>1, <4>1, <5>1
      <4> QED BY <4>1 DEF MultiInFlight
    <3> QED BY <1>5, <2>2, <2>3, <3>2, <3>3 DEF Answered
  <2>4. CASE kind # "multi"
    BY <1>5, <2>1, <2>2, <2>4 DEF Answered
  <2> QED BY <2>3, <2>4
<1>6. CASE Cancel
  BY <1>6 DEF Cancel, MultiInFlight
<1>7. CASE BlankLine \/ Leave \/ UNCHANGED replVars
  BY <1>7 DEF BlankLine, Leave, replVars, MultiInFlight
<1>8. CASE Exit
  BY <1>8, Empty DEF Exit, MultiInFlight
<1> QED BY <1>1, <1>2, <1>3, <1>4, <1>5, <1>6, <1>7, <1>8 DEF ReplNext

(* The invariant of the REPL. *)
LEMMA ReplInvariant == Spec => []ReplInv
<1>1. Init => ReplInv
  BY ReplInitInv DEF Init
<1>2. ASSUME ReplInv, [Next]_consoleVars
      PROVE  ReplInv'
  <2>1. [ReplNext]_replVars
    BY <1>2 DEF Next, consoleVars
  <2>2. ReplTypeOK'
    BY <1>2, <2>1, ReplTypeStep DEF ReplInv
  <2> QED BY <1>2, <2>1, <2>2, ReplInvStep DEF ReplInv
<1> QED BY <1>1, <1>2, PTL DEF Spec

(* What is sent is what was typed, for any number of lines and any delay of *)
(* the answers, unless a statement of several lines is begun before the     *)
(* answer to another one.                                                   *)
THEOREM TypedIsSent == Spec => []StatementsAsTyped
<1>1. ReplInv => StatementsAsTyped
  BY DEF ReplInv
<1> QED BY ReplInvariant, <1>1, PTL

(* exec carries out the statements that PostgreSQL sees in a script, up to  *)
(* the first refused one, for scripts of any length.                        *)
THEOREM ExecCarriesOut == Spec => []ScriptCarriedOut
<1>1. Init => ExecInv
  BY ExecInitInv DEF Init
<1>2. ASSUME ExecInv, [Next]_consoleVars
      PROVE  ExecInv'
  <2>1. [ExecNext]_execVars
    BY <1>2 DEF Next, consoleVars
  <2> QED BY <1>2, <2>1, ExecStep
<1> QED BY <1>1, <1>2, CarriedOut, PTL DEF Spec
=============================================================================
