------------------------ MODULE SchemaEvolutionProofs -----------------------
(***************************************************************************)
(* Proofs about SchemaEvolution: whatever the schema file says over time    *)
(* and whatever the answers about renames are, the migrations, replayed,    *)
(* say what the schema says (Represented), and so does the difference of    *)
(* two points of the history (RangesReplay), unless generate makes one of   *)
(* its known mistakes.                                                      *)
(*                                                                          *)
(* The inductive invariant, History, tells how each migration came about:   *)
(* it was made for some design, with some renames, from what the ones       *)
(* before it record.                                                        *)
(***************************************************************************)
EXTENDS SchemaEvolution, SnapshotsProofs

(* The faults, named as the lemmas about the parts of a script name them.    *)
LEMMA ForgetsThen ==
  ASSUME NEW prev, NEW curr, NEW r, NEW cr, NEW P,
         P = Stayed(prev.tables, curr.tables, r), NEW k \in DOMAIN P,
         ForgetsKey(P[k], curr.tables[k], cr[k])
  PROVE  KeyForgotten(prev, curr, r, cr)
<1> DEFINE o == OldKey(r, k)
           p == prev.tables[o].columns
           q == curr.tables[k].columns
           S == Stayed(p, q, cr[k])
<1>1. k \in Staying(prev, curr, r) /\ P[k] = prev.tables[o]
  BY DEF Stayed, Staying
<1>2. PICK c \in DOMAIN S : c \in KeyColumns /\ S[c].unique /\ ~q[c].unique
  BY <1>1 DEF ForgetsKey
<1> DEFINE d == OldKey(cr[k], c)
<1>3. c \in DOMAIN q /\ d \in DOMAIN p /\ S[c] = p[d]
  BY DEF Stayed
<1> DEFINE x == [key |-> k, old |-> d, new |-> c, p |-> p[d], q |-> q[c]]
<1>4. x \in Columns(prev, curr, r, cr)
  <2> DEFINE pairs(m) ==
        LET p2 == prev.tables[OldKey(r, m)].columns
            q2 == curr.tables[m].columns
        IN {[key |-> m, old |-> OldKey(cr[m], c2), new |-> c2,
             p |-> p2[OldKey(cr[m], c2)], q |-> q2[c2]] :
              c2 \in {d2 \in DOMAIN q2 : OldKey(cr[m], d2) \in DOMAIN p2}}
  <2>1. x \in pairs(k)
    BY <1>3
  <2>2. Columns(prev, curr, r, cr) = UNION {pairs(m) : m \in Staying(prev, curr, r)}
    BY DEF Columns
  <2> HIDE DEF pairs, x
  <2> QED BY <1>1, <2>1, <2>2
<1>5. x.new \in KeyColumns /\ x.p.unique /\ ~x.q.unique
  BY <1>2, <1>3
<1> HIDE DEF x
<1> QED BY <1>4, <1>5 DEF KeyForgotten

LEMMA ConfusesThen ==
  ASSUME NEW prev, NEW curr, NEW r, NEW cr, NEW P,
         P = Stayed(prev.tables, curr.tables, r), NEW k \in DOMAIN P,
         ConfusesNames(k, P[k], curr.tables[k], cr[k])
  PROVE  Eponymous(prev, curr, r, cr)
<1> DEFINE p == prev.tables[OldKey(r, k)]
           q == curr.tables[k]
           S == Stayed(p.columns, q.columns, cr[k])
<1>1. k \in Staying(prev, curr, r) /\ P[k] = p
  BY DEF Stayed, Staying
<1>2. PICK c \in DOMAIN q.columns :
        LET n == AutoName(k, c, "key") IN
        \/ /\ q.columns[c].unique
           /\ \E m \in Changed(p.constraints, q.constraints) : OwnConstraint(k, c, m)
        \/ /\ n \in DOMAIN p.constraints \ Changed(p.constraints, q.constraints)
           /\ c \in DOMAIN S /\ S[c].unique /\ ~q.columns[c].unique
  BY <1>1 DEF ConfusesNames
<1>3. c \in DOMAIN S => /\ OldKey(cr[k], c) \in DOMAIN p.columns
                        /\ S[c] = p.columns[OldKey(cr[k], c)]
  BY DEF Stayed
<1> HIDE DEF S
<1> QED BY <1>1, <1>2, <1>3 DEF Eponymous

LEMMA SharedThen ==
  ASSUME NEW prev, NEW curr, NEW r, NEW P,
         P = Stayed(prev.tables, curr.tables, r), ~NotShared(P, curr.tables)
  PROVE  SharedIndex(prev, curr, r)
<1> DEFINE G == curr.tables
           Old(u) == prev.tables[OldKey(r, u)]
<1>1. \A u \in DOMAIN P : u \in Staying(prev, curr, r) /\ P[u] = Old(u)
  BY DEF Stayed, Staying
<1>2. PICK k \in DOMAIN P : \E u \in DOMAIN G \ {k} :
        ~(/\ DOMAIN G[u].indexes \cap Changed(P[k].indexes, G[k].indexes) = {}
          /\ u \in DOMAIN P => DOMAIN P[u].indexes \cap Changed(P[k].indexes, G[k].indexes) = {})
  BY DEF NotShared
<1>u. PICK u \in DOMAIN G \ {k} :
        ~(/\ DOMAIN G[u].indexes \cap Changed(P[k].indexes, G[k].indexes) = {}
          /\ u \in DOMAIN P => DOMAIN P[u].indexes \cap Changed(P[k].indexes, G[k].indexes) = {})
  BY <1>2
<1>3. PICK n \in Changed(P[k].indexes, G[k].indexes) :
        n \in DOMAIN G[u].indexes \/ (u \in DOMAIN P /\ n \in DOMAIN P[u].indexes)
  BY <1>u
<1>4. n \in DroppedIndexes(prev, curr, r, k)
  BY <1>1, <1>3 DEF DroppedIndexes
<1>5. n \in DOMAIN G[u].indexes \/ (u \in Staying(prev, curr, r) /\ n \in DOMAIN Old(u).indexes)
  BY <1>1, <1>3
<1>6. k \in Staying(prev, curr, r)
  BY <1>1
<1> QED BY <1>4, <1>5, <1>6 DEF SharedIndex

LEMMA ClashThen ==
  ASSUME NEW prev, NEW curr, NEW e \in DOMAIN prev.enums \cap DOMAIN curr.enums,
         Clash(e, prev.enums[e], curr.enums[e])
  PROVE  SameAnchor(prev, curr)
BY DEF Clash, SameAnchor

(* A migration without one of the faults leads to what it was made for; and *)
(* any leads to a schema that can be written down.                          *)
THEOREM MigrationLeads ==
  ASSUME NEW prev, IsSnapshot(prev), NEW curr, IsSnapshot(curr), IsSeq(TableOrder),
         ~Refused(prev, curr),
         NEW r \in TableRenames(prev, curr), NEW cr \in ColumnRenames(prev, curr, r)
  PROVE  LET script == GenerateMigration(prev, curr, "up", r, cr) IN
         /\ IsSeq(script) /\ IsSnapshot(Replay(prev, script))
         /\ Misrecorded(prev, curr, r, cr) \/ Replay(prev, script) = curr
<1> DEFINE script == GenerateMigration(prev, curr, "up", r, cr)
           P == Stayed(prev.tables, curr.tables, r)
<1>1. PICK u : Leads(script, prev, u) /\ Outcome(u, prev, curr, r, cr)
  BY GenerateLeads
<1>2. IsSnapshot(u)
  BY <1>1, OutcomeIsSnapshot
<1>3. IsSeq(script) /\ Replay(prev, script) = u
  BY <1>1 DEF Leads
<1> HIDE DEF script, P
<1>4. ASSUME ~Misrecorded(prev, curr, r, cr)
      PROVE  u = curr
  <2>1. NotShared(P, curr.tables)
    BY <1>4, SharedThen DEF Misrecorded, P
  <2>2. ASSUME NEW k \in DOMAIN P
        PROVE  AltersWell(k, P, curr.tables, cr)
    <3>1. ~ForgetsKey(P[k], curr.tables[k], cr[k])
      BY <1>4, ForgetsThen DEF Misrecorded, P
    <3>2. ~ConfusesNames(k, P[k], curr.tables[k], cr[k])
      BY <1>4, ConfusesThen DEF Misrecorded, P
    <3> QED BY <3>1, <3>2 DEF AltersWell
  <2>3. \A e \in DOMAIN prev.enums \cap DOMAIN curr.enums :
          ~Clash(e, prev.enums[e], curr.enums[e])
    BY <1>4, ClashThen DEF Misrecorded
  <2>4. P = Stayed(prev.tables, curr.tables, r)
    BY DEF P
  <2> QED BY <1>1, <2>1, <2>2, <2>3, <2>4, OutcomeExactly
<1> QED BY <1>2, <1>3, <1>4 DEF script

-----------------------------------------------------------------------------
(* What some migrations record.                                             *)
(* What the schema files may say. *)
Designs == UNION {p.designs : p \in Projects}

LEMMA Assumed == IsSeq(TableOrder) /\ \A d \in Designs : IsSnapshot(d)
<1>1. IsSeq(TableOrder)
  BY EvolutionAssumption DEF IsSeq
<1>2. ASSUME NEW d \in Designs
      PROVE  IsSnapshot(d)
  <2>1. WellFormed(d)
    BY EvolutionAssumption DEF Designs
  <2> QED BY <2>1, WellFormedSnapshots
<1> QED BY <1>1, <1>2

LEMMA EmptyIsSnapshot == IsSnapshot(Empty)
<1>1. DOMAIN Nothing = {} /\ Nothing = [x \in {} |-> x]
  BY DEF Nothing
<1>2. Empty.tables = Nothing /\ Empty.enums = Nothing /\ Empty.sequences = {}
      /\ Empty = [tables |-> Empty.tables, enums |-> Empty.enums, sequences |-> Empty.sequences]
  BY DEF Empty
<1>3. IsFiniteSet({})
  BY FS_EmptySet
<1>4. WellFormed(Empty)
  <2>1. IsMap(Nothing)
    BY <1>1, <1>3 DEF IsMap
  <2> QED BY <1>1, <1>2, <1>3, <2>1 DEF WellFormed
<1> QED BY <1>4, WellFormedSnapshots

Ups(F, n) == [i \in 1..n |-> F[i].up]
RecordedBy(F, n) == Replay(Empty, FlattenSeq(Ups(F, n)))
AllSeqs(F, n) == \A i \in 1..n : IsSeq(F[i].up)

LEMMA UpsAre ==
  ASSUME NEW F, NEW n \in Nat, AllSeqs(F, n)
  PROVE  /\ IsSeqOfSeqs(Ups(F, n)) /\ Len(Ups(F, n)) = n
         /\ \A i \in 1..n : Ups(F, n)[i] = F[i].up
<1>1. Ups(F, n) = [i \in 1..n |-> Ups(F, n)[i]] /\ \A i \in 1..n : Ups(F, n)[i] = F[i].up
  BY DEF Ups
<1>2. IsSeq(Ups(F, n)) /\ Len(Ups(F, n)) = n
  BY <1>1, FunctionIsSeq
<1> QED BY <1>1, <1>2 DEF IsSeqOfSeqs, AllSeqs

LEMMA NoneRecorded ==
  ASSUME NEW F
  PROVE  RecordedBy(F, 0) = Empty
<1>1. AllSeqs(F, 0)
  BY DEF AllSeqs
<1>2. IsSeqOfSeqs(Ups(F, 0)) /\ Len(Ups(F, 0)) = 0
  BY <1>1, UpsAre
<1> QED BY <1>2, StagesFollow DEF RecordedBy

LEMMA OneMoreRecorded ==
  ASSUME NEW F, NEW n \in Nat, AllSeqs(F, n + 1)
  PROVE  RecordedBy(F, n + 1) = Replay(RecordedBy(F, n), F[n + 1].up)
<1> DEFINE a == Ups(F, n)
           b == Ups(F, n + 1)
           f == Stages(Empty, a)
           g == Stages(Empty, b)
           T == {i \in 0..n : f[i] = g[i]}
<1>1. AllSeqs(F, n)
  BY DEF AllSeqs
<1>2. /\ IsSeqOfSeqs(a) /\ Len(a) = n /\ \A i \in 1..n : a[i] = F[i].up
      /\ IsSeqOfSeqs(b) /\ Len(b) = n + 1 /\ \A i \in 1..n + 1 : b[i] = F[i].up
  BY <1>1, UpsAre
<1>3. /\ f[0] = Empty /\ \A i \in 1..n : f[i] = Replay(f[i - 1], a[i])
      /\ g[0] = Empty /\ \A i \in 1..n + 1 : g[i] = Replay(g[i - 1], b[i])
      /\ f[n] = RecordedBy(F, n) /\ g[n + 1] = RecordedBy(F, n + 1)
  BY <1>2, StagesFollow DEF RecordedBy
<1> HIDE DEF a, b, f, g
<1>4. 0 \in T
  BY <1>3
<1>5. ASSUME NEW i \in 0..n, i \in T, i < n
      PROVE  i + 1 \in T
  <2>1. i + 1 \in 1..n /\ i + 1 \in 1..n + 1 /\ i + 1 - 1 = i
    BY <1>5
  <2>2. f[i + 1] = Replay(f[i], a[i + 1]) /\ g[i + 1] = Replay(g[i], b[i + 1])
    BY <1>3, <2>1
  <2>3. a[i + 1] = b[i + 1]
    BY <1>2, <2>1
  <2> QED BY <1>5, <2>1, <2>2, <2>3
<1>6. n \in T
  <2> HIDE DEF T
  <2> QED BY <1>4, <1>5, Upwards
<1>7. n + 1 \in 1..n + 1 /\ n + 1 - 1 = n
  OBVIOUS
<1>8. g[n + 1] = Replay(g[n], b[n + 1]) /\ b[n + 1] = F[n + 1].up
  BY <1>2, <1>3, <1>7
<1> QED BY <1>3, <1>6, <1>8

-----------------------------------------------------------------------------
(* Migrations, each made for what those before it record.                   *)
IsStep(m, prev) ==
  \E curr \in Designs : \E r \in TableRenames(prev, curr) :
  \E cr \in ColumnRenames(prev, curr, r) :
    ~Refused(prev, curr) /\ m = Migration(prev, curr, r, cr)

IsHistory(F) ==
  IsSeq(F) /\ \A i \in 1..Len(F) : IsStep(F[i], RecordedBy(F, i - 1))

LEMMA StepLeads ==
  ASSUME NEW prev, IsSnapshot(prev), NEW m, IsStep(m, prev)
  PROVE  /\ IsSeq(m.up) /\ IsSnapshot(Replay(prev, m.up))
         /\ \/ Misrecorded(m.prev, m.curr, m.renames, m.columnRenames)
            \/ Replay(prev, m.up) = m.curr
<1>1. PICK curr \in Designs : \E r \in TableRenames(prev, curr) :
        \E cr \in ColumnRenames(prev, curr, r) :
          ~Refused(prev, curr) /\ m = Migration(prev, curr, r, cr)
  BY DEF IsStep
<1>2. PICK r \in TableRenames(prev, curr) :
        \E cr \in ColumnRenames(prev, curr, r) :
          ~Refused(prev, curr) /\ m = Migration(prev, curr, r, cr)
  BY <1>1
<1>3. PICK cr \in ColumnRenames(prev, curr, r) :
          ~Refused(prev, curr) /\ m = Migration(prev, curr, r, cr)
  BY <1>2
<1>4. /\ m.prev = prev /\ m.curr = curr /\ m.renames = r /\ m.columnRenames = cr
      /\ m.up = GenerateMigration(prev, curr, "up", r, cr)
  BY <1>3 DEF Migration
<1> QED BY <1>3, <1>4, Assumed, MigrationLeads

(* Whatever has been recorded can be written down.                          *)
LEMMA HistoryLeads ==
  ASSUME NEW F, IsHistory(F)
  PROVE  /\ AllSeqs(F, Len(F)) /\ Len(F) \in Nat
         /\ \A n \in 0..Len(F) : IsSnapshot(RecordedBy(F, n))
         /\ \A n \in 1..Len(F) :
              \/ Misrecorded(F[n].prev, F[n].curr, F[n].renames, F[n].columnRenames)
              \/ RecordedBy(F, n) = F[n].curr
<1> DEFINE N == Len(F)
           T == {n \in 0..N : AllSeqs(F, n) /\ IsSnapshot(RecordedBy(F, n))}
<1>1. N \in Nat
  BY SeqIsFunction DEF IsHistory
<1>2. \A n \in 1..N : IsStep(F[n], RecordedBy(F, n - 1))
  BY DEF IsHistory
<1> HIDE DEF N
<1>3. 0 \in T
  BY <1>1, NoneRecorded, EmptyIsSnapshot DEF AllSeqs
<1>4. ASSUME NEW n \in 0..N, n \in T, n < N
      PROVE  n + 1 \in T
  <2>1. n \in Nat /\ n + 1 \in 1..N /\ n + 1 - 1 = n
    BY <1>1, <1>4
  <2>2. IsStep(F[n + 1], RecordedBy(F, n))
    BY <1>2, <2>1
  <2>3. IsSeq(F[n + 1].up) /\ IsSnapshot(Replay(RecordedBy(F, n), F[n + 1].up))
    BY <1>4, <2>2, StepLeads
  <2>4. AllSeqs(F, n + 1)
    BY <1>4, <2>1, <2>3 DEF AllSeqs
  <2>5. RecordedBy(F, n + 1) = Replay(RecordedBy(F, n), F[n + 1].up)
    BY <2>1, <2>4, OneMoreRecorded
  <2> QED BY <2>1, <2>3, <2>4, <2>5
<1>5. \A n \in 0..N : AllSeqs(F, n) /\ IsSnapshot(RecordedBy(F, n))
  <2> HIDE DEF T
  <2>1. \A n \in 0..N : n \in T
    BY <1>1, <1>3, <1>4, Upwards
  <2> QED BY <2>1 DEF T
<1>6. ASSUME NEW n \in 1..N
      PROVE  \/ Misrecorded(F[n].prev, F[n].curr, F[n].renames, F[n].columnRenames)
             \/ RecordedBy(F, n) = F[n].curr
  <2>1. n - 1 \in Nat /\ n - 1 \in 0..N /\ n - 1 + 1 = n /\ n \in 0..N
    BY <1>1
  <2>2. RecordedBy(F, n) = Replay(RecordedBy(F, n - 1), F[n].up)
    BY <1>5, <2>1, OneMoreRecorded
  <2>3. IsSnapshot(RecordedBy(F, n - 1)) /\ IsStep(F[n], RecordedBy(F, n - 1))
    BY <1>2, <1>5, <2>1
  <2> QED BY <2>2, <2>3, StepLeads
<1> QED BY <1>1, <1>5, <1>6 DEF N

LEMMA AppendKeepsRecorded ==
  ASSUME NEW F, IsSeq(F), NEW m
  PROVE  /\ IsSeq(Append(F, m)) /\ Len(Append(F, m)) = Len(F) + 1
         /\ Append(F, m)[Len(F) + 1] = m
         /\ \A i \in 1..Len(F) : Append(F, m)[i] = F[i]
         /\ \A n \in 0..Len(F) : RecordedBy(Append(F, m), n) = RecordedBy(F, n)
<1>1. F \in Seq(ToSet(F)) /\ Len(F) \in Nat
  BY SeqIsFunction DEF IsSeq
<1>2. F \in Seq(ToSet(F) \cup {m}) /\ m \in ToSet(F) \cup {m}
  BY <1>1
<1>3. /\ Append(F, m) \in Seq(ToSet(F) \cup {m})
      /\ Len(Append(F, m)) = Len(F) + 1
      /\ \A i \in 1..Len(F) : Append(F, m)[i] = F[i]
      /\ Append(F, m)[Len(F) + 1] = m
  BY <1>2, AppendProperties
<1>4. IsSeq(Append(F, m))
  BY <1>3, SeqOfIsSeq
<1> DEFINE G == Append(F, m)
<1> HIDE DEF G
<1>5. ASSUME NEW n \in 0..Len(F)
      PROVE  RecordedBy(G, n) = RecordedBy(F, n)
  <2>1. \A i \in 1..n : G[i] = F[i]
    BY <1>1, <1>3 DEF G
  <2>2. Ups(G, n) = Ups(F, n)
    BY <2>1 DEF Ups
  <2> QED BY <2>2 DEF RecordedBy
<1> QED BY <1>3, <1>4, <1>5 DEF G

-----------------------------------------------------------------------------
(* Without renames.                                                         *)
LEMMA NoRenames ==
  ASSUME NEW prev, NEW curr
  PROVE  /\ Nothing \in TableRenames(prev, curr)
         /\ Unrenamed(prev, curr) \in ColumnRenames(prev, curr, Nothing)
<1>1. \A S, R : Nothing \in PartialInjections(S, R)
  <2>1. ASSUME NEW S, NEW R
        PROVE  Nothing \in PartialInjections(S, R)
    <3>1. {} \in SUBSET S /\ Nothing \in [{} -> R]
      BY DEF Nothing
    <3>2. IsInjective(Nothing)
      BY DEF IsInjective, Nothing
    <3> QED BY <3>1, <3>2 DEF PartialInjections
  <2> QED BY <2>1
<1>2. DOMAIN Nothing = {}
  BY DEF Nothing
<1>3. Nothing \in TableRenames(prev, curr)
  BY <1>1, <1>2 DEF TableRenames
<1> DEFINE stay == Staying(prev, curr, Nothing)
           Of(k) == LET p == DOMAIN prev.tables[OldKey(Nothing, k)].columns
                        q == DOMAIN curr.tables[k].columns
                    IN PartialInjections(p \ q, q \ p)
           none == Unrenamed(prev, curr)
<1>4. \A k \in stay : Nothing \in Of(k)
  BY <1>1
<1>5. none = [k \in stay |-> Nothing]
  BY DEF Unrenamed
<1>6. ColumnRenames(prev, curr, Nothing)
        = {r \in [stay -> UNION {Of(k) : k \in stay}] : \A k \in stay : r[k] \in Of(k)}
  BY DEF ColumnRenames
<1> HIDE DEF stay, Of, none
<1>7. \A k \in stay : Nothing \in UNION {Of(j) : j \in stay}
  BY <1>4
<1>8. none \in [stay -> UNION {Of(k) : k \in stay}] /\ \A k \in stay : none[k] \in Of(k)
  BY <1>4, <1>5, <1>7
<1>9. none \in ColumnRenames(prev, curr, Nothing)
  BY <1>6, <1>8
<1> QED BY <1>3, <1>9 DEF none

LEMMA RecordedIs == \A n : Recorded(n) = RecordedBy(folders, n)
BY DEF Recorded, RecordedBy, Ups

(* The inductive invariant: each migration was made for what the ones       *)
(* before it record.                                                        *)
History == project \in Projects /\ IsHistory(folders)

LEMMA HistoryInit == Init => History
<1> SUFFICES ASSUME Init PROVE History
  OBVIOUS
<1>1. folders = <<>> /\ project \in Projects
  BY DEF Init
<1>2. IsSeq(folders) /\ Len(folders) = 0
  BY <1>1, NoItems
<1> QED BY <1>1, <1>2 DEF History, IsHistory

(* One more migration that was made for what the others record.             *)
LEMMA HistoryGrows ==
  ASSUME NEW F, IsHistory(F), NEW m, IsStep(m, RecordedBy(F, Len(F)))
  PROVE  IsHistory(Append(F, m))
<1> DEFINE G == Append(F, m)
<1>1. IsSeq(F) /\ Len(F) \in Nat /\ \A i \in 1..Len(F) : IsStep(F[i], RecordedBy(F, i - 1))
  BY SeqIsFunction DEF IsHistory
<1>2. /\ IsSeq(G) /\ Len(G) = Len(F) + 1 /\ G[Len(F) + 1] = m
      /\ \A i \in 1..Len(F) : G[i] = F[i]
      /\ \A n \in 0..Len(F) : RecordedBy(G, n) = RecordedBy(F, n)
  BY <1>1, AppendKeepsRecorded
<1> HIDE DEF G
<1>3. ASSUME NEW i \in 1..Len(G)
      PROVE  IsStep(G[i], RecordedBy(G, i - 1))
  <2>1. i - 1 \in 0..Len(F) /\ RecordedBy(G, i - 1) = RecordedBy(F, i - 1)
    BY <1>1, <1>2
  <2>2. CASE i \in 1..Len(F)
    BY <1>1, <1>2, <2>1, <2>2
  <2>3. CASE i = Len(F) + 1
    <3>1. i - 1 = Len(F)
      BY <1>1, <2>3
    <3> QED BY <1>2, <2>1, <2>3, <3>1
  <2> QED BY <1>1, <1>2, <2>2, <2>3
<1> QED BY <1>2, <1>3 DEF IsHistory, G

LEMMA HistoryNext == History /\ [Next]_vars => History'
<1> SUFFICES ASSUME History, [Next]_vars PROVE History'
  OBVIOUS
<1>1. ASSUME UNCHANGED <<project, folders>>
      PROVE  History'
  BY <1>1 DEF History
<1>2. ASSUME NEW design \in project.designs, Generate(design)
      PROVE  History'
  <2> DEFINE prev == Recorded(Len(folders))
  <2>1. CASE ~UNCHANGED folders
    <3>1. PICK renames \in TableRenames(prev, design) :
            \E columnRenames \in ColumnRenames(prev, design, renames) :
              LET m == Migration(prev, design, renames, columnRenames) IN
              /\ ~Refused(prev, design)
              /\ project' = project
              /\ folders' = IF m.up = <<>> THEN folders ELSE Append(folders, m)
      BY <1>2, <2>1 DEF Generate, vars
    <3>2. PICK columnRenames \in ColumnRenames(prev, design, renames) :
              LET m == Migration(prev, design, renames, columnRenames) IN
              /\ ~Refused(prev, design)
              /\ project' = project
              /\ folders' = IF m.up = <<>> THEN folders ELSE Append(folders, m)
      BY <3>1
    <3> DEFINE m == Migration(prev, design, renames, columnRenames)
    <3>3. folders' = Append(folders, m) /\ project' = project
      BY <2>1, <3>2
    <3>4. IsStep(m, prev)
      <4>1. design \in Designs
        BY DEF History, Designs
      <4> QED BY <3>2, <4>1 DEF IsStep
    <3>5. prev = RecordedBy(folders, Len(folders))
      BY RecordedIs
    <3> HIDE DEF m, prev
    <3>6. IsHistory(Append(folders, m))
      BY <3>4, <3>5, HistoryGrows DEF History
    <3> QED BY <3>3, <3>6 DEF History
  <2>2. project' = project
    BY <1>2 DEF Generate, vars
  <2> QED BY <1>1, <2>1, <2>2
<1>3. CASE MigrateNext
  BY <1>1, <1>3 DEF MigrateNext, RunScript
<1>4. CASE DownLatest
  BY <1>1, <1>4 DEF DownLatest, RunScript
<1>5. CASE UNCHANGED vars
  BY <1>1, <1>5 DEF vars
<1> QED BY <1>2, <1>3, <1>4, <1>5 DEF Next

(* Each migration was made for what the ones before it record.              *)
THEOREM HistoryInvariant == Spec => []History
<1>1. Init => History
  BY HistoryInit
<1>2. History /\ [Next]_vars => History'
  BY HistoryNext
<1> QED BY <1>1, <1>2, PTL DEF Spec

(* Whatever is generated: the replay is a schema that can be written down.  *)
AllWellFormed == \A n \in 0..Len(folders) : WellFormed(Recorded(n))

LEMMA HistoryWellFormed == History => AllWellFormed
<1> SUFFICES ASSUME History PROVE AllWellFormed
  OBVIOUS
<1>1. \A n \in 0..Len(folders) : IsSnapshot(RecordedBy(folders, n))
  BY HistoryLeads DEF History
<1> QED BY <1>1, RecordedIs, WellFormedSnapshots DEF AllWellFormed

THEOREM RecordedWellFormed == Spec => []AllWellFormed
BY HistoryInvariant, HistoryWellFormed, PTL

LEMMA HistoryRepresented == History => Represented
<1> SUFFICES ASSUME History PROVE Represented
  OBVIOUS
<1> DEFINE last == Recorded(Len(folders))
<1>1. Len(folders) \in Nat /\ DOMAIN folders = 1..Len(folders)
  BY SeqIsFunction DEF History, IsHistory
<1>2. ASSUME NEW i \in DOMAIN folders
      PROVE  LET f == folders[i] IN
             \/ Misrecorded(f.prev, f.curr, f.renames, f.columnRenames)
             \/ Recorded(i) = f.curr
  BY <1>1, HistoryLeads, RecordedIs DEF History
<1>3. IsSnapshot(last)
  <2>1. IsSnapshot(RecordedBy(folders, Len(folders)))
    BY <1>1, HistoryLeads DEF History
  <2> QED BY <2>1, RecordedIs
<1> HIDE DEF last
<1>4. ASSUME NEW d \in project.designs, ~Refused(last, d),
             GenerateMigration(last, d, "up", Nothing, Unrenamed(last, d)) = <<>>
      PROVE  last = d
  <2>1. IsSnapshot(d) /\ IsSeq(TableOrder)
    <3>1. d \in Designs
      BY DEF History, Designs
    <3> QED BY <3>1, Assumed
  <2>2. Nothing \in TableRenames(last, d) /\ Unrenamed(last, d) \in ColumnRenames(last, d, Nothing)
    BY NoRenames
  <2> QED BY <1>3, <1>4, <2>1, <2>2, NothingWritten
<1> QED BY <1>2, <1>4 DEF Represented, last

(* After generate, the migrations, replayed, say what the schema says.      *)
THEOREM GeneratedIsRecorded == Spec => []Represented
BY HistoryInvariant, HistoryRepresented, PTL

LEMMA HistoryRanges == History => RangesReplay
<1> SUFFICES ASSUME History, NEW i \in 0..Len(folders), NEW j \in 0..Len(folders)
             PROVE  LET prev == Recorded(i)
                        curr == Recorded(j)
                        none == Unrenamed(prev, curr)
                    IN \/ Refused(prev, curr) \/ Misrecorded(prev, curr, Nothing, none)
                       \/ Replay(prev, GenerateMigration(prev, curr, "up", Nothing, none))
                            = curr
  BY DEF RangesReplay
<1> DEFINE prev == Recorded(i)
           curr == Recorded(j)
<1>1. IsSnapshot(prev) /\ IsSnapshot(curr)
  <2>1. IsSnapshot(RecordedBy(folders, i)) /\ IsSnapshot(RecordedBy(folders, j))
    BY HistoryLeads DEF History
  <2> QED BY <2>1, RecordedIs
<1> HIDE DEF prev, curr
<1>2. Nothing \in TableRenames(prev, curr) /\ Unrenamed(prev, curr) \in ColumnRenames(prev, curr, Nothing)
  BY NoRenames
<1>3. IsSeq(TableOrder)
  BY Assumed
<1>4. \/ Refused(prev, curr) \/ Misrecorded(prev, curr, Nothing, Unrenamed(prev, curr))
      \/ Replay(prev, GenerateMigration(prev, curr, "up", Nothing, Unrenamed(prev, curr))) = curr
  BY <1>1, <1>2, <1>3, MigrationLeads
<1> QED BY <1>4 DEF prev, curr

(* What squash takes for granted.                                           *)
THEOREM RangesLead == Spec => []RangesReplay
BY HistoryInvariant, HistoryRanges, PTL
=============================================================================
