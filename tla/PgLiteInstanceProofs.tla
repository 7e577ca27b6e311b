------------------------ MODULE PgLiteInstanceProofs ------------------------
(***************************************************************************)
(* Proofs about PgLiteInstance for any number of handles and instances: the *)
(* reference count is right, everybody shares one open instance, and what   *)
(* was written survives as long as no instance is made next to a live one.  *)
(***************************************************************************)
EXTENDS PgLiteInstance, FiniteSetTheorems, TLAPS

(* Unless one was made next to another, a single instance is alive. *)
OneAlive ==
  ~overlapped => \A i, j \in Instance : Live(i) /\ Live(j) => i = j

InstanceInv == TypeOK /\ HeldIsOpen /\ OneAlive /\ WritesSurvive

LEMMA OpenIsFinite == IsFiniteSet(Open) /\ Cardinality(Open) \in Nat
<1>1. Open \subseteq Handle
  BY DEF Open
<1> QED BY <1>1, PgLiteAssumption, FS_Subset, FS_CardinalityType

(* Opening a handle adds one to the number of open ones. *)
LEMMA OpenGrows ==
  ASSUME TypeOK, NEW h \in Handle, state[h] = "unused",
         state' = [state EXCEPT ![h] = "open"]
  PROVE  /\ Open' = Open \cup {h}
         /\ Cardinality(Open') = Cardinality(Open) + 1
<1>1. Open' = Open \cup {h} /\ h \notin Open
  BY DEF Open, TypeOK, HandleState
<1> QED BY <1>1, OpenIsFinite, FS_AddElement

(* Closing one takes one away; only the last one leaves none. *)
LEMMA OpenShrinks ==
  ASSUME TypeOK, NEW h \in Handle, state[h] = "open",
         NEW s \in {"closing", "closed"}, state' = [state EXCEPT ![h] = s]
  PROVE  /\ Open' = Open \ {h}
         /\ h \in Open
         /\ Cardinality(Open) \in Nat /\ Cardinality(Open) > 0
         /\ Cardinality(Open') = Cardinality(Open) - 1
         /\ (Open' = {}) <=> (Cardinality(Open) = 1)
<1>1. Open' = Open \ {h} /\ h \in Open
  BY DEF Open, TypeOK, HandleState
<1>2. Cardinality(Open') = Cardinality(Open) - 1 /\ IsFiniteSet(Open')
  BY <1>1, OpenIsFinite, FS_RemoveElement
<1>3. Cardinality(Open) # 0
  BY <1>1, OpenIsFinite, FS_EmptySet
<1>4. (Open' = {}) <=> (Cardinality(Open') = 0)
  BY <1>2, FS_EmptySet
<1> QED BY <1>1, <1>2, <1>3, <1>4, OpenIsFinite

LEMMA InitInv == Init => InstanceInv
<1> SUFFICES ASSUME Init
             PROVE  InstanceInv
  OBVIOUS
<1>1. TypeOK
  BY DEF Init, TypeOK, HandleState, Life
<1>2. Open = {}
  BY DEF Init, Open
<1>3. HeldIsOpen
  BY <1>2, FS_EmptySet DEF Init, HeldIsOpen
<1>4. OneAlive /\ WritesSurvive
  BY DEF Init, OneAlive, WritesSurvive, Live
<1> QED BY <1>1, <1>3, <1>4 DEF InstanceInv

-----------------------------------------------------------------------------
(* One lemma per conjunct. *)
LEMMA TypeStep ==
  ASSUME TypeOK, HeldIsOpen, [Next]_vars
  PROVE  TypeOK'
<1> USE DEF TypeOK, HandleState, Life
<1>1. ASSUME NEW h \in Handle, Acquire(h) PROVE TypeOK'
  <2>1. overlapped' \in BOOLEAN
    BY <1>1, Zenon DEF Acquire
  <2>2. /\ instance' \in Instance
        /\ held' \in [Handle -> Instance \cup {None}]
        /\ life' \in [Instance -> Life]
    BY <1>1 DEF Acquire
  <2>3. ASSUME NEW g \in Handle
        PROVE  /\ (held'[g] = None) <=> (state'[g] = "unused")
               /\ held'[g] # None => life'[held'[g]] # "unborn"
    <3>1. CASE g = h
      <4>1. /\ held'[h] = instance' /\ state'[h] = "open"
            /\ life'[instance'] # "unborn"
        BY <1>1, PgLiteAssumption DEF Acquire, HeldIsOpen
      <4> QED BY <2>2, <3>1, <4>1, PgLiteAssumption
    <3>2. CASE g # h
      <4>1. held'[g] = held[g] /\ state'[g] = state[g]
        BY <1>1, <3>2 DEF Acquire
      <4>2. \A i \in Instance : life[i] # "unborn" => life'[i] # "unborn"
        BY <1>1 DEF Acquire
      <4>3. /\ held[g] \in Instance \cup {None}
            /\ (held[g] = None) <=> (state[g] = "unused")
            /\ held[g] # None => life[held[g]] # "unborn"
        OBVIOUS
      <4> QED BY <4>1, <4>2, <4>3
    <3> QED BY <3>1, <3>2
  <2>4. ASSUME NEW i \in Instance, life'[i] \in {"unborn", "starting"}
        PROVE  memory'[i] = {}
    BY <1>1, <2>4 DEF Acquire
  <2> QED BY <1>1, <2>1, <2>2, <2>3, <2>4 DEF Acquire
<1>2. ASSUME NEW h \in Handle, Release(h) PROVE TypeOK'
  BY <1>2 DEF Release
<1>3. ASSUME NEW h \in Handle, ReleaseLast(h) PROVE TypeOK'
  <2>1. h \in Open
    BY <1>3 DEF ReleaseLast, Open
  <2>2. refs # 0
    BY <2>1, OpenIsFinite, FS_EmptySet DEF HeldIsOpen
  <2> QED BY <1>3, <2>2 DEF ReleaseLast
<1>4. ASSUME NEW h \in Handle, NEW v \in Value, Query(h, v) PROVE TypeOK'
  BY <1>4 DEF Query
<1>5. ASSUME NEW i \in Instance, Started(i) \/ StartFails(i) PROVE TypeOK'
  BY <1>5 DEF Started, StartFails
<1>6. ASSUME NEW i \in Instance, Closed(i) PROVE TypeOK'
  BY <1>6 DEF Closed
<1>7. CASE UNCHANGED vars
  BY <1>7 DEF vars
<1> QED BY <1>1, <1>2, <1>3, <1>4, <1>5, <1>6, <1>7 DEF Next

LEMMA HeldStep ==
  ASSUME TypeOK, HeldIsOpen, [Next]_vars
  PROVE  HeldIsOpen'
<1>1. ASSUME NEW h \in Handle, Acquire(h) PROVE HeldIsOpen'
  <2>1. Open' = Open \cup {h} /\ Cardinality(Open') = Cardinality(Open) + 1
    BY <1>1, OpenGrows DEF Acquire
  <2>2. instance' # None /\ held'[h] = instance'
    BY <1>1, PgLiteAssumption DEF Acquire, TypeOK
  <2>3. life'[instance'] \notin {"unborn", "closed"}
    BY <1>1, PgLiteAssumption DEF Acquire, TypeOK, HeldIsOpen
  <2>4. \A g \in Open : held'[g] = instance'
    BY <1>1 DEF Acquire, TypeOK, HeldIsOpen, Open
  <2> QED BY <1>1, <2>1, <2>2, <2>3, <2>4 DEF Acquire, HeldIsOpen
<1>2. ASSUME NEW h \in Handle, Release(h) PROVE HeldIsOpen'
  <2>1. /\ Open' = Open \ {h} /\ h \in Open
        /\ Cardinality(Open') = Cardinality(Open) - 1
        /\ (Open' = {}) <=> (Cardinality(Open) = 1)
    BY <1>2, OpenShrinks DEF Release
  <2>2. Open' # {}
    BY <1>2, <2>1 DEF Release, HeldIsOpen
  <2> QED BY <1>2, <2>1, <2>2 DEF Release, HeldIsOpen
<1>3. ASSUME NEW h \in Handle, ReleaseLast(h) PROVE HeldIsOpen'
  <2>1. /\ Open' = Open \ {h} /\ h \in Open
        /\ Cardinality(Open) \in Nat /\ Cardinality(Open) > 0
        /\ Cardinality(Open') = Cardinality(Open) - 1
        /\ (Open' = {}) <=> (Cardinality(Open) = 1)
    BY <1>3, OpenShrinks DEF ReleaseLast
  <2>2. Open' = {}
    BY <1>3, <2>1 DEF ReleaseLast, HeldIsOpen
  <2> QED BY <1>3, <2>1, <2>2 DEF ReleaseLast, HeldIsOpen
<1>4. ASSUME NEW h \in Handle, NEW v \in Value, Query(h, v) PROVE HeldIsOpen'
  BY <1>4 DEF Query, HeldIsOpen, Open
<1>5. ASSUME NEW i \in Instance, Started(i) \/ StartFails(i) PROVE HeldIsOpen'
  <2>1. /\ Open' = Open
        /\ UNCHANGED <<instance, refs, state, held>>
    BY <1>5 DEF Started, StartFails, Open
  <2>2. life' \in {[life EXCEPT ![i] = "running"], [life EXCEPT ![i] = "broken"]}
    BY <1>5 DEF Started, StartFails
  <2>3. ASSUME instance # None
        PROVE  life'[instance] \notin {"unborn", "closed"}
    <3>1. instance \in Instance /\ life[instance] \notin {"unborn", "closed"}
      BY <2>3 DEF HeldIsOpen, TypeOK
    <3>2. life \in [Instance -> Life]
      BY DEF TypeOK
    <3> QED BY <2>2, <3>1, <3>2
  <2> QED BY <2>1, <2>3 DEF HeldIsOpen
<1>6. ASSUME NEW i \in Instance, Closed(i) PROVE HeldIsOpen'
  <2>1. Open' = Open
    BY <1>6 DEF Closed, Open, TypeOK
  <2> QED BY <1>6, <2>1 DEF Closed, HeldIsOpen, TypeOK
<1>7. CASE UNCHANGED vars
  BY <1>7 DEF vars, HeldIsOpen, Open
<1> QED BY <1>1, <1>2, <1>3, <1>4, <1>5, <1>6, <1>7 DEF Next

LEMMA AliveStep ==
  ASSUME InstanceInv, [Next]_vars
  PROVE  OneAlive'
<1> USE DEF InstanceInv, OneAlive, Live, TypeOK
<1>1. ASSUME NEW h \in Handle, Acquire(h) PROVE OneAlive'
  BY <1>1 DEF Acquire
<1>2. ASSUME NEW h \in Handle, Release(h) \/ ReleaseLast(h) PROVE OneAlive'
  BY <1>2 DEF Release, ReleaseLast
<1>3. ASSUME NEW h \in Handle, NEW v \in Value, Query(h, v) PROVE OneAlive'
  BY <1>3 DEF Query
<1>4. ASSUME NEW i \in Instance, Started(i) \/ StartFails(i) \/ Closed(i)
      PROVE  OneAlive'
  BY <1>4 DEF Started, StartFails, Closed
<1>5. CASE UNCHANGED vars
  BY <1>5 DEF vars
<1> QED BY <1>1, <1>2, <1>3, <1>4, <1>5 DEF Next

LEMMA WritesStep ==
  ASSUME InstanceInv, [Next]_vars
  PROVE  WritesSurvive'
<1> USE DEF InstanceInv, WritesSurvive, OneAlive, Live, TypeOK
<1>1. ASSUME NEW h \in Handle, Acquire(h) PROVE WritesSurvive'
  BY <1>1 DEF Acquire
<1>2. ASSUME NEW h \in Handle, Release(h) \/ ReleaseLast(h)
      PROVE  WritesSurvive'
  BY <1>2 DEF Release, ReleaseLast
<1>3. ASSUME NEW h \in Handle, NEW v \in Value, Query(h, v)
      PROVE  WritesSurvive'
  BY <1>3 DEF Query
<1>4. ASSUME NEW i \in Instance, Started(i) PROVE WritesSurvive'
  BY <1>4 DEF Started
<1>5. ASSUME NEW i \in Instance, StartFails(i) PROVE WritesSurvive'
  BY <1>5 DEF StartFails
<1>6. ASSUME NEW i \in Instance, Closed(i) PROVE WritesSurvive'
  BY <1>6 DEF Closed
<1>7. CASE UNCHANGED vars
  BY <1>7 DEF vars
<1> QED BY <1>1, <1>2, <1>3, <1>4, <1>5, <1>6, <1>7 DEF Next

LEMMA InstanceInvariant == Spec => []InstanceInv
<1>1. ASSUME InstanceInv, [Next]_vars
      PROVE  InstanceInv'
  BY <1>1, TypeStep, HeldStep, AliveStep, WritesStep DEF InstanceInv
<1> QED BY InitInv, <1>1, PTL DEF Spec

-----------------------------------------------------------------------------
(* getClient, getPool, release and PGlite: the reference count never goes   *)
(* below zero, whoever was handed out has an instance the connector has     *)
(* made, and neither an instance nor the directory has a row whose query    *)
(* was not answered.                                                        *)
THEOREM TypeCorrect == Spec => []TypeOK
<1>1. InstanceInv => TypeOK
  BY DEF InstanceInv
<1> QED BY InstanceInvariant, <1>1, PTL

(* getClient, getPool and release: the count is the number of open handles, *)
(* and all of them have the connector's open instance.                      *)
THEOREM HandlesShareInstance == Spec => []HeldIsOpen
<1>1. InstanceInv => HeldIsOpen
  BY DEF InstanceInv
<1> QED BY InstanceInvariant, <1>1, PTL

(* Rows whose queries were answered survive every order of clients and      *)
(* pools that come and go, if none comes while the last close() is awaited. *)
THEOREM AnsweredWritesSurvive == Spec => []WritesSurvive
<1>1. InstanceInv => WritesSurvive
  BY DEF InstanceInv
<1> QED BY InstanceInvariant, <1>1, PTL
=============================================================================
