-------------------------- MODULE TransactionsProofs --------------------------
(***************************************************************************)
(* Proofs about Transactions for a pool of exclusive connections (not       *)
(* pglite's shared one) and callbacks that await each query before the      *)
(* next: the connections are isolated and come back clean.                  *)
(*                                                                          *)
(* The inductive invariant says, for each state of a task, what is on its   *)
(* connection.  As a task that holds a connection holds it alone, a step of *)
(* a task or of a connection touches nobody else's.                         *)
(***************************************************************************)
EXTENDS Transactions, SequenceTheorems, TLAPS

InTransaction == {"begin", "body", "commit", "rollback"}

(* r is the request whose answer t awaits. *)
Awaited(t, r) ==
  /\ pc[t] \in Holding \ {"release"}
  /\ answer[t] = "none"
  /\ r.task = t
  /\ pc[t] = "begin" => r.kind = "BEGIN"
  /\ pc[t] = "commit" => r.kind = "COMMIT"
  /\ pc[t] = "rollback" => r.kind = "ROLLBACK"
  /\ pc[t] \in {"body", "query"} => r.kind = "write" /\ r.k = sent[t]
  /\ pc[t] = "body" => ~threw[t]

Exclusive ==
  \A t \in Task : pc[t] \in Holding =>
    /\ client[t] \in Connection
    /\ pc[t] \in InTransaction => t \in Transaction
    /\ pc[t] = "query" => t \in Query
    /\ \A u \in Task : pc[u] \in Holding /\ client[u] = client[t] => u = t

(* A connection carries at most the request its holder awaits. *)
OneInFlight ==
  \A c \in Connection : inbox[c] # <<>> =>
    /\ Tail(inbox[c]) = <<>>
    /\ client[Head(inbox[c]).task] = c
    /\ Awaited(Head(inbox[c]).task, Head(inbox[c]))

(* A callback is suspended while a call it made is under way, and makes one *)
(* call at a time.                                                          *)
UnderWay(u) == pc[u] \notin {"idle", "done"}

Suspended ==
  \A u \in Task : UnderWay(u) /\ Caller[u] # None =>
    /\ pc[Caller[u]] = "body" /\ ~threw[Caller[u]]
    /\ inbox[client[Caller[u]]] = <<>>
    /\ \A v \in Task : UnderWay(v) /\ Caller[v] = Caller[u] => v = u

(* What the callback of t has written so far. *)
Written(t) ==
  {t} \X (1..(IF inbox[client[t]] = <<>> THEN sent[t] ELSE sent[t] - 1))

(* What the server knows of the connection a task holds. *)
Phase(t) ==
  LET c == client[t] IN
  /\ pc[t] = "begin" =>
       /\ sent[t] = 0 /\ work[c] = {}
       /\ answer[t] = "none" => tx[c] = "none"
       /\ answer[t] = "ok" /\ alive[c] => tx[c] = "open"
  /\ pc[t] = "body" =>
       /\ answer[t] = "none"
       /\ inbox[c] # <<>> => sent[t] > 0
       /\ tx[c] = "open" => work[c] = Written(t)
       /\ alive[c] => tx[c] # "none"
       /\ alive[c] /\ ~swallowed[t] /\ ~threw[t] => tx[c] = "open"
  /\ pc[t] = "commit" =>
       /\ sent[t] = Length
       /\ tx[c] = "open" => work[c] = Writes(t)
       /\ answer[t] # "none" => tx[c] = "none"
       /\ answer[t] = "none" /\ alive[c] /\ ~swallowed[t] => tx[c] = "open"
  /\ pc[t] = "rollback" =>
       /\ work[c] \subseteq Writes(t)
       /\ answer[t] # "none" => tx[c] = "none"
  /\ pc[t] \in {"query", "release"} => tx[c] = "none"
  /\ pc[t] = "release" => inbox[c] = <<>>

Phases == \A t \in Task : pc[t] \in Holding => Phase(t)

Fresh == \A t \in Task : pc[t] \in {"idle", "waiting"} =>
  sent[t] = 0 /\ answer[t] = "none" /\ outcome[t] = "pending"

Server ==
  \A c \in Connection :
    /\ tx[c] # "open" => work[c] = {}
    /\ ~alive[c] => tx[c] = "none"
    /\ Free(c) => tx[c] = "none" /\ alive[c]

PoolInv ==
  /\ TypeOK
  /\ Exclusive /\ OneInFlight /\ Suspended /\ Fresh
  /\ Phases /\ Server

-----------------------------------------------------------------------------
(* Types.                                                                   *)

LEMMA PushType ==
  ASSUME NEW c \in Connection, NEW t, NEW kind, NEW k,
         [task |-> t, kind |-> kind, k |-> k] \in Request,
         inbox \in [Connection -> Seq(Request)], Push(c, t, kind, k)
  PROVE  /\ inbox' \in [Connection -> Seq(Request)]
         /\ inbox'[c] = Append(inbox[c], [task |-> t, kind |-> kind, k |-> k])
         /\ \A d \in Connection \ {c} : inbox'[d] = inbox[d]
BY DEF Push

LEMMA HeadType ==
  ASSUME NEW c \in Connection, TypeOK, inbox[c] # <<>>
  PROVE  /\ Head(inbox[c]) \in Request
         /\ Head(inbox[c]).task \in Task
         /\ Head(inbox[c]).kind = "write" => Head(inbox[c]).k \in 1..Length
         /\ Tail(inbox[c]) \in Seq(Request)
<1>1. inbox[c] \in Seq(Request)
  BY DEF TypeOK
<1>2. Head(inbox[c]) \in Request /\ Tail(inbox[c]) \in Seq(Request)
  BY <1>1
<1> QED BY <1>2 DEF Request, Control

LEMMA TypeInit == Init => TypeOK
BY TransactionsAssumption DEF Init, TypeOK, Task, Holding

LEMMA TypeTask ==
  ASSUME TypeOK, Exclusive, NEW t \in Task,
         TaskStep(t) \/ Raise(t) \/ Swallow(t)
  PROVE  TypeOK'
<1> USE TransactionsAssumption DEF taskVars, serverVars
<1>1. CASE Call(t)
  <2>1. queue' \in Seq(Task)
    BY <1>1 DEF Call, TypeOK
  <2> QED BY <1>1, <2>1 DEF Call, TypeOK, Goto
<1>2. CASE EnterCallback(t)
  BY <1>2 DEF EnterCallback, TypeOK, Goto, Holding
<1>3. CASE Send(t)
  <2>1. sent[t] + 1 \in 0..Length
    BY <1>3 DEF Send, TypeOK
  <2>2. client[t] \in Connection
    BY <1>3 DEF Send, TypeOK, Exclusive, Holding
  <2>3. inbox' \in [Connection -> Seq(Request)]
    <3>1. [task |-> t, kind |-> "write", k |-> sent[t] + 1] \in Request
      BY <1>3 DEF Send, TypeOK, Request
    <3> QED BY <1>3, <2>2, <3>1, PushType DEF Send, TypeOK
  <2> QED BY <1>3, <2>1, <2>3 DEF Send, TypeOK
<1>4. CASE FinishCallback(t)
  <2>1. client[t] \in Connection
    BY <1>4 DEF FinishCallback, Goto, Exclusive, Holding
  <2>2. inbox' \in [Connection -> Seq(Request)]
    <3>1. [task |-> t, kind |-> "COMMIT", k |-> 0] \in Request
      BY DEF Request, Control
    <3> QED BY <1>4, <2>1, <3>1, PushType DEF FinishCallback, TypeOK
  <2> QED BY <1>4, <2>2 DEF FinishCallback, TypeOK, Goto, Holding
<1>5. CASE Catch(t)
  <2>1. client[t] \in Connection
    BY <1>5 DEF Catch, Caught, Exclusive, Holding
  <2>2. inbox' \in [Connection -> Seq(Request)]
    <3>1. [task |-> t, kind |-> "ROLLBACK", k |-> 0] \in Request
      BY DEF Request, Control
    <3> QED BY <1>5, <2>1, <3>1, PushType DEF Catch, TypeOK
  <2> QED BY <1>5, <2>2 DEF Catch, TypeOK, Holding
<1>6. CASE Conclude(t)
  BY <1>6 DEF Conclude, TypeOK, Holding
<1>7. CASE Release(t)
  <2>1. client[t] \in Connection
    BY <1>7 DEF Release, Goto, Exclusive, Holding
  <2>2. outcome' = [outcome EXCEPT ![t] = outcome[t]]
    BY <1>7 DEF Release, Settle
  <2>3. threw' \in [Task -> BOOLEAN]
    BY <1>7 DEF Release, Settle, TypeOK
  <2>4. inbox' \in [Connection -> Seq(Request)]
    <3>1. <<>> \in Seq(Request)
      OBVIOUS
    <3>2. inbox' = inbox \/ inbox' = [inbox EXCEPT ![client[t]] = <<>>]
      BY <1>7 DEF Release
    <3> QED BY <2>1, <3>1, <3>2 DEF TypeOK
  <2>5. client' \in [Task -> Connection \cup {None}]
    BY <1>7 DEF Release, TypeOK
  <2> QED BY <1>7, <2>1, <2>2, <2>3, <2>4, <2>5 DEF Release, TypeOK, Goto
<1>8. CASE Raise(t)
  BY <1>8 DEF Raise, TypeOK
<1>9. CASE Swallow(t)
  BY <1>9 DEF Swallow, TypeOK
<1> QED BY <1>1, <1>2, <1>3, <1>4, <1>5, <1>6, <1>7, <1>8, <1>9 DEF TaskStep

LEMMA TypeGrant ==
  ASSUME TypeOK, NEW c \in Connection, Grant(c)
  PROVE  TypeOK'
<1> USE TransactionsAssumption DEF serverVars
<1>1. Head(queue) \in Task /\ queue' \in Seq(Task)
  BY DEF Grant, TypeOK
<1>2. client' \in [Task -> Connection \cup {None}]
  BY <1>1 DEF Grant, TypeOK
<1>3. pc' \in [Task -> Holding \cup {"idle", "waiting", "done"}]
  <2>1. \E s \in {"begin", "query"} : pc' = [pc EXCEPT ![Head(queue)] = s]
    BY DEF Grant, Goto
  <2> QED BY <1>1, <2>1 DEF TypeOK, Holding
<1>4. sent' \in [Task -> 0..Length]
  <2>1. 1 \in 0..Length
    OBVIOUS
  <2>2. sent' = sent \/ sent' = [sent EXCEPT ![Head(queue)] = 1]
    BY DEF Grant
  <2> QED BY <1>1, <2>1, <2>2 DEF TypeOK
<1>5. inbox' \in [Connection -> Seq(Request)]
  <2>1. /\ [task |-> Head(queue), kind |-> "BEGIN", k |-> 0] \in Request
        /\ [task |-> Head(queue), kind |-> "write", k |-> 1] \in Request
    BY <1>1 DEF Request, Control
  <2> QED BY <1>1, <2>1, PushType DEF Grant, TypeOK
<1> QED BY <1>1, <1>2, <1>3, <1>4, <1>5 DEF Grant, TypeOK

LEMMA TypeAcquireFails ==
  ASSUME TypeOK, AcquireFails
  PROVE  TypeOK'
<1> USE TransactionsAssumption DEF serverVars
<1>1. Head(queue) \in Task /\ queue' \in Seq(Task)
  BY DEF AcquireFails, TypeOK
<1>2. threw' \in [Task -> BOOLEAN]
  BY <1>1 DEF AcquireFails, Settle, TypeOK
<1> QED BY <1>1, <1>2 DEF AcquireFails, Settle, TypeOK, Goto

LEMMA ReplyType ==
  ASSUME TypeOK, NEW r, r.task \in Task, NEW ok \in BOOLEAN, Reply(r, ok)
  PROVE  /\ threw' \in [Task -> BOOLEAN]
         /\ answer' \in [Task -> {"none", "ok", "error"}]
BY DEF Reply, TypeOK

LEMMA TypeServer ==
  ASSUME TypeOK, NEW c \in Connection, Serve(c) \/ Refuse(c) \/ Drop(c)
  PROVE  TypeOK'
<1> USE TransactionsAssumption DEF serverVars, taskVars
<1>1. CASE Serve(c)
  <2> DEFINE r == Head(inbox[c])
  <2>0. r \in Request /\ r.task \in Task /\ (r.kind = "write" => r.k \in 1..Length)
    BY <1>1, HeadType DEF Serve
  <2>1. inbox' \in [Connection -> Seq(Request)]
    BY <1>1, HeadType DEF Serve, Take, TypeOK
  <2>2. /\ threw' \in [Task -> BOOLEAN]
        /\ answer' \in [Task -> {"none", "ok", "error"}]
        /\ tx' \in [Connection -> {"none", "open", "aborted"}]
        /\ work' \in [Connection -> SUBSET Token]
        /\ store' \in SUBSET Token
        /\ faults' \in 0..MaxFaults
    <3>1. CASE ServeBegin(c)
      BY <2>0, <3>1, ReplyType DEF ServeBegin, TypeOK
    <3>2. CASE r.kind = "write" /\ ServeWrite(c)
      <4>1. <<r.task, r.k>> \in Token
        BY <2>0, <3>2 DEF Token
      <4>2. /\ threw' \in [Task -> BOOLEAN]
            /\ answer' \in [Task -> {"none", "ok", "error"}]
        BY <2>0, <3>2, ReplyType DEF ServeWrite
      <4>3. tx' \in [Connection -> {"none", "open", "aborted"}]
        <5>1. \/ tx' = tx
              \/ tx' = [tx EXCEPT ![c] = IF @ = "open" THEN "aborted" ELSE @]
          BY <3>2 DEF ServeWrite
        <5>2. tx[c] \in {"none", "open", "aborted"}
          BY DEF TypeOK
        <5> QED BY <5>1, <5>2 DEF TypeOK
      <4>4. faults' \in 0..MaxFaults
        <5>1. faults' = faults \/ (faults < MaxFaults /\ faults' = faults + 1)
          BY <3>2 DEF ServeWrite
        <5>2. faults \in 0..MaxFaults /\ MaxFaults \in Nat
          BY DEF TypeOK
        <5> QED BY <5>1, <5>2
      <4>5. work' \in [Connection -> SUBSET Token] /\ store' \in SUBSET Token
        <5>1. work[c] \in SUBSET Token /\ {} \in SUBSET Token
          BY DEF TypeOK
        <5>2. \/ work' = work
              \/ work' = [work EXCEPT ![c] = work[c] \cup {<<r.task, r.k>>}]
              \/ work' = [work EXCEPT ![c] = {}]
          BY <3>2 DEF ServeWrite
        <5>3. store' = store \/ store' = store \cup {<<r.task, r.k>>}
          BY <3>2 DEF ServeWrite
        <5>4. work \in [Connection -> SUBSET Token] /\ store \in SUBSET Token
          BY DEF TypeOK
        <5>5. work[c] \cup {<<r.task, r.k>>} \in SUBSET Token
          BY <4>1, <5>1
        <5>6. work' \in [Connection -> SUBSET Token]
          BY <5>1, <5>2, <5>4, <5>5
        <5>7. store' \in SUBSET Token
          BY <4>1, <5>3, <5>4
        <5> QED BY <5>6, <5>7
      <4> QED BY <4>2, <4>3, <4>4, <4>5
    <3>3. CASE ServeCommit(c)
      <4>1. /\ threw' \in [Task -> BOOLEAN]
            /\ answer' \in [Task -> {"none", "ok", "error"}]
        BY <2>0, <3>3, ReplyType DEF ServeCommit
      <4>2. tx' \in [Connection -> {"none", "open", "aborted"}]
        <5>1. tx' = [tx EXCEPT ![c] = "none"]
          BY <3>3 DEF ServeCommit
        <5> QED BY <5>1 DEF TypeOK
      <4>4. faults' \in 0..MaxFaults
        <5>1. faults' = faults \/ (faults < MaxFaults /\ faults' = faults + 1)
          BY <3>3 DEF ServeCommit
        <5>2. faults \in 0..MaxFaults /\ MaxFaults \in Nat
          BY DEF TypeOK
        <5> QED BY <5>1, <5>2
      <4>3. work' \in [Connection -> SUBSET Token] /\ store' \in SUBSET Token
        <5>1. work[c] \in SUBSET Token /\ {} \in SUBSET Token
          BY DEF TypeOK
        <5>2. work' = [work EXCEPT ![c] = {}]
          BY <3>3 DEF ServeCommit
        <5>3. store' = store \/ store' = store \cup work[c]
          BY <3>3 DEF ServeCommit
        <5> QED BY <5>1, <5>2, <5>3 DEF TypeOK
      <4> QED BY <4>1, <4>2, <4>3, <4>4
    <3>4. CASE ServeRollback(c)
      BY <2>0, <3>4, ReplyType DEF ServeRollback, TypeOK
    <3> QED BY <1>1, <3>1, <3>2, <3>3, <3>4 DEF Serve
  <2> QED BY <1>1, <2>1, <2>2 DEF Serve, Take, TypeOK
<1>2. CASE Refuse(c)
  <2>1. inbox' \in [Connection -> Seq(Request)]
    BY <1>2, HeadType DEF Refuse, Take, TypeOK
  <2>2. /\ threw' \in [Task -> BOOLEAN]
        /\ answer' \in [Task -> {"none", "ok", "error"}]
    BY <1>2, HeadType, ReplyType DEF Refuse
  <2> QED BY <1>2, <2>1, <2>2 DEF Refuse, Take, TypeOK
<1>3. CASE Drop(c)
  <2>1. store' \in SUBSET Token /\ lost' \in SUBSET Task
    <3>1. inbox[c] # <<>> => Head(inbox[c]).task \in Task
      BY HeadType
    <3>2. inbox[c] # <<>> /\ Head(inbox[c]).kind = "write" =>
            <<Head(inbox[c]).task, Head(inbox[c]).k>> \in Token
      BY HeadType DEF Token
    <3> QED BY <1>3, <3>1, <3>2 DEF Drop, TypeOK
  <2> QED BY <1>3, <2>1 DEF Drop, TypeOK
<1> QED BY <1>1, <1>2, <1>3
-----------------------------------------------------------------------------
(* A step of task t on connection c leaves everybody else alone.            *)

Elsewhere(t, c) ==
  /\ \A u \in Task \ {t} :
       /\ pc'[u] = pc[u]
       /\ pc[u] \in Holding => client'[u] = client[u]
       /\ sent'[u] = sent[u]
       /\ swallowed'[u] = swallowed[u]
       /\ answer'[u] = answer[u]
       /\ outcome'[u] = outcome[u]
       /\ threw[u] => threw'[u]
       /\ pc[u] = "body" /\ threw'[u] => threw[u] \/ inbox[client[u]] = <<>>
  /\ \A d \in Connection \ {c} :
       /\ inbox'[d] = inbox[d]
       /\ tx'[d] = tx[d]
       /\ work'[d] = work[d]
       /\ alive'[d] = alive[d]

LEMMA Frame ==
  ASSUME PoolInv, TypeOK', NEW t \in Task, NEW c \in Connection,
         Elsewhere(t, c),
         pc[t] \in Holding => client[t] = c,
         \A u \in Task \ {t} : pc[u] \in Holding => client[u] # c,
         pc'[t] \in Holding =>
           /\ client'[t] = c
           /\ pc'[t] \in InTransaction => t \in Transaction
           /\ pc'[t] = "query" => t \in Query
           /\ Phase(t)',
         inbox'[c] # <<>> =>
           /\ Tail(inbox'[c]) = <<>>
           /\ Head(inbox'[c]).task = t
           /\ client'[t] = c
           /\ Awaited(t, Head(inbox[c]))',
         pc'[t] \in {"idle", "waiting"} =>
           sent'[t] = 0 /\ answer'[t] = "none" /\ outcome'[t] = "pending",
         tx'[c] # "open" => work'[c] = {},
         ~alive'[c] => tx'[c] = "none",
         pc'[t] \notin Holding => tx'[c] = "none" /\ alive'[c]
  PROVE  Exclusive' /\ OneInFlight' /\ Phases' /\ Server' /\ Fresh'
<1>1. Exclusive'
  BY DEF PoolInv, Exclusive, Elsewhere
<1>2. ASSUME NEW d \in Connection, inbox'[d] # <<>>
      PROVE  /\ Tail(inbox'[d]) = <<>>
             /\ client'[Head(inbox'[d]).task] = d
             /\ Awaited(Head(inbox[d]).task, Head(inbox[d]))'
  <2>1. CASE d = c
    BY <1>2, <2>1
  <2>2. CASE d # c
    <3> DEFINE u == Head(inbox[d]).task
    <3>1. inbox'[d] = inbox[d]
      BY <2>2 DEF Elsewhere
    <3>2. /\ Tail(inbox[d]) = <<>> /\ client[u] = d /\ Awaited(u, Head(inbox[d]))
      BY <1>2, <3>1 DEF PoolInv, OneInFlight
    <3>3. u \in Task /\ pc[u] \in Holding
      BY <1>2, <3>1, <3>2, HeadType DEF PoolInv, Awaited
    <3>4. u # t
      BY <2>2, <3>2, <3>3
    <3>5. client'[u] = d /\ pc'[u] = pc[u] /\ sent'[u] = sent[u]
          /\ answer'[u] = answer[u]
      BY <3>2, <3>3, <3>4 DEF Elsewhere
    <3>6. pc[u] = "body" => ~threw'[u]
      BY <1>2, <3>1, <3>2, <3>3, <3>4 DEF Elsewhere, Awaited
    <3>7. Awaited(u, Head(inbox[d]))'
      BY <3>1, <3>2, <3>5, <3>6 DEF Awaited
    <3> QED BY <3>1, <3>2, <3>5, <3>7
  <2> QED BY <2>1, <2>2
<1>3. ASSUME NEW u \in Task, pc'[u] \in Holding
      PROVE  Phase(u)'
  <2>1. CASE u = t
    BY <1>3, <2>1
  <2>2. CASE u # t
    <3>1. pc[u] \in Holding /\ pc'[u] = pc[u] /\ client'[u] = client[u]
      BY <1>3, <2>2 DEF Elsewhere
    <3>2. client[u] \in Connection /\ client[u] # c
      BY <2>2, <3>1 DEF PoolInv, Exclusive
    <3>3. /\ sent'[u] = sent[u] /\ swallowed'[u] = swallowed[u]
          /\ answer'[u] = answer[u] /\ (threw[u] => threw'[u])
      BY <2>2 DEF Elsewhere
    <3>4. /\ inbox'[client[u]] = inbox[client[u]]
          /\ tx'[client[u]] = tx[client[u]]
          /\ work'[client[u]] = work[client[u]]
          /\ alive'[client[u]] = alive[client[u]]
      BY <3>2 DEF Elsewhere
    <3>5. Phase(u)
      BY <3>1 DEF PoolInv, Phases
    <3> QED BY <3>1, <3>3, <3>4, <3>5 DEF Phase, Written
  <2> QED BY <2>1, <2>2
<1>4. Server'
  <2> SUFFICES ASSUME NEW d \in Connection
               PROVE  /\ tx'[d] # "open" => work'[d] = {}
                      /\ ~alive'[d] => tx'[d] = "none"
                      /\ Free(d)' => tx'[d] = "none" /\ alive'[d]
    BY DEF Server
  <2>1. CASE d = c
    BY <2>1 DEF Free
  <2>2. CASE d # c
    <3>1. Free(d)' => Free(d)
      BY <2>2 DEF Free, Elsewhere
    <3> QED BY <2>2, <3>1 DEF PoolInv, Server, Elsewhere
  <2> QED BY <2>1, <2>2
<1>5. Fresh'
  BY DEF PoolInv, Fresh, Elsewhere
<1> QED BY <1>1, <1>2, <1>3, <1>4, <1>5 DEF OneInFlight, Phases
LEMMA Holder ==
  ASSUME PoolInv, NEW t \in Task, pc[t] \in Holding
  PROVE  /\ client[t] \in Connection
         /\ \A u \in Task \ {t} : pc[u] \in Holding => client[u] # client[t]
         /\ inbox[client[t]] # <<>> =>
              /\ Tail(inbox[client[t]]) = <<>>
              /\ Head(inbox[client[t]]).task = t
              /\ Awaited(t, Head(inbox[client[t]]))
<1> DEFINE c == client[t]
           u == Head(inbox[c]).task
<1>1. c \in Connection
  BY DEF PoolInv, Exclusive
<1>2. \A v \in Task \ {t} : pc[v] \in Holding => client[v] # c
  BY DEF PoolInv, Exclusive
<1>3. ASSUME inbox[c] # <<>>
      PROVE  /\ Tail(inbox[c]) = <<>> /\ u = t /\ Awaited(u, Head(inbox[c]))
  <2>1. /\ Tail(inbox[c]) = <<>> /\ client[u] = c
        /\ Awaited(u, Head(inbox[c]))
    BY <1>1, <1>3 DEF PoolInv, OneInFlight
  <2>2. u \in Task /\ pc[u] \in Holding
    BY <1>1, <1>3, <2>1, HeadType DEF PoolInv, Awaited
  <2> QED BY <1>2, <2>1, <2>2
<1> QED BY <1>1, <1>2, <1>3

(* A callback that awaits nothing has nothing on its connection. *)
LEMMA AtRest ==
  ASSUME PoolInv, NEW t \in Task, pc[t] \in Holding, ~Awaiting(t)
  PROVE  /\ inbox[client[t]] = <<>>
         /\ \A u \in Task : Caller[u] = t => ~UnderWay(u)
<1>1. client[t] \in Connection
  BY Holder
<1>2. ASSUME inbox[client[t]] # <<>>
      PROVE  FALSE
  <2>1. Head(inbox[client[t]]).task = t
    BY <1>2, Holder
  <2>2. inbox[client[t]] \in Seq(Request)
    BY <1>1 DEF PoolInv, TypeOK
  <2>3. Head(inbox[client[t]]) \in Requests(client[t])
    BY <1>2, <2>2 DEF Requests
  <2> QED BY <1>1, <2>1, <2>3 DEF Awaiting
<1>3. \A u \in Task : Caller[u] = t => ~UnderWay(u)
  BY DEF Awaiting, Callees, UnderWay
<1> QED BY <1>2, <1>3

LEMMA Pushed ==
  ASSUME TypeOK, NEW c \in Connection, NEW t, NEW kind, NEW k,
         inbox[c] = <<>>, Push(c, t, kind, k)
  PROVE  /\ inbox'[c] # <<>>
         /\ Tail(inbox'[c]) = <<>>
         /\ Head(inbox'[c]) = [task |-> t, kind |-> kind, k |-> k]
         /\ \A d \in Connection \ {c} : inbox'[d] = inbox[d]
<1>1. inbox'[c] = Append(<<>>, [task |-> t, kind |-> kind, k |-> k])
  BY DEF Push, TypeOK
<1>2. \A d \in Connection \ {c} : inbox'[d] = inbox[d]
  BY DEF Push, TypeOK
<1>3. inbox'[c] = <<[task |-> t, kind |-> kind, k |-> k]>>
  BY <1>1
<1> QED BY <1>2, <1>3

(* A suspended callback stays as it is, and no new call is under way. *)
LEMMA SuspendedFrame ==
  ASSUME PoolInv,
         \A u \in Task : UnderWay(u)' => UnderWay(u),
         \A p, u \in Task :
           /\ UnderWay(u)' /\ Caller[u] = p
           /\ pc[p] = "body" /\ ~threw[p] /\ inbox[client[p]] = <<>>
           => /\ pc'[p] = "body" /\ ~threw'[p]
              /\ inbox'[client'[p]] = <<>>
  PROVE  Suspended'
<1> SUFFICES ASSUME NEW u \in Task, UnderWay(u)', Caller[u] # None
             PROVE  /\ pc'[Caller[u]] = "body" /\ ~threw'[Caller[u]]
                    /\ inbox'[client'[Caller[u]]] = <<>>
                    /\ \A v \in Task : UnderWay(v)' /\ Caller[v] = Caller[u] => v = u
  BY DEF Suspended
<1>1. Caller[u] \in Task
  BY TransactionsAssumption DEF Task
<1>2. /\ pc[Caller[u]] = "body" /\ ~threw[Caller[u]]
      /\ inbox[client[Caller[u]]] = <<>>
      /\ \A v \in Task : UnderWay(v) /\ Caller[v] = Caller[u] => v = u
  BY DEF PoolInv, Suspended
<1> QED BY <1>1, <1>2

LEMMA PoolInit == Init => PoolInv
<1> SUFFICES ASSUME Init PROVE PoolInv
  OBVIOUS
<1>1. TypeOK
  BY TypeInit
<1>2. Exclusive /\ OneInFlight /\ Suspended /\ Fresh /\ Phases
  BY DEF Init, Exclusive, OneInFlight, Suspended, Fresh, Phases, Holding, UnderWay
<1>3. Server
  BY DEF Init, Server
<1> QED BY <1>1, <1>2, <1>3 DEF PoolInv

-----------------------------------------------------------------------------
(* The steps of a task.                                                     *)

LEMMA CallStep ==
  ASSUME PoolInv, TypeOK', ~Concurrent, NEW t \in Task, Call(t)
  PROVE  PoolInv'
<1>1. /\ pc[t] = "idle" /\ pc' = [pc EXCEPT ![t] = "waiting"]
      /\ UNCHANGED <<client, sent, threw, swallowed, answer, outcome, inbox,
                     tx, work, alive>>
  BY DEF Call, Goto, serverVars
<1>2. \A u \in Task : pc'[u] = IF u = t THEN "waiting" ELSE pc[u]
  BY <1>1 DEF PoolInv, TypeOK
<1>3. Exclusive'
  BY <1>1, <1>2 DEF PoolInv, Exclusive, Holding, InTransaction
<1>4. OneInFlight'
  <2> SUFFICES ASSUME NEW c \in Connection, inbox[c] # <<>>
               PROVE  /\ Tail(inbox[c]) = <<>>
                      /\ client[Head(inbox[c]).task] = c
                      /\ Awaited(Head(inbox[c]).task, Head(inbox[c]))'
    BY <1>1 DEF OneInFlight
  <2>1. /\ Tail(inbox[c]) = <<>> /\ client[Head(inbox[c]).task] = c
        /\ Awaited(Head(inbox[c]).task, Head(inbox[c]))
    BY DEF PoolInv, OneInFlight
  <2>2. Head(inbox[c]).task \in Task
    BY HeadType DEF PoolInv
  <2> QED BY <1>1, <1>2, <2>1, <2>2 DEF Awaited, Holding
<1>5. Suspended'
  <2> SUFFICES ASSUME NEW u \in Task, UnderWay(u)', Caller[u] # None
               PROVE  /\ pc'[Caller[u]] = "body" /\ ~threw[Caller[u]]
                      /\ inbox[client[Caller[u]]] = <<>>
                      /\ \A v \in Task :
                           UnderWay(v)' /\ Caller[v] = Caller[u] => v = u
    BY <1>1 DEF Suspended
  <2> DEFINE p == Caller[u]
  <2>1. p \in Task
    BY TransactionsAssumption DEF Task
  <2>2. CASE u = t \/ Caller[t] = p
    <3>1. pc[p] = "body" /\ ~threw[p] /\ ~Awaiting(p)
      BY <2>1, <2>2 DEF Call
    <3>2. inbox[client[p]] = <<>> /\ \A v \in Task : Caller[v] = p => ~UnderWay(v)
      BY <2>1, <3>1, AtRest DEF Holding
    <3> QED BY <1>1, <1>2, <2>1, <2>2, <3>1, <3>2 DEF UnderWay
  <2>3. CASE u # t /\ Caller[t] # p
    <3>1. UnderWay(u)
      BY <1>2, <2>3 DEF UnderWay
    <3>2. /\ pc[p] = "body" /\ ~threw[p] /\ inbox[client[p]] = <<>>
          /\ \A v \in Task : UnderWay(v) /\ Caller[v] = p => v = u
      BY <3>1 DEF PoolInv, Suspended
    <3> QED BY <1>1, <1>2, <2>1, <2>3, <3>2 DEF UnderWay
  <2> QED BY <2>2, <2>3
<1>6. Phases'
  <2> SUFFICES ASSUME NEW u \in Task, pc'[u] \in Holding
               PROVE  Phase(u)'
    BY DEF Phases
  <2>1. u # t /\ pc'[u] = pc[u] /\ Phase(u)
    BY <1>2 DEF PoolInv, Phases, Holding
  <2> QED BY <1>1, <2>1 DEF Phase, Written
<1>7. Server'
  BY <1>1, <1>2 DEF PoolInv, Server, Free, Holding
<1>8. Fresh'
  BY <1>1, <1>2 DEF PoolInv, Fresh
<1> QED BY <1>3, <1>4, <1>5, <1>6, <1>7, <1>8 DEF PoolInv
LEMMA EnterCallbackStep ==
  ASSUME PoolInv, TypeOK', NEW t \in Task, EnterCallback(t)
  PROVE  PoolInv'
<1> DEFINE c == client[t]
<1>1. /\ pc[t] = "begin" /\ answer[t] = "ok"
      /\ pc' = [pc EXCEPT ![t] = "body"]
      /\ answer' = [answer EXCEPT ![t] = "none"]
      /\ UNCHANGED <<client, sent, threw, swallowed, outcome, inbox, tx, work,
                     alive>>
  BY DEF EnterCallback, Goto, serverVars
<1>2. /\ pc'[t] = "body" /\ answer'[t] = "none"
      /\ \A u \in Task \ {t} : pc'[u] = pc[u] /\ answer'[u] = answer[u]
  BY <1>1 DEF PoolInv, TypeOK
<1>3. pc[t] \in Holding /\ pc'[t] \in Holding /\ t \in Transaction
  BY <1>1, <1>2 DEF Holding, PoolInv, Exclusive, InTransaction
<1>4. c \in Connection /\ \A u \in Task \ {t} : pc[u] \in Holding => client[u] # c
  BY <1>3, Holder
<1>5. inbox[c] = <<>>
  BY <1>1, <1>3, Holder DEF Awaited
<1>6. Elsewhere(t, c)
  BY <1>1, <1>2 DEF Elsewhere
<1>7. Phase(t)'
  <2>1. sent[t] = 0 /\ work[c] = {} /\ (alive[c] => tx[c] = "open")
    BY <1>1, <1>3 DEF PoolInv, Phases, Phase
  <2>2. tx[c] = "open" => work[c] = {t} \X (1..sent[t])
    BY <2>1
  <2> QED BY <1>1, <1>2, <1>5, <2>1, <2>2 DEF Phase, Written
<1>8. Suspended'
  BY <1>1, <1>2, SuspendedFrame DEF UnderWay
<1>9. /\ tx[c] # "open" => work[c] = {}
      /\ ~alive[c] => tx[c] = "none"
  BY <1>4 DEF PoolInv, Server
<1>10. Exclusive' /\ OneInFlight' /\ Phases' /\ Server' /\ Fresh'
  BY <1>1, <1>2, <1>3, <1>4, <1>5, <1>6, <1>7, <1>9, Frame
<1> QED BY <1>8, <1>10 DEF PoolInv

LEMMA SendStep ==
  ASSUME PoolInv, TypeOK', ~Concurrent, NEW t \in Task, Send(t)
  PROVE  PoolInv'
<1> DEFINE c == client[t]
<1>1. /\ pc[t] = "body" /\ ~threw[t] /\ ~Awaiting(t)
      /\ sent' = [sent EXCEPT ![t] = @ + 1]
      /\ Push(c, t, "write", sent[t] + 1)
      /\ UNCHANGED <<pc, client, threw, swallowed, answer, outcome, tx, work,
                     alive>>
  BY DEF Send, serverVars
<1>2. /\ sent'[t] = sent[t] + 1 /\ sent[t] \in Nat
      /\ \A u \in Task \ {t} : sent'[u] = sent[u]
  BY <1>1, TransactionsAssumption DEF PoolInv, TypeOK
<1>3. pc[t] \in Holding /\ t \in Transaction
  BY <1>1 DEF Holding, PoolInv, Exclusive, InTransaction
<1>4. c \in Connection /\ \A u \in Task \ {t} : pc[u] \in Holding => client[u] # c
  BY <1>3, Holder
<1>5. /\ inbox[c] = <<>>
      /\ \A u \in Task : Caller[u] = t => ~UnderWay(u)
  BY <1>1, <1>3, AtRest
<1>6. /\ inbox'[c] # <<>>
      /\ Tail(inbox'[c]) = <<>>
      /\ Head(inbox'[c]) = [task |-> t, kind |-> "write", k |-> sent[t] + 1]
      /\ \A d \in Connection \ {c} : inbox'[d] = inbox[d]
  BY <1>1, <1>4, <1>5, Pushed DEF PoolInv
<1>7. Elsewhere(t, c)
  BY <1>1, <1>2, <1>6 DEF Elsewhere
<1>8. Phase(t)
  BY <1>3 DEF PoolInv, Phases
<1>9. Phase(t)'
  <2>1. tx[c] = "open" => work[c] = {t} \X (1..sent[t])
    BY <1>1, <1>5, <1>8 DEF Phase, Written
  <2>2. sent'[t] - 1 = sent[t] /\ sent'[t] > 0
    BY <1>2
  <2>3. Written(t)' = {t} \X (1..sent[t])
    BY <1>1, <1>6, <2>2 DEF Written
  <2> QED BY <1>1, <1>8, <2>1, <2>2, <2>3 DEF Phase
<1>10. Awaited(t, Head(inbox[c]))'
  BY <1>1, <1>2, <1>3, <1>6, <1>8 DEF Awaited, Phase
<1>11. Suspended'
  <2>1. \A p \in Task \ {t} : pc[p] \in Holding => inbox'[client[p]] = inbox[client[p]]
    BY <1>4, <1>6, Holder
  <2> QED BY <1>1, <1>5, <2>1, SuspendedFrame DEF UnderWay, Holding
<1>12. /\ tx[c] # "open" => work[c] = {}
       /\ ~alive[c] => tx[c] = "none"
  BY <1>4 DEF PoolInv, Server
<1>13. Exclusive' /\ OneInFlight' /\ Phases' /\ Server' /\ Fresh'
  BY <1>1, <1>3, <1>4, <1>6, <1>7, <1>9, <1>10, <1>12, Frame DEF Holding
<1> QED BY <1>11, <1>13 DEF PoolInv

LEMMA RaiseStep ==
  ASSUME PoolInv, TypeOK', ~Concurrent, NEW t \in Task, Raise(t) \/ Swallow(t)
  PROVE  PoolInv'
<1> DEFINE c == client[t]
<1>1. /\ pc[t] = "body"
      /\ (~threw[t] /\ ~Awaiting(t)) \/ threw[t]
      /\ \A u \in Task \ {t} : threw'[u] = threw[u] /\ swallowed'[u] = swallowed[u]
      /\ threw'[t] \/ swallowed'[t]
      /\ swallowed[t] => swallowed'[t]
      /\ UNCHANGED <<pc, client, sent, answer, outcome, inbox, tx, work, alive>>
  BY DEF Raise, Swallow, serverVars, PoolInv, TypeOK
<1>2. pc[t] \in Holding /\ t \in Transaction
  BY <1>1 DEF Holding, PoolInv, Exclusive, InTransaction
<1>3. c \in Connection /\ \A u \in Task \ {t} : pc[u] \in Holding => client[u] # c
  BY <1>2, Holder
<1>4. inbox[c] = <<>>
  BY <1>1, <1>2, AtRest, Holder DEF Awaited
<1>5. ~threw[t] => \A u \in Task : Caller[u] = t => ~UnderWay(u)
  BY <1>1, <1>2, AtRest
<1>6. Elsewhere(t, c)
  BY <1>1 DEF Elsewhere
<1>7. Phase(t)
  BY <1>2 DEF PoolInv, Phases
<1>8. Phase(t)'
  BY <1>1, <1>7 DEF Phase, Written
<1>9. Suspended'
  BY <1>1, <1>5, SuspendedFrame DEF UnderWay
<1>10. /\ tx[c] # "open" => work[c] = {}
       /\ ~alive[c] => tx[c] = "none"
  BY <1>3 DEF PoolInv, Server
<1>11. Exclusive' /\ OneInFlight' /\ Phases' /\ Server' /\ Fresh'
  BY <1>1, <1>2, <1>3, <1>4, <1>6, <1>8, <1>10, Frame DEF Holding
<1> QED BY <1>9, <1>11 DEF PoolInv
LEMMA FinishCallbackStep ==
  ASSUME PoolInv, TypeOK', NEW t \in Task, FinishCallback(t)
  PROVE  PoolInv'
<1> DEFINE c == client[t]
<1>1. /\ pc[t] = "body" /\ ~threw[t] /\ ~Awaiting(t) /\ sent[t] = Length
      /\ pc' = [pc EXCEPT ![t] = "commit"]
      /\ Push(c, t, "COMMIT", 0)
      /\ UNCHANGED <<client, sent, threw, swallowed, answer, outcome, tx, work,
                     alive>>
  BY DEF FinishCallback, Goto, serverVars
<1>2. pc'[t] = "commit" /\ \A u \in Task \ {t} : pc'[u] = pc[u]
  BY <1>1 DEF PoolInv, TypeOK
<1>3. pc[t] \in Holding /\ pc'[t] \in Holding /\ t \in Transaction
  BY <1>1, <1>2 DEF Holding, PoolInv, Exclusive, InTransaction
<1>4. c \in Connection /\ \A u \in Task \ {t} : pc[u] \in Holding => client[u] # c
  BY <1>3, Holder
<1>5. /\ inbox[c] = <<>>
      /\ \A u \in Task : Caller[u] = t => ~UnderWay(u)
  BY <1>1, <1>3, AtRest
<1>6. /\ inbox'[c] # <<>>
      /\ Tail(inbox'[c]) = <<>>
      /\ Head(inbox'[c]) = [task |-> t, kind |-> "COMMIT", k |-> 0]
      /\ \A d \in Connection \ {c} : inbox'[d] = inbox[d]
  BY <1>1, <1>4, <1>5, Pushed DEF PoolInv
<1>7. Elsewhere(t, c)
  BY <1>1, <1>2, <1>6 DEF Elsewhere
<1>8. Phase(t)
  BY <1>3 DEF PoolInv, Phases
<1>9. Phase(t)'
  <2>1. tx[c] = "open" => work[c] = Writes(t)
    <3>1. t \notin Query
      BY <1>3, TransactionsAssumption
    <3> QED BY <1>1, <1>5, <1>8, <3>1 DEF Phase, Written, Writes, Last
  <2> QED BY <1>1, <1>2, <1>8, <2>1 DEF Phase
<1>10. Awaited(t, Head(inbox[c]))'
  BY <1>1, <1>2, <1>3, <1>6, <1>8 DEF Awaited, Phase
<1>11. Suspended'
  <2>1. \A p \in Task \ {t} : pc[p] \in Holding => inbox'[client[p]] = inbox[client[p]]
    BY <1>4, <1>6, Holder
  <2> QED BY <1>1, <1>2, <1>5, <2>1, SuspendedFrame DEF UnderWay, Holding
<1>12. /\ tx[c] # "open" => work[c] = {}
       /\ ~alive[c] => tx[c] = "none"
  BY <1>4 DEF PoolInv, Server
<1>13. Exclusive' /\ OneInFlight' /\ Phases' /\ Server' /\ Fresh'
  BY <1>1, <1>2, <1>3, <1>4, <1>6, <1>7, <1>9, <1>10, <1>12, Frame DEF Holding
<1> QED BY <1>11, <1>13 DEF PoolInv

LEMMA CatchStep ==
  ASSUME PoolInv, TypeOK', NEW t \in Task, Catch(t)
  PROVE  PoolInv'
<1> DEFINE c == client[t]
<1>1. /\ \/ answer[t] = "error" /\ pc[t] \in {"begin", "commit"}
         \/ threw[t] /\ pc[t] = "body"
      /\ pc' = [pc EXCEPT ![t] = "rollback"]
      /\ answer' = [answer EXCEPT ![t] = "none"]
      /\ Push(c, t, "ROLLBACK", 0)
      /\ UNCHANGED <<client, sent, threw, swallowed, outcome, tx, work, alive>>
  BY DEF Catch, Caught, serverVars
<1>2. /\ pc'[t] = "rollback" /\ answer'[t] = "none"
      /\ \A u \in Task \ {t} : pc'[u] = pc[u] /\ answer'[u] = answer[u]
  BY <1>1 DEF PoolInv, TypeOK
<1>3. pc[t] \in Holding /\ pc'[t] \in Holding /\ t \in Transaction
  BY <1>1, <1>2 DEF Holding, PoolInv, Exclusive, InTransaction
<1>4. c \in Connection /\ \A u \in Task \ {t} : pc[u] \in Holding => client[u] # c
  BY <1>3, Holder
<1>5. inbox[c] = <<>>
  BY <1>1, <1>3, Holder DEF Awaited
<1>6. /\ inbox'[c] # <<>>
      /\ Tail(inbox'[c]) = <<>>
      /\ Head(inbox'[c]) = [task |-> t, kind |-> "ROLLBACK", k |-> 0]
      /\ \A d \in Connection \ {c} : inbox'[d] = inbox[d]
  BY <1>1, <1>4, <1>5, Pushed DEF PoolInv
<1>7. Elsewhere(t, c)
  BY <1>1, <1>2, <1>6 DEF Elsewhere
<1>8. Phase(t)
  BY <1>3 DEF PoolInv, Phases
<1>9. Phase(t)'
  <2>1. work[c] \subseteq Writes(t)
    <3>1. CASE pc[t] = "body" /\ tx[c] = "open"
      <4>1. t \notin Query
        BY <1>3, TransactionsAssumption
      <4>2. work[c] = {t} \X (1..sent[t])
        BY <1>5, <1>8, <3>1 DEF Phase, Written
      <4>3. sent[t] \in 0..Length /\ Length \in Nat
        BY TransactionsAssumption DEF PoolInv, TypeOK
      <4>4. 1..sent[t] \subseteq 1..Length
        BY <4>3
      <4> QED BY <4>1, <4>2, <4>4 DEF Writes, Last
    <3>2. CASE tx[c] # "open"
      BY <1>4, <3>2 DEF PoolInv, Server
    <3>3. CASE pc[t] # "body"
      BY <1>1, <1>4, <1>8, <3>3 DEF Phase, PoolInv, Server
    <3> QED BY <3>1, <3>2, <3>3
  <2> QED BY <1>1, <1>2, <2>1 DEF Phase, Writes, Last
<1>10. Awaited(t, Head(inbox[c]))'
  BY <1>1, <1>2, <1>3, <1>6 DEF Awaited
<1>11. Suspended'
  <2>1. \A p \in Task \ {t} : pc[p] \in Holding => inbox'[client[p]] = inbox[client[p]]
    BY <1>4, <1>6, Holder
  <2> QED BY <1>1, <1>2, <2>1, SuspendedFrame DEF UnderWay, Holding
<1>12. /\ tx[c] # "open" => work[c] = {}
       /\ ~alive[c] => tx[c] = "none"
  BY <1>4 DEF PoolInv, Server
<1>13. Exclusive' /\ OneInFlight' /\ Phases' /\ Server' /\ Fresh'
  BY <1>1, <1>2, <1>3, <1>4, <1>6, <1>7, <1>9, <1>10, <1>12, Frame DEF Holding
<1> QED BY <1>11, <1>13 DEF PoolInv

LEMMA ConcludeStep ==
  ASSUME PoolInv, TypeOK', NEW t \in Task, Conclude(t)
  PROVE  PoolInv'
<1> DEFINE c == client[t]
<1>1. /\ answer[t] # "none" /\ pc[t] \in {"commit", "rollback", "query"}
      /\ pc' = [pc EXCEPT ![t] = "release"]
      /\ \A u \in Task \ {t} : outcome'[u] = outcome[u]
      /\ UNCHANGED <<client, sent, threw, swallowed, answer, inbox, tx, work,
                     alive>>
  BY DEF Conclude, serverVars, PoolInv, TypeOK
<1>2. pc'[t] = "release" /\ \A u \in Task \ {t} : pc'[u] = pc[u]
  BY <1>1 DEF PoolInv, TypeOK
<1>3. pc[t] \in Holding /\ pc'[t] \in Holding
  BY <1>1, <1>2 DEF Holding
<1>4. c \in Connection /\ \A u \in Task \ {t} : pc[u] \in Holding => client[u] # c
  BY <1>3, Holder
<1>5. inbox[c] = <<>>
  BY <1>1, <1>3, Holder DEF Awaited
<1>6. Elsewhere(t, c)
  BY <1>1, <1>2 DEF Elsewhere
<1>7. Phase(t)
  BY <1>3 DEF PoolInv, Phases
<1>8. Phase(t)'
  BY <1>1, <1>2, <1>5, <1>7 DEF Phase
<1>9. Suspended'
  BY <1>1, <1>2, SuspendedFrame DEF UnderWay
<1>10. /\ tx[c] # "open" => work[c] = {}
       /\ ~alive[c] => tx[c] = "none"
  BY <1>4 DEF PoolInv, Server
<1>11. Exclusive' /\ OneInFlight' /\ Phases' /\ Server' /\ Fresh'
  BY <1>1, <1>2, <1>3, <1>4, <1>5, <1>6, <1>8, <1>10, Frame DEF InTransaction
<1> QED BY <1>9, <1>11 DEF PoolInv

LEMMA ReleaseStep ==
  ASSUME PoolInv, TypeOK', NEW t \in Task, Release(t)
  PROVE  PoolInv'
<1> DEFINE c == client[t]
<1>1. /\ pc[t] = "release" /\ pc' = [pc EXCEPT ![t] = "done"]
      /\ outcome' = [outcome EXCEPT ![t] = outcome[t]]
      /\ \A u \in Task :
           threw'[u] = (threw[u] \/ (u = Caller[t] /\ outcome[t] = "rejected"))
      /\ \/ alive[c] /\ UNCHANGED <<client, alive, inbox>>
         \/ /\ ~alive[c]
            /\ alive' = [alive EXCEPT ![c] = TRUE]
            /\ inbox' = [inbox EXCEPT ![c] = <<>>]
            /\ client' = [u \in Task |-> IF client[u] = c THEN None ELSE client[u]]
      /\ UNCHANGED <<sent, swallowed, answer, tx, work>>
  BY DEF Release, Settle, Goto
<1>2. pc'[t] = "done" /\ \A u \in Task \ {t} : pc'[u] = pc[u]
  BY <1>1 DEF PoolInv, TypeOK
<1>3. pc[t] \in Holding /\ pc'[t] \notin Holding
  BY <1>1, <1>2 DEF Holding
<1>4. c \in Connection /\ \A u \in Task \ {t} : pc[u] \in Holding => client[u] # c
  BY <1>3, Holder
<1>5. Phase(t)
  BY <1>3 DEF PoolInv, Phases
<1>6. inbox[c] = <<>> /\ tx[c] = "none"
  BY <1>1, <1>5 DEF Phase
<1>7. inbox' = inbox /\ alive'[c]
  BY <1>1, <1>4, <1>6 DEF PoolInv, TypeOK
<1>8. \A u \in Task \ {t} : pc[u] \in Holding => client'[u] = client[u]
  BY <1>1, <1>4
<1>9. \A u \in Task : u = Caller[t] => inbox[client[u]] = <<>> /\ pc[u] = "body"
  BY <1>1, TransactionsAssumption DEF PoolInv, Suspended, UnderWay, Task
<1>10. Elsewhere(t, c)
  <2>1. \A u \in Task \ {t} :
          /\ threw[u] => threw'[u]
          /\ threw'[u] => threw[u] \/ inbox[client[u]] = <<>>
    BY <1>1, <1>9
  <2>2. \A u \in Task \ {t} : outcome'[u] = outcome[u]
    BY <1>1 DEF PoolInv, TypeOK
  <2>3. \A d \in Connection \ {c} : alive'[d] = alive[d]
    BY <1>1 DEF PoolInv, TypeOK
  <2> QED BY <1>1, <1>2, <1>7, <1>8, <2>1, <2>2, <2>3 DEF Elsewhere
<1>11. Suspended'
  <2>1. \A u \in Task : UnderWay(u)' => UnderWay(u)
    BY <1>1, <1>2 DEF UnderWay
  <2>2. ASSUME NEW p \in Task, NEW u \in Task, UnderWay(u)', Caller[u] = p,
               pc[p] = "body", ~threw[p], inbox[client[p]] = <<>>
        PROVE  pc'[p] = "body" /\ ~threw'[p] /\ inbox'[client'[p]] = <<>>
    <3>1. p # t /\ u # t
      BY <1>1, <1>2, <2>2 DEF UnderWay
    <3>2. Caller[t] # p
      <4>1. p # None
        BY TransactionsAssumption
      <4>2. UnderWay(u) /\ UnderWay(t)
        BY <1>1, <2>1, <2>2 DEF UnderWay
      <4> QED BY <2>2, <3>1, <4>1, <4>2 DEF PoolInv, Suspended
    <3>3. client'[p] = client[p]
      BY <1>8, <2>2, <3>1 DEF Holding
    <3>4. ~threw'[p]
      BY <1>1, <2>2, <3>2
    <3>5. pc'[p] = "body"
      BY <1>2, <2>2, <3>1
    <3> QED BY <1>7, <2>2, <3>3, <3>4, <3>5
  <2> QED BY <2>1, <2>2, SuspendedFrame
<1>12. /\ tx[c] # "open" => work[c] = {}
       /\ ~alive[c] => tx[c] = "none"
  BY <1>4 DEF PoolInv, Server
<1>13. Exclusive' /\ OneInFlight' /\ Phases' /\ Server' /\ Fresh'
  BY <1>1, <1>2, <1>3, <1>4, <1>6, <1>7, <1>10, <1>12, Frame
<1> QED BY <1>11, <1>13 DEF PoolInv
-----------------------------------------------------------------------------
(* The steps of the pool.                                                   *)

LEMMA FreeIsEmpty ==
  ASSUME PoolInv, NEW c \in Connection, Free(c)
  PROVE  /\ inbox[c] = <<>> /\ tx[c] = "none" /\ work[c] = {} /\ alive[c]
         /\ \A u \in Task : pc[u] \in Holding => client[u] # c
<1>1. tx[c] = "none" /\ work[c] = {} /\ alive[c]
  BY DEF PoolInv, Server
<1>2. inbox[c] = <<>>
  <2>1. SUFFICES ASSUME inbox[c] # <<>> PROVE FALSE
    OBVIOUS
  <2> DEFINE u == Head(inbox[c]).task
  <2>2. client[u] = c /\ pc[u] \in Holding
    BY <2>1 DEF PoolInv, OneInFlight, Awaited
  <2>3. u \in Task
    BY <2>1, HeadType DEF PoolInv
  <2> QED BY <2>2, <2>3 DEF Free
<1> QED BY <1>1, <1>2 DEF Free

LEMMA GrantStep ==
  ASSUME PoolInv, TypeOK', ~Shared, NEW c \in Connection, Grant(c)
  PROVE  PoolInv'
<1>0. Head(queue) \in Task
  BY DEF Grant, PoolInv, TypeOK
<1>2. PICK t \in Task : t = Head(queue)
  BY <1>0
<1>1. /\ queue # <<>> /\ Free(c)
      /\ client' = [client EXCEPT ![t] = c]
      /\ pc[t] = "waiting"
      /\ UNCHANGED <<threw, swallowed, answer, outcome, tx, work, alive>>
  BY <1>2 DEF Grant, Goto, serverVars
<1>3. /\ inbox[c] = <<>> /\ tx[c] = "none" /\ work[c] = {} /\ alive[c]
      /\ \A u \in Task : pc[u] \in Holding => client[u] # c
  BY <1>1, FreeIsEmpty
<1>4. client'[t] = c /\ \A u \in Task \ {t} : client'[u] = client[u]
  BY <1>1, <1>2 DEF PoolInv, TypeOK
<1>5. sent[t] = 0 /\ answer[t] = "none"
  BY <1>1, <1>2 DEF PoolInv, Fresh
<1>6. pc[t] \notin Holding
  BY <1>1 DEF Holding
<1>7. \/ /\ t \in Transaction /\ pc' = [pc EXCEPT ![t] = "begin"]
         /\ Push(c, t, "BEGIN", 0) /\ sent' = sent
      \/ /\ t \in Query /\ pc' = [pc EXCEPT ![t] = "query"]
         /\ Push(c, t, "write", 1) /\ sent' = [sent EXCEPT ![t] = 1]
  BY <1>2 DEF Grant, Goto
<1>8. /\ \A u \in Task \ {t} : pc'[u] = pc[u] /\ sent'[u] = sent[u]
      /\ \/ t \in Transaction /\ pc'[t] = "begin" /\ sent'[t] = 0
         \/ t \in Query /\ pc'[t] = "query" /\ sent'[t] = 1
  BY <1>2, <1>5, <1>7 DEF PoolInv, TypeOK
<1>9. /\ inbox'[c] # <<>> /\ Tail(inbox'[c]) = <<>>
      /\ \A d \in Connection \ {c} : inbox'[d] = inbox[d]
      /\ Head(inbox'[c]).task = t
      /\ pc'[t] = "begin" => Head(inbox'[c]).kind = "BEGIN"
      /\ pc'[t] = "query" => /\ Head(inbox'[c]).kind = "write"
                             /\ Head(inbox'[c]).k = 1
  <2>0. TypeOK
    BY DEF PoolInv
  <2>1. CASE Push(c, t, "BEGIN", 0) /\ pc' = [pc EXCEPT ![t] = "begin"]
    <3>1. pc'[t] = "begin"
      BY <1>2, <2>0, <2>1 DEF TypeOK
    <3>2. /\ inbox'[c] # <<>> /\ Tail(inbox'[c]) = <<>>
          /\ Head(inbox'[c]) = [task |-> t, kind |-> "BEGIN", k |-> 0]
          /\ \A d \in Connection \ {c} : inbox'[d] = inbox[d]
      BY <1>3, <2>0, <2>1, Pushed
    <3> QED BY <3>1, <3>2
  <2>2. CASE Push(c, t, "write", 1) /\ pc' = [pc EXCEPT ![t] = "query"]
    <3>1. pc'[t] = "query"
      BY <1>2, <2>0, <2>2 DEF TypeOK
    <3>2. /\ inbox'[c] # <<>> /\ Tail(inbox'[c]) = <<>>
          /\ Head(inbox'[c]) = [task |-> t, kind |-> "write", k |-> 1]
          /\ \A d \in Connection \ {c} : inbox'[d] = inbox[d]
      BY <1>3, <2>0, <2>2, Pushed
    <3> QED BY <3>1, <3>2
  <2> QED BY <1>7, <2>1, <2>2
<1>10. Elsewhere(t, c)
  BY <1>1, <1>4, <1>8, <1>9 DEF Elsewhere
<1>11. Phase(t)'
  BY <1>1, <1>3, <1>4, <1>5, <1>8 DEF Phase
<1>12. Awaited(t, Head(inbox[c]))'
  BY <1>1, <1>5, <1>8, <1>9 DEF Awaited, Holding
<1>13. Suspended'
  <2>1. \A p \in Task : pc[p] = "body" =>
          /\ pc'[p] = "body" /\ client'[p] = client[p]
          /\ inbox'[client[p]] = inbox[client[p]]
    <3> SUFFICES ASSUME NEW p \in Task, pc[p] = "body"
                 PROVE  /\ pc'[p] = "body" /\ client'[p] = client[p]
                        /\ inbox'[client[p]] = inbox[client[p]]
      OBVIOUS
    <3>1. p # t
      BY <1>1
    <3>2. client[p] \in Connection \ {c}
      BY <1>3, Holder DEF Holding
    <3> QED BY <1>4, <1>8, <1>9, <3>1, <3>2
  <2>2. \A u \in Task : UnderWay(u)' => UnderWay(u)
    BY <1>1, <1>8 DEF UnderWay
  <2> QED BY <1>1, <2>1, <2>2, SuspendedFrame
<1>14. Exclusive' /\ OneInFlight' /\ Phases' /\ Server' /\ Fresh'
  BY <1>1, <1>2, <1>3, <1>4, <1>6, <1>8, <1>9, <1>10, <1>11, <1>12, Frame
     DEF Holding, InTransaction
<1> QED BY <1>13, <1>14 DEF PoolInv

(* A call that gets no connection leaves every connection alone. *)
LEMMA AcquireFailsStep ==
  ASSUME PoolInv, TypeOK', AcquireFails
  PROVE  PoolInv'
<1> DEFINE t == Head(queue)
<1>1. /\ queue # <<>> /\ pc[t] = "waiting" /\ pc' = [pc EXCEPT ![t] = "done"]
      /\ outcome' = [outcome EXCEPT ![t] = "rejected"]
      /\ \A u \in Task : threw'[u] = (threw[u] \/ u = Caller[t])
      /\ UNCHANGED <<client, sent, swallowed, answer, inbox, tx, work, alive>>
  BY DEF AcquireFails, Settle, Goto, serverVars
<1>2. t \in Task
  BY <1>1 DEF PoolInv, TypeOK
<1>3. /\ pc'[t] = "done" /\ pc[t] \notin Holding
      /\ \A u \in Task \ {t} : pc'[u] = pc[u] /\ outcome'[u] = outcome[u]
  BY <1>1, <1>2 DEF PoolInv, TypeOK, Holding
<1>4. \A u \in Task : u = Caller[t] =>
        inbox[client[u]] = <<>> /\ pc[u] = "body"
  BY <1>1, <1>2, TransactionsAssumption DEF PoolInv, Suspended, UnderWay, Task
<1>5. Exclusive'
  BY <1>1, <1>3 DEF PoolInv, Exclusive, Holding
<1>6. OneInFlight'
  <2> SUFFICES ASSUME NEW d \in Connection, inbox[d] # <<>>
               PROVE  /\ Tail(inbox[d]) = <<>>
                      /\ client[Head(inbox[d]).task] = d
                      /\ Awaited(Head(inbox[d]).task, Head(inbox[d]))'
    BY <1>1 DEF OneInFlight
  <2>1. /\ Tail(inbox[d]) = <<>> /\ client[Head(inbox[d]).task] = d
        /\ Awaited(Head(inbox[d]).task, Head(inbox[d]))
    BY DEF PoolInv, OneInFlight
  <2>2. PICK u \in Task, r \in Request : u = Head(inbox[d]).task /\ r = Head(inbox[d])
    BY HeadType DEF PoolInv
  <2>3. u # t /\ client[u] = d /\ Awaited(u, r)
    BY <1>3, <2>1, <2>2 DEF Awaited
  <2>4. u # Caller[t]
    BY <1>4, <2>3
  <2>5. /\ pc'[u] = pc[u] /\ answer'[u] = answer[u]
        /\ sent'[u] = sent[u]
    BY <1>1, <1>3, <2>3
  <2>6. threw'[u] <=> threw[u]
    BY <1>1, <2>4
  <2>7. Awaited(u, r)'
    BY <2>3, <2>5, <2>6 DEF Awaited
  <2> QED BY <1>1, <2>1, <2>2, <2>7
<1>7. Suspended'
  <2>1. \A u \in Task : UnderWay(u)' => UnderWay(u)
    BY <1>1, <1>3 DEF UnderWay
  <2>2. ASSUME NEW p \in Task, NEW u \in Task, UnderWay(u)', Caller[u] = p,
               pc[p] = "body", ~threw[p], inbox[client[p]] = <<>>
        PROVE  pc'[p] = "body" /\ ~threw'[p] /\ inbox'[client'[p]] = <<>>
    <3>1. p # t /\ u # t
      BY <1>1, <1>3, <2>2 DEF UnderWay
    <3>2. Caller[t] # p
      <4>1. p # None
        BY TransactionsAssumption
      <4>2. UnderWay(u) /\ UnderWay(t)
        BY <1>1, <2>1, <2>2 DEF UnderWay
      <4> QED BY <1>2, <2>2, <3>1, <4>1, <4>2 DEF PoolInv, Suspended
    <3>3. ~threw'[p]
      BY <1>1, <2>2, <3>2
    <3>4. pc'[p] = "body"
      BY <1>3, <2>2, <3>1
    <3> QED BY <1>1, <2>2, <3>3, <3>4
  <2> QED BY <2>1, <2>2, SuspendedFrame
<1>8. Phases'
  <2> SUFFICES ASSUME NEW u \in Task, pc'[u] \in Holding
               PROVE  Phase(u)'
    BY DEF Phases
  <2>1. u # t /\ pc'[u] = pc[u] /\ Phase(u) /\ (threw[u] => threw'[u])
    BY <1>1, <1>3 DEF PoolInv, Phases, Holding
  <2> QED BY <1>1, <2>1 DEF Phase, Written
<1>9. Server'
  BY <1>1, <1>2, <1>3 DEF PoolInv, Server, Free
<1>10. Fresh'
  BY <1>1, <1>3 DEF PoolInv, Fresh
<1> QED BY <1>5, <1>6, <1>7, <1>8, <1>9, <1>10 DEF PoolInv
-----------------------------------------------------------------------------
(* The steps of the server and the driver.                                  *)

(* What a reply to r changes for the tasks. *)
LEMMA ReplyEffect ==
  ASSUME TypeOK, NEW r, r.task \in Task, NEW ok \in BOOLEAN, Reply(r, ok)
  PROVE  /\ \A u \in Task \ {r.task} : threw'[u] = threw[u] /\ answer'[u] = answer[u]
         /\ threw[r.task] => threw'[r.task]
         /\ r.kind = "write" /\ r.task \in Transaction =>
              /\ answer'[r.task] = answer[r.task]
              /\ threw'[r.task] = (threw[r.task] \/ ~ok)
         /\ ~(r.kind = "write" /\ r.task \in Transaction) =>
              /\ threw'[r.task] = threw[r.task]
              /\ answer'[r.task] = IF ok THEN "ok" ELSE "error"
<1>1. CASE r.kind = "write" /\ r.task \in Transaction
  <2>1. /\ threw' = [threw EXCEPT ![r.task] = @ \/ ~ok]
        /\ answer' = answer
    BY <1>1 DEF Reply
  <2> QED BY <1>1, <2>1 DEF TypeOK
<1>2. CASE ~(r.kind = "write" /\ r.task \in Transaction)
  <2>1. /\ answer' = [answer EXCEPT ![r.task] = IF ok THEN "ok" ELSE "error"]
        /\ threw' = threw
    BY <1>2 DEF Reply
  <2> QED BY <1>2, <2>1 DEF TypeOK
<1> QED BY <1>1, <1>2

(* What it takes to answer the request of task t on connection c. *)
LEMMA AnswerStep ==
  ASSUME PoolInv, TypeOK', NEW c \in Connection, NEW t \in Task, NEW r,
         NEW ok \in BOOLEAN,
         inbox[c] # <<>>, r = Head(inbox[c]), t = r.task,
         Take(c), Reply(r, ok), alive' = alive,
         \A d \in Connection \ {c} : tx'[d] = tx[d] /\ work'[d] = work[d],
         tx'[c] # "open" => work'[c] = {},
         ~alive[c] => tx'[c] = "none",
         inbox'[c] = <<>> => Phase(t)'
  PROVE  PoolInv'
<1>1. r.task \in Task /\ TypeOK
  BY HeadType DEF PoolInv
<1>2. /\ Tail(inbox[c]) = <<>> /\ client[t] = c /\ Awaited(t, r)
  BY DEF PoolInv, OneInFlight
<1>3. /\ inbox' = [inbox EXCEPT ![c] = <<>>]
      /\ UNCHANGED <<pc, client, sent, swallowed, outcome>>
  BY <1>2 DEF Take
<1>4. inbox'[c] = <<>> /\ \A d \in Connection \ {c} : inbox'[d] = inbox[d]
  BY <1>1, <1>3 DEF TypeOK
<1>5. pc[t] \in Holding
  BY <1>2 DEF Awaited
<1>6. \A u \in Task \ {t} : pc[u] \in Holding => client[u] # c
  BY <1>2, <1>5, Holder
<1>7. /\ \A u \in Task \ {t} : threw'[u] = threw[u] /\ answer'[u] = answer[u]
  BY <1>1, ReplyEffect
<1>8. Elsewhere(t, c)
  BY <1>3, <1>4, <1>7 DEF Elsewhere
<1>9. Phase(t)'
  BY <1>3, <1>4, <1>7
<1>10. Suspended'
  <2>1. \A p \in Task : inbox[client[p]] = <<>> => p # t
    BY <1>2
  <2>2. \A p \in Task : pc[p] = "body" /\ p # t =>
          client[p] \in Connection /\ inbox'[client[p]] = inbox[client[p]]
    BY <1>4, <1>6, Holder DEF Holding
  <2> QED BY <1>3, <1>7, <2>1, <2>2, SuspendedFrame DEF UnderWay
<1>11. Exclusive' /\ OneInFlight' /\ Phases' /\ Server' /\ Fresh'
  BY <1>2, <1>3, <1>4, <1>5, <1>6, <1>8, <1>9, Frame
     DEF PoolInv, Exclusive, Holding
<1> QED BY <1>10, <1>11 DEF PoolInv

LEMMA ServeStep ==
  ASSUME PoolInv, TypeOK', NEW c \in Connection, Serve(c)
  PROVE  PoolInv'
<1>1. PICK r \in Request, t \in Task : r = Head(inbox[c]) /\ t = r.task
  BY HeadType DEF Serve, PoolInv
<1>2. /\ inbox[c] # <<>> /\ alive[c] /\ Take(c) /\ alive' = alive
      /\ UNCHANGED <<pc, client, sent, swallowed, outcome>>
  BY DEF Serve, Take
<1>3. client[t] = c /\ Awaited(t, r)
  BY <1>1, <1>2 DEF PoolInv, OneInFlight
<1>4. /\ pc[t] \in Holding \ {"release"} /\ Phase(t) /\ answer[t] = "none"
      /\ pc[t] \in InTransaction => t \in Transaction
      /\ pc[t] = "query" => t \in Query /\ t \notin Transaction
  BY <1>3, TransactionsAssumption DEF Awaited, PoolInv, Phases, Exclusive
<1>5. TypeOK
  BY DEF PoolInv
<1>6. tx[c] \in {"none", "open", "aborted"} /\ (tx[c] # "open" => work[c] = {})
  BY <1>5 DEF TypeOK, PoolInv, Server
<1>7. CASE r.kind = "BEGIN" /\ ServeBegin(c)
  <2>1. /\ tx' = [tx EXCEPT ![c] = IF @ = "none" THEN "open" ELSE @]
        /\ Reply(r, TRUE) /\ work' = work
    BY <1>1, <1>7 DEF ServeBegin
  <2>2. pc[t] = "begin"
    BY <1>3, <1>4, <1>7 DEF Awaited, Holding
  <2>3. answer'[t] = "ok"
    BY <1>1, <1>5, <1>7, <2>1, ReplyEffect
  <2>4. tx'[c] = "open" /\ \A d \in Connection \ {c} : tx'[d] = tx[d]
    BY <1>3, <1>4, <1>5, <2>1, <2>2 DEF TypeOK, Phase
  <2>5. Phase(t)'
    BY <1>2, <1>3, <1>4, <2>1, <2>2, <2>3, <2>4 DEF Phase
  <2> QED BY <1>1, <1>2, <2>1, <2>4, <2>5, AnswerStep
<1>8. CASE r.kind = "write" /\ ServeWrite(c)
  <2>1. pc[t] \in {"body", "query"} /\ r.k = sent[t]
    BY <1>3, <1>4, <1>8 DEF Awaited, Holding
  <2>2. PICK ok \in BOOLEAN :
          /\ Reply(r, ok)
          /\ \/ tx[c] = "open" /\ ok /\ tx' = tx
                /\ work' = [work EXCEPT ![c] = @ \cup {<<t, r.k>>}]
             \/ tx[c] = "none" /\ ok /\ tx' = tx /\ work' = work
             \/ tx[c] = "aborted" /\ ~ok /\ tx' = tx /\ work' = work
             \/ /\ tx[c] # "aborted" /\ ~ok
                /\ tx' = [tx EXCEPT ![c] = IF @ = "open" THEN "aborted" ELSE @]
                /\ work' = [work EXCEPT ![c] = {}]
    BY <1>1, <1>8 DEF ServeWrite
  <2>3. /\ \A d \in Connection \ {c} : tx'[d] = tx[d] /\ work'[d] = work[d]
        /\ \/ /\ tx[c] = "open" /\ ok /\ tx'[c] = "open"
              /\ work'[c] = work[c] \cup {<<t, r.k>>}
           \/ tx[c] = "none" /\ ok /\ tx'[c] = "none" /\ work'[c] = {}
           \/ tx[c] = "aborted" /\ ~ok /\ tx'[c] = "aborted" /\ work'[c] = {}
           \/ tx[c] = "open" /\ ~ok /\ tx'[c] = "aborted" /\ work'[c] = {}
           \/ tx[c] = "none" /\ ~ok /\ tx'[c] = "none" /\ work'[c] = {}
    BY <1>5, <1>6, <2>2 DEF TypeOK
  <2>4. CASE pc[t] = "body"
    <3>1. answer'[t] = "none" /\ threw'[t] = (threw[t] \/ ~ok)
      BY <1>1, <1>4, <1>5, <1>8, <2>2, <2>4, ReplyEffect DEF InTransaction
    <3>2. inbox'[c] = <<>> /\ tx'[c] = "open" => work'[c] = {t} \X (1..sent[t])
      <4>1. tx'[c] = "open" => work[c] = {t} \X (1..(sent[t] - 1))
                               /\ work'[c] = work[c] \cup {<<t, sent[t]>>}
        BY <1>2, <1>3, <1>4, <2>1, <2>3, <2>4 DEF Phase, Written
      <4>2. sent[t] \in Nat /\ sent[t] > 0
        BY <1>2, <1>3, <1>4, <1>5, <2>4, TransactionsAssumption DEF Phase, TypeOK
      <4>3. 1..sent[t] = (1..(sent[t] - 1)) \cup {sent[t]}
        BY <4>2
      <4> QED BY <4>1, <4>3
    <3>3. inbox'[c] = <<>> => Phase(t)'
      BY <1>2, <1>3, <1>4, <2>3, <2>4, <3>1, <3>2 DEF Phase, Written
    <3> QED BY <1>1, <1>2, <2>2, <2>3, <3>3, AnswerStep
  <2>5. CASE pc[t] = "query"
    <3>1. tx[c] = "none"
      BY <1>3, <1>4, <2>5 DEF Phase
    <3>2. Phase(t)'
      BY <1>2, <1>3, <2>3, <2>5, <3>1 DEF Phase
    <3> QED BY <1>1, <1>2, <2>2, <2>3, <3>2, AnswerStep
  <2> QED BY <2>1, <2>4, <2>5
<1>9. CASE \/ r.kind = "COMMIT" /\ ServeCommit(c)
           \/ r.kind = "ROLLBACK" /\ ServeRollback(c)
  <2>1. PICK ok \in BOOLEAN :
          /\ Reply(r, ok)
          /\ tx' = [tx EXCEPT ![c] = "none"]
          /\ work' = [work EXCEPT ![c] = {}]
    BY <1>1, <1>9 DEF ServeCommit, ServeRollback
  <2>2. /\ \A d \in Connection \ {c} : tx'[d] = tx[d] /\ work'[d] = work[d]
        /\ tx'[c] = "none" /\ work'[c] = {}
    BY <1>5, <2>1 DEF TypeOK
  <2>3. pc[t] \in {"commit", "rollback"}
    BY <1>3, <1>4, <1>9 DEF Awaited, Holding
  <2>4. answer'[t] # "none"
    BY <1>1, <1>5, <1>9, <2>1, ReplyEffect
  <2>5. Phase(t)'
    BY <1>2, <1>3, <1>4, <2>2, <2>3, <2>4 DEF Phase, Writes, Last
  <2> QED BY <1>1, <1>2, <2>1, <2>2, <2>5, AnswerStep
<1>10. \/ r.kind = "BEGIN" /\ ServeBegin(c)
       \/ r.kind = "write" /\ ServeWrite(c)
       \/ r.kind = "COMMIT" /\ ServeCommit(c)
       \/ r.kind = "ROLLBACK" /\ ServeRollback(c)
  BY <1>1 DEF Serve
<1> QED BY <1>7, <1>8, <1>9, <1>10

LEMMA RefuseStep ==
  ASSUME PoolInv, TypeOK', NEW c \in Connection, Refuse(c)
  PROVE  PoolInv'
<1>1. PICK r \in Request, t \in Task : r = Head(inbox[c]) /\ t = r.task
  BY HeadType DEF Refuse, PoolInv
<1>2. /\ inbox[c] # <<>> /\ ~alive[c] /\ Take(c) /\ Reply(r, FALSE)
      /\ UNCHANGED <<pc, client, sent, swallowed, outcome, tx, work, alive>>
  BY <1>1 DEF Refuse, Take, serverVars
<1>3. client[t] = c /\ Awaited(t, r)
  BY <1>1, <1>2 DEF PoolInv, OneInFlight
<1>4. /\ pc[t] \in Holding \ {"release"} /\ Phase(t) /\ answer[t] = "none"
      /\ pc[t] = "body" => t \in Transaction
  BY <1>3 DEF Awaited, PoolInv, Phases, Exclusive, InTransaction
<1>5. tx[c] = "none" /\ work[c] = {} /\ TypeOK
  BY <1>2 DEF PoolInv, Server
<1>6. /\ pc[t] = "body" => answer'[t] = "none"
      /\ pc[t] = "begin" => answer'[t] = "error"
  BY <1>1, <1>2, <1>3, <1>4, <1>5, ReplyEffect DEF Awaited
<1>7. Phase(t)'
  BY <1>2, <1>3, <1>4, <1>5, <1>6 DEF Phase, Writes, Last, Written
<1> QED BY <1>1, <1>2, <1>5, <1>7, AnswerStep

LEMMA DropStep ==
  ASSUME PoolInv, TypeOK', NEW c \in Connection, Drop(c)
  PROVE  PoolInv'
<1>1. PICK t \in Task : client[t] = c /\ pc[t] \in Holding
  BY DEF Drop, Free
<1>2. /\ UNCHANGED <<pc, client, sent, threw, swallowed, answer, outcome, inbox>>
      /\ alive' = [alive EXCEPT ![c] = FALSE]
      /\ tx' = [tx EXCEPT ![c] = "none"]
      /\ work' = [work EXCEPT ![c] = {}]
  BY DEF Drop, taskVars
<1>3. /\ alive'[c] = FALSE /\ tx'[c] = "none" /\ work'[c] = {}
      /\ \A d \in Connection \ {c} :
           tx'[d] = tx[d] /\ work'[d] = work[d] /\ alive'[d] = alive[d]
  BY <1>2 DEF PoolInv, TypeOK
<1>4. Elsewhere(t, c)
  BY <1>2, <1>3 DEF Elsewhere
<1>5. Phase(t)'
  <2>1. Phase(t)
    BY <1>1 DEF PoolInv, Phases
  <2> QED BY <1>1, <1>2, <1>3, <2>1 DEF Phase, Writes, Last
<1>6. Suspended'
  BY <1>2, SuspendedFrame DEF UnderWay
<1>7. inbox[c] # <<>> =>
        /\ Tail(inbox[c]) = <<>>
        /\ Head(inbox[c]).task = t
        /\ Awaited(t, Head(inbox[c]))'
  BY <1>1, <1>2, Holder DEF Awaited
<1>8. Exclusive' /\ OneInFlight' /\ Phases' /\ Server' /\ Fresh'
  BY <1>1, <1>2, <1>3, <1>4, <1>5, <1>7, Holder, Frame
     DEF PoolInv, Exclusive, Holding
<1> QED BY <1>6, <1>8 DEF PoolInv
-----------------------------------------------------------------------------
(* The invariant, and what follows from it.                                 *)

LEMMA PoolStutter ==
  ASSUME PoolInv, UNCHANGED vars
  PROVE  PoolInv'
BY DEF PoolInv, vars, taskVars, serverVars, TypeOK, Exclusive, OneInFlight,
       Awaited, Suspended, UnderWay, Fresh, Phases, Phase, Written, Server, Free

LEMMA TypeStep ==
  ASSUME TypeOK, Exclusive, [Next]_vars
  PROVE  TypeOK'
<1>1. ASSUME NEW t \in Task, TaskStep(t) \/ Raise(t) \/ Swallow(t)
      PROVE  TypeOK'
  BY <1>1, TypeTask
<1>2. ASSUME NEW c \in Connection,
             Grant(c) \/ Serve(c) \/ Refuse(c) \/ Drop(c)
      PROVE  TypeOK'
  BY <1>2, TypeGrant, TypeServer
<1>3. CASE UNCHANGED vars
  BY <1>3 DEF vars, taskVars, serverVars, TypeOK
<1>4. CASE AllSettled
  BY <1>3, <1>4 DEF AllSettled
<1> QED BY <1>1, <1>2, <1>3, <1>4, TypeAcquireFails DEF Next

LEMMA PoolStep ==
  ASSUME ~Concurrent, ~Shared, PoolInv, [Next]_vars
  PROVE  PoolInv'
<1>0. TypeOK'
  BY TypeStep DEF PoolInv
<1>1. ASSUME NEW t \in Task, TaskStep(t) \/ Raise(t) \/ Swallow(t)
      PROVE  PoolInv'
  <2>1. CASE Raise(t) \/ Swallow(t)
    BY <1>0, <2>1, RaiseStep
  <2>2. CASE Call(t) \/ EnterCallback(t) \/ Send(t)
    BY <1>0, <2>2, CallStep, EnterCallbackStep, SendStep
  <2>3. CASE FinishCallback(t) \/ Catch(t) \/ Conclude(t) \/ Release(t)
    BY <1>0, <2>3, FinishCallbackStep, CatchStep, ConcludeStep, ReleaseStep
  <2> QED BY <1>1, <2>1, <2>2, <2>3 DEF TaskStep
<1>2. ASSUME NEW c \in Connection, Grant(c) \/ Serve(c) \/ Refuse(c) \/ Drop(c)
      PROVE  PoolInv'
  BY <1>0, <1>2, GrantStep, ServeStep, RefuseStep, DropStep
<1>3. CASE AcquireFails
  BY <1>0, <1>3, AcquireFailsStep
<1>4. CASE AllSettled \/ UNCHANGED vars
  BY <1>4, PoolStutter DEF AllSettled
<1> QED BY <1>1, <1>2, <1>3, <1>4 DEF Next

(* Types: whatever the callbacks do, in every pool of exclusive connections *)
(* without side-by-side branches each variable keeps its type.              *)
THEOREM TypeCorrect ==
  ASSUME ~Concurrent, ~Shared
  PROVE  Spec => []TypeOK
<1>1. Init => PoolInv
  BY PoolInit
<1>2. PoolInv /\ [Next]_vars => PoolInv'
  BY PoolStep
<1>3. PoolInv => TypeOK
  BY DEF PoolInv
<1> QED BY <1>1, <1>2, <1>3, PTL DEF Spec

LEMMA WorkIsHolders ==
  ASSUME PoolInv, NEW c \in Connection, NEW w \in work[c]
  PROVE  w[1] \in Holders(c)
<1>1. ~Free(c)
  BY DEF PoolInv, Server
<1>2. PICK t \in Task : client[t] = c /\ pc[t] \in Holding
  BY <1>1 DEF Free
<1>3. tx[c] = "open" /\ Phase(t)
  BY <1>2 DEF PoolInv, Server, Phases
<1>4. w[1] = t
  BY <1>2, <1>3 DEF Phase, Holding, Written, Writes
<1> QED BY <1>2, <1>4 DEF Holders

LEMMA PoolInvIsolated == PoolInv => Isolated
<1> SUFFICES ASSUME PoolInv, NEW c \in Connection
             PROVE  /\ \A t, u \in Holders(c) : t = u
                    /\ Users(c) \subseteq Holders(c)
  BY DEF Isolated
<1>1. \A t, u \in Holders(c) : t = u
  BY DEF PoolInv, Exclusive, Holders
<1>2. ASSUME NEW r \in Requests(c)
      PROVE  r.task \in Holders(c)
  <2>1. inbox[c] \in Seq(Request)
    BY DEF PoolInv, TypeOK
  <2>2. PICK i \in DOMAIN inbox[c] : r = inbox[c][i]
    BY DEF Requests
  <2>3. inbox[c] # <<>>
    BY <2>1, <2>2
  <2>4. Tail(inbox[c]) = <<>>
    BY <2>3 DEF PoolInv, OneInFlight
  <2>5. Len(inbox[c]) = 1
    <3>1. Len(Tail(inbox[c])) = Len(inbox[c]) - 1
      BY <2>1, <2>3, HeadTailProperties, Zenon
    <3>2. Len(Tail(inbox[c])) = 0
      <4>1. Len(<<>>) = 0
        OBVIOUS
      <4> QED BY <2>4, <4>1, Zenon
    <3>3. Len(inbox[c]) \in Nat
      BY <2>1
    <3> QED BY <3>1, <3>2, <3>3
  <2>6. r = Head(inbox[c])
    BY <2>1, <2>2, <2>5
  <2> QED BY <2>3, <2>6, HeadType DEF PoolInv, OneInFlight, Awaited, Holders
<1>3. \A w \in work[c] : w[1] \in Holders(c)
  BY WorkIsHolders
<1> QED BY <1>1, <1>2, <1>3 DEF Users

(* For any number of calls, connections, queries and failures, nested calls *)
(* included: a connection serves one call at a time, and nothing on it      *)
(* comes from anybody else.                                                 *)
THEOREM ConnectionsIsolated ==
  ASSUME ~Concurrent, ~Shared
  PROVE  Spec => []Isolated
<1>1. Init => PoolInv
  BY PoolInit
<1>2. PoolInv /\ [Next]_vars => PoolInv'
  BY PoolStep
<1> QED BY <1>1, <1>2, PoolInvIsolated, PTL DEF Spec

(* For any number of calls, connections, queries and failures: a connection *)
(* that goes back to the pool works and has no transaction open.            *)
THEOREM ConnectionsComeBackClean ==
  ASSUME ~Concurrent, ~Shared
  PROVE  Spec => []PoolClean
<1>1. Init => PoolInv
  BY PoolInit
<1>2. PoolInv /\ [Next]_vars => PoolInv'
  BY PoolStep
<1>3. PoolInv => PoolClean
  BY FreeIsEmpty DEF PoolClean
<1> QED BY <1>1, <1>2, <1>3, PTL DEF Spec

-----------------------------------------------------------------------------
(* Proofs that every call is one atomic change of the store, that its       *)
(* caller is told the truth about it, and that Transactions implements      *)
(* AtomicStore, on top of the invariant of the pool.                        *)

(* What of t's writes is committed. *)
Kept(t) == Writes(t) \cap store

(* When the writes of a task are in the store. *)
Stored(t) ==
  /\ Kept(t) \in {{}, Writes(t)}
  /\ pc[t] \in {"idle", "waiting", "begin", "body"} => Kept(t) = {}
  /\ pc[t] = "query" => sent[t] = 1
  /\ pc[t] \in {"commit", "query"} =>
       /\ answer[t] = "none" /\ alive[client[t]] => Kept(t) = {}
       /\ answer[t] = "none" /\ ~alive[client[t]] => t \in lost \/ Kept(t) = {}
       /\ answer[t] = "ok" /\ ~swallowed[t] => Kept(t) = Writes(t)
       /\ answer[t] = "error" => t \in lost \/ Kept(t) = {}
  /\ pc[t] = "rollback" => t \in lost \/ Kept(t) = {}
  /\ pc[t] \in {"release", "done"} =>
       /\ outcome[t] = "resolved" /\ ~swallowed[t] => Kept(t) = Writes(t)
       /\ outcome[t] = "rejected" => t \in lost \/ Kept(t) = {}

StoreInv == \A t \in Task : Stored(t)

LEMMA StoreInit == Init => StoreInv
BY DEF Init, StoreInv, Stored, Kept

(* A step that leaves a task and its connection as they are. *)
LEMMA StoredFrame ==
  ASSUME NEW t \in Task, Stored(t),
         pc'[t] = pc[t], sent'[t] = sent[t], answer'[t] = answer[t],
         swallowed'[t] = swallowed[t], outcome'[t] = outcome[t],
         pc[t] \in Holding => alive'[client'[t]] = alive[client[t]],
         Kept(t)' = Kept(t), lost \subseteq lost'
  PROVE  Stored(t)'
BY DEF Stored, Holding

(* The steps of the tasks do not touch the store. *)
LEMMA StoreTask ==
  ASSUME PoolInv, StoreInv, ~Concurrent, NEW t \in Task,
         TaskStep(t) \/ Raise(t) \/ Swallow(t)
  PROVE  StoreInv'
<1> USE DEF serverVars
<1>0. TypeOK
  BY DEF PoolInv
<1>1. store' = store /\ lost' = lost
  BY DEF TaskStep, Raise, Swallow, Call, EnterCallback, Send, FinishCallback,
         Catch, Conclude, Release
<1>2. \A u \in Task : Kept(u)' = Kept(u)
  BY <1>1 DEF Kept, Writes, Last
<1>3. pc[t] \in Holding =>
        client[t] \in Connection
        /\ \A u \in Task \ {t} : pc[u] \in Holding => client[u] # client[t]
  BY Holder
<1>4. \A u \in Task : pc[u] \in Holding => client[u] \in Connection
  BY DEF PoolInv, Exclusive
<1>5. ASSUME NEW u \in Task \ {t}
      PROVE  Stored(u)'
  <2>1. /\ pc'[u] = pc[u] /\ sent'[u] = sent[u] /\ answer'[u] = answer[u]
        /\ swallowed'[u] = swallowed[u]
    BY <1>0 DEF TaskStep, Raise, Swallow, Call, EnterCallback, Send, FinishCallback,
            Catch, Conclude, Release, Goto, TypeOK
  <2>2. outcome'[u] = outcome[u]
    BY <1>0 DEF TaskStep, Raise, Swallow, Call, EnterCallback, Send, FinishCallback,
            Catch, Conclude, Release, Settle, TypeOK
  <2>3. pc[u] \in Holding => alive'[client'[u]] = alive[client[u]]
    <3>1. CASE Release(t)
      <4>1. pc[t] \in Holding
        BY <3>1 DEF Release, Goto, Holding
      <4> QED BY <1>0, <1>3, <1>4, <3>1, <4>1 DEF Release, TypeOK
    <3>2. CASE ~Release(t)
      BY <3>2 DEF TaskStep, Raise, Swallow, Call, EnterCallback, Send,
                  FinishCallback, Catch, Conclude
    <3> QED BY <3>1, <3>2
  <2> QED BY <1>1, <1>2, <2>1, <2>2, <2>3, StoredFrame DEF StoreInv
<1>6. Stored(t)'
  <2>0. Stored(t)
    BY DEF StoreInv
  <2>1. CASE Call(t)
    <3>1. pc[t] = "idle" /\ pc'[t] = "waiting"
      BY <1>0, <2>1 DEF Call, Goto, TypeOK
    <3> QED BY <1>1, <1>2, <2>0, <3>1 DEF Stored
  <2>2. CASE EnterCallback(t)
    <3>1. pc[t] = "begin" /\ pc'[t] = "body"
      BY <1>0, <2>2 DEF EnterCallback, Goto, TypeOK
    <3> QED BY <1>1, <1>2, <2>0, <3>1 DEF Stored
  <2>3. CASE Send(t) \/ Raise(t) \/ Swallow(t)
    <3>1. pc[t] = "body" /\ pc'[t] = "body"
      BY <1>0, <2>3 DEF Send, Raise, Swallow
    <3> QED BY <1>1, <1>2, <2>0, <3>1 DEF Stored
  <2>4. CASE FinishCallback(t)
    <3>1. pc[t] = "body" /\ pc'[t] = "commit" /\ answer' = answer
      BY <1>0, <2>4 DEF FinishCallback, Goto, TypeOK
    <3>2. answer[t] = "none"
      BY <3>1 DEF PoolInv, Phases, Phase, Holding
    <3> QED BY <1>1, <1>2, <2>0, <3>1, <3>2 DEF Stored
  <2>5. CASE Catch(t)
    <3>1. /\ pc'[t] = "rollback"
          /\ \/ answer[t] = "error" /\ pc[t] \in {"begin", "commit"}
             \/ pc[t] = "body"
      BY <1>0, <2>5 DEF Catch, Caught, TypeOK
    <3> QED BY <1>1, <1>2, <2>0, <3>1 DEF Stored
  <2>6. CASE Conclude(t)
    <3>1. /\ pc'[t] = "release" /\ answer[t] \in {"ok", "error"}
          /\ swallowed' = swallowed
          /\ \/ pc[t] = "commit" /\ answer[t] = "ok"
             \/ pc[t] \in {"rollback", "query"}
          /\ outcome'[t] = IF answer[t] = "error" \/ pc[t] = "rollback"
                             THEN "rejected" ELSE "resolved"
      BY <1>0, <2>6 DEF Conclude, TypeOK
    <3> QED BY <1>1, <1>2, <2>0, <3>1 DEF Stored
  <2>7. CASE Release(t)
    <3>1. /\ pc[t] = "release" /\ pc'[t] = "done"
          /\ outcome'[t] = outcome[t] /\ swallowed' = swallowed
      BY <1>0, <2>7 DEF Release, Settle, Goto, TypeOK
    <3> QED BY <1>1, <1>2, <2>0, <3>1 DEF Stored
  <2> QED BY <2>1, <2>2, <2>3, <2>4, <2>5, <2>6, <2>7 DEF TaskStep
<1> QED BY <1>5, <1>6 DEF StoreInv

(* The pool lends a connection, or fails to, and the store stays as it is. *)
LEMMA StorePool ==
  ASSUME PoolInv, StoreInv, ~Shared,
         AcquireFails \/ \E c \in Connection : Grant(c)
  PROVE  StoreInv'
<1> USE DEF serverVars
<1>0. TypeOK /\ queue # <<>>
  BY DEF PoolInv, AcquireFails, Grant
<1>1. PICK t \in Task : t = Head(queue)
  BY <1>0 DEF TypeOK
<1>2. store' = store /\ lost' = lost /\ alive' = alive /\ swallowed' = swallowed
      /\ answer' = answer
  BY DEF AcquireFails, Grant
<1>3. \A u \in Task : Kept(u)' = Kept(u)
  BY <1>2 DEF Kept, Writes, Last
<1>4. ASSUME NEW u \in Task \ {t}
      PROVE  Stored(u)'
  <2>1. /\ pc'[u] = pc[u] /\ sent'[u] = sent[u] /\ client'[u] = client[u]
        /\ outcome'[u] = outcome[u]
    BY <1>0, <1>1 DEF AcquireFails, Grant, Goto, Settle, TypeOK
  <2> QED BY <1>2, <1>3, <2>1, StoredFrame DEF StoreInv
<1>5. Stored(t) /\ pc[t] = "waiting" /\ answer[t] = "none"
  BY <1>1 DEF StoreInv, AcquireFails, Grant, Goto, PoolInv, Fresh
<1>6. CASE AcquireFails
  <2>1. pc'[t] = "done" /\ outcome'[t] = "rejected"
    BY <1>0, <1>1, <1>6 DEF AcquireFails, Goto, Settle, TypeOK
  <2> QED BY <1>2, <1>3, <1>4, <1>5, <2>1 DEF StoreInv, Stored
<1>7. ASSUME NEW c \in Connection, Grant(c)
      PROVE  StoreInv'
  <2>1. /\ client'[t] = c
        /\ pc'[t] = "begin" \/ (pc'[t] = "query" /\ sent'[t] = 1)
    BY <1>0, <1>1, <1>7 DEF Grant, Goto, TypeOK
  <2>2. alive[c]
    BY <1>7, FreeIsEmpty DEF Grant
  <2>3. Stored(t)'
    BY <1>2, <1>3, <1>5, <2>1, <2>2 DEF Stored
  <2> QED BY <1>4, <2>3 DEF StoreInv
<1> QED BY <1>6, <1>7

(* The store grows by all writes of one task at a time. *)
LEMMA KeptAfterCommit ==
  ASSUME TypeOK, NEW t \in Task, store' = store \cup Writes(t)
  PROVE  /\ Kept(t)' = Writes(t)
         /\ \A u \in Task \ {t} : Kept(u)' = Kept(u)
BY DEF Kept, Writes, Last

(* What a request that is being carried out commits. *)
LEMMA Committed ==
  ASSUME PoolInv, StoreInv, NEW c \in Connection, NEW t \in Task,
         inbox[c] # <<>>, t = Head(inbox[c]).task, alive[c]
  PROVE  /\ client[t] = c /\ Awaited(t, Head(inbox[c]))
         /\ Head(inbox[c]).kind = "COMMIT" =>
              /\ pc[t] = "commit" /\ Kept(t) = {}
              /\ work[c] = IF tx[c] = "open" THEN Writes(t) ELSE {}
              /\ ~swallowed[t] => tx[c] = "open"
         /\ Head(inbox[c]).kind = "write" /\ tx[c] = "none" =>
              /\ pc[t] = "query" /\ Kept(t) = {}
              /\ {<<t, Head(inbox[c]).k>>} = Writes(t)
         /\ pc[t] = "query" => tx[c] = "none"
<1> DEFINE r == Head(inbox[c])
<1>1. client[t] = c /\ Awaited(t, r)
  BY DEF PoolInv, OneInFlight
<1>2. Phase(t) /\ Stored(t) /\ answer[t] = "none" /\ pc[t] \in Holding \ {"release"}
  BY <1>1 DEF PoolInv, Phases, StoreInv, Awaited
<1>3. ASSUME r.kind = "COMMIT"
      PROVE  /\ pc[t] = "commit" /\ Kept(t) = {}
             /\ work[c] = IF tx[c] = "open" THEN Writes(t) ELSE {}
             /\ ~swallowed[t] => tx[c] = "open"
  <2>1. pc[t] = "commit"
    BY <1>1, <1>2, <1>3 DEF Awaited, Holding
  <2>2. tx[c] # "open" => work[c] = {}
    BY DEF PoolInv, Server
  <2> QED BY <1>1, <1>2, <2>1, <2>2 DEF Phase, Stored
<1>4. ASSUME r.kind = "write", tx[c] = "none"
      PROVE  /\ pc[t] = "query" /\ Kept(t) = {} /\ {<<t, r.k>>} = Writes(t)
  <2>1. pc[t] = "query"
    BY <1>1, <1>2, <1>4 DEF Awaited, Holding, Phase
  <2>2. t \in Query /\ r.k = 1
    BY <1>1, <1>2, <2>1 DEF PoolInv, Exclusive, Stored, Awaited, Holding
  <2> QED BY <1>1, <1>2, <2>1, <2>2 DEF Stored, Writes, Last
<1> QED BY <1>1, <1>2, <1>3, <1>4 DEF Phase

LEMMA StoreServe ==
  ASSUME PoolInv, StoreInv, NEW c \in Connection, Serve(c)
  PROVE  /\ StoreInv'
         /\ \/ store' = store
            \/ \E t \in Task : /\ pc[t] # "done" /\ Kept(t) = {}
                               /\ store' = store \cup Writes(t)
<1>1. PICK r \in Request, t \in Task : r = Head(inbox[c]) /\ t = r.task
  BY HeadType DEF Serve, PoolInv
<1>2. /\ inbox[c] # <<>> /\ alive[c] /\ alive' = alive /\ lost' = lost
      /\ UNCHANGED <<pc, client, sent, swallowed, outcome>>
  BY DEF Serve, Take
<1>3. /\ client[t] = c /\ Awaited(t, r)
      /\ r.kind = "COMMIT" =>
           /\ pc[t] = "commit" /\ Kept(t) = {}
           /\ work[c] = IF tx[c] = "open" THEN Writes(t) ELSE {}
           /\ ~swallowed[t] => tx[c] = "open"
      /\ r.kind = "write" /\ tx[c] = "none" =>
           pc[t] = "query" /\ Kept(t) = {} /\ {<<t, r.k>>} = Writes(t)
      /\ pc[t] = "query" => tx[c] = "none"
  BY <1>1, <1>2, Committed
<1>4. /\ TypeOK /\ Stored(t) /\ answer[t] = "none" /\ pc[t] \in Holding \ {"release"}
      /\ pc[t] = "query" => t \in Query /\ t \notin Transaction
  BY <1>3, TransactionsAssumption
     DEF PoolInv, StoreInv, Awaited, Exclusive
<1>5. PICK ok \in BOOLEAN :
        /\ Reply(r, ok)
        /\ r.kind = "COMMIT" => store' = IF ok THEN store \cup work[c] ELSE store
        /\ r.kind = "write" =>
             store' = IF ok /\ tx[c] = "none" THEN store \cup {<<t, r.k>>} ELSE store
        /\ r.kind \notin {"COMMIT", "write"} => store' = store
  <2>1. \/ r.kind = "BEGIN" /\ ServeBegin(c)
        \/ r.kind = "write" /\ ServeWrite(c)
        \/ r.kind = "COMMIT" /\ ServeCommit(c)
        \/ r.kind = "ROLLBACK" /\ ServeRollback(c)
    BY <1>1 DEF Serve
  <2>2. CASE r.kind = "BEGIN" /\ ServeBegin(c)
    BY <1>1, <2>2 DEF ServeBegin
  <2>3. CASE r.kind = "write" /\ ServeWrite(c)
    BY <1>1, <2>3 DEF ServeWrite
  <2>4. CASE r.kind = "COMMIT" /\ ServeCommit(c)
    BY <1>1, <2>4 DEF ServeCommit
  <2>5. CASE r.kind = "ROLLBACK" /\ ServeRollback(c)
    BY <1>1, <2>5 DEF ServeRollback
  <2> QED BY <2>1, <2>2, <2>3, <2>4, <2>5
<1>6. /\ \A u \in Task \ {t} : answer'[u] = answer[u]
      /\ r.kind = "write" /\ t \in Transaction => answer'[t] = "none"
      /\ ~(r.kind = "write" /\ t \in Transaction) =>
            answer'[t] = IF ok THEN "ok" ELSE "error"
  BY <1>1, <1>4, <1>5, ReplyEffect
<1>7. \/ store' = store
      \/ store' = store \cup Writes(t) /\ Kept(t) = {} /\ pc[t] \in {"commit", "query"}
  BY <1>3, <1>5
<1>8. \A u \in Task \ {t} : Kept(u)' = Kept(u)
  BY <1>4, <1>7, KeptAfterCommit DEF Kept, Writes, Last
<1>9. ASSUME NEW u \in Task \ {t}
      PROVE  Stored(u)'
  BY <1>2, <1>6, <1>8, StoredFrame DEF StoreInv
<1>10. Stored(t)'
  <2>1. Kept(t)' = IF store' = store THEN Kept(t) ELSE Writes(t)
    BY <1>4, <1>7, KeptAfterCommit DEF Kept, Writes, Last
  <2>2. CASE pc[t] = "commit"
    <3>1. r.kind = "COMMIT"
      BY <1>3, <2>2 DEF Awaited
    <3>2. answer'[t] = IF ok THEN "ok" ELSE "error"
      BY <1>6, <3>1
    <3>3. ok /\ ~swallowed[t] => store' = store \cup Writes(t)
      BY <1>3, <1>5, <3>1
    <3>4. ok /\ ~swallowed[t] => Kept(t)' = Writes(t)
      BY <1>4, <3>3, KeptAfterCommit
    <3>5. ~ok => Kept(t)' = {}
      BY <1>3, <1>5, <2>1, <3>1
    <3>6. Kept(t)' \in {{}, Writes(t)}
      BY <1>3, <2>1, <3>1
    <3> QED BY <1>2, <2>2, <3>2, <3>4, <3>5, <3>6 DEF Stored, Writes, Last
  <2>3. CASE pc[t] = "query"
    <3>1. r.kind = "write" /\ t \notin Transaction /\ tx[c] = "none"
      BY <1>3, <1>4, <2>3 DEF Awaited
    <3>2. answer'[t] = IF ok THEN "ok" ELSE "error"
      BY <1>6, <3>1
    <3>3. ok => Kept(t)' = Writes(t)
      BY <1>3, <1>4, <1>5, <3>1, KeptAfterCommit
    <3>4. ~ok => Kept(t)' = {}
      BY <1>3, <1>5, <2>1, <3>1
    <3> QED BY <1>2, <1>4, <2>3, <3>2, <3>3, <3>4 DEF Stored, Writes, Last
  <2>4. CASE pc[t] \notin {"commit", "query"}
    <3>1. Kept(t)' = Kept(t)
      BY <1>3, <1>7, <2>1, <2>4
    <3> QED BY <1>2, <1>4, <2>4, <3>1 DEF Stored, Writes, Last
  <2> QED BY <2>2, <2>3, <2>4
<1> QED BY <1>4, <1>7, <1>9, <1>10 DEF StoreInv

(* A broken connection refuses what was sent on it. *)
LEMMA StoreRefuse ==
  ASSUME PoolInv, StoreInv, NEW c \in Connection, Refuse(c)
  PROVE  StoreInv' /\ store' = store
<1>1. PICK r \in Request, t \in Task : r = Head(inbox[c]) /\ t = r.task
  BY HeadType DEF Refuse, PoolInv
<1>2. /\ inbox[c] # <<>> /\ ~alive[c] /\ alive' = alive /\ lost' = lost
      /\ store' = store /\ Reply(r, FALSE)
      /\ UNCHANGED <<pc, client, sent, swallowed, outcome>>
  BY <1>1 DEF Refuse, Take, serverVars
<1>3. client[t] = c /\ Awaited(t, r)
  BY <1>1, <1>2 DEF PoolInv, OneInFlight
<1>4. TypeOK /\ Stored(t) /\ answer[t] = "none" /\ pc[t] \in Holding \ {"release"}
  BY <1>3 DEF PoolInv, StoreInv, Awaited
<1>5. /\ \A u \in Task \ {t} : answer'[u] = answer[u]
      /\ pc[t] \in {"commit", "query"} => answer'[t] = "error"
  <2>1. pc[t] = "query" => t \notin Transaction
    BY <1>4, TransactionsAssumption DEF PoolInv, Exclusive
  <2>2. pc[t] = "commit" => r.kind # "write"
    BY <1>3 DEF Awaited
  <2> QED BY <1>1, <1>2, <1>4, <2>1, <2>2, ReplyEffect
<1>6. \A u \in Task : Kept(u)' = Kept(u)
  BY <1>2 DEF Kept, Writes, Last
<1>7. ASSUME NEW u \in Task \ {t}
      PROVE  Stored(u)'
  BY <1>2, <1>5, <1>6, StoredFrame DEF StoreInv
<1>8. Stored(t)'
  BY <1>2, <1>3, <1>4, <1>5, <1>6 DEF Stored, Holding, Writes, Last
<1> QED BY <1>2, <1>7, <1>8 DEF StoreInv

(* A connection breaks: what the server had carried out stays. *)
LEMMA StoreDrop ==
  ASSUME PoolInv, StoreInv, NEW c \in Connection, Drop(c)
  PROVE  /\ StoreInv'
         /\ \/ store' = store
            \/ \E t \in Task : /\ pc[t] # "done" /\ Kept(t) = {}
                               /\ store' = store \cup Writes(t)
<1>1. PICK t \in Task : client[t] = c /\ pc[t] \in Holding
  BY DEF Drop, Free
<1>2. /\ UNCHANGED <<pc, client, sent, swallowed, answer, outcome>>
      /\ alive[c] /\ alive' = [alive EXCEPT ![c] = FALSE]
  BY DEF Drop, taskVars
<1>3. TypeOK /\ Stored(t)
  BY DEF PoolInv, StoreInv
<1>4. /\ ~alive'[c]
      /\ \A d \in Connection \ {c} : alive'[d] = alive[d]
  BY <1>2, <1>3 DEF TypeOK
<1>5. \/ store' = store /\ lost' = lost
      \/ /\ store' = store \cup Writes(t) /\ Kept(t) = {}
         /\ pc[t] \in {"commit", "query"} /\ lost' = lost \cup {t}
  <2>1. CASE UNCHANGED <<store, lost>>
    BY <2>1
  <2>2. CASE ~UNCHANGED <<store, lost>>
    <3>1. inbox[c] # <<>>
      BY <2>2 DEF Drop
    <3>2. PICK r \in Request, u \in Task : r = Head(inbox[c]) /\ u = r.task
      BY <1>3, <3>1, HeadType
    <3>3. /\ \/ r.kind = "COMMIT" /\ tx[c] = "open" /\ store' = store \cup work[c]
             \/ r.kind = "write" /\ tx[c] = "none" /\ store' = store \cup {<<u, r.k>>}
          /\ lost' = lost \cup {u}
      BY <2>2, <3>2 DEF Drop
    <3>4. client[u] = c /\ Awaited(u, r)
      BY <1>2, <3>1, <3>2, Committed
    <3>5. u = t
      BY <1>1, <3>4 DEF PoolInv, Exclusive, Awaited
    <3>6. /\ r.kind = "COMMIT" /\ tx[c] = "open" =>
               pc[u] = "commit" /\ Kept(u) = {} /\ work[c] = Writes(u)
          /\ r.kind = "write" /\ tx[c] = "none" =>
               pc[u] = "query" /\ Kept(u) = {} /\ {<<u, r.k>>} = Writes(u)
      <4>1. r.kind = Head(inbox[c]).kind /\ r.k = Head(inbox[c]).k
        BY <3>2
      <4>2. u = Head(inbox[c]).task
        BY <3>2
      <4>3. /\ Head(inbox[c]).kind = "COMMIT" =>
                 /\ pc[u] = "commit" /\ Kept(u) = {}
                 /\ work[c] = IF tx[c] = "open" THEN Writes(u) ELSE {}
            /\ Head(inbox[c]).kind = "write" /\ tx[c] = "none" =>
                 /\ pc[u] = "query" /\ Kept(u) = {}
                 /\ {<<u, Head(inbox[c]).k>>} = Writes(u)
        BY <1>2, <3>1, <4>2, Committed, ZenonT(60)
      <4> QED BY <4>1, <4>3
    <3> QED BY <3>3, <3>5, <3>6
  <2> QED BY <2>1, <2>2
<1>6. \A u \in Task \ {t} : Kept(u)' = Kept(u)
  BY <1>3, <1>5, KeptAfterCommit DEF Kept, Writes, Last
<1>7. ASSUME NEW u \in Task \ {t}
      PROVE  Stored(u)'
  <2>1. pc[u] \in Holding => client[u] \in Connection \ {c}
    BY <1>1 DEF PoolInv, Exclusive
  <2>2. lost \subseteq lost'
    BY <1>5
  <2> QED BY <1>2, <1>4, <1>6, <2>1, <2>2, StoredFrame DEF StoreInv
<1>8. Stored(t)'
  <2>1. CASE store' = store /\ lost' = lost
    <3>1. Kept(t)' = Kept(t)
      BY <2>1 DEF Kept, Writes, Last
    <3> QED BY <1>1, <1>2, <1>3, <1>4, <2>1, <3>1 DEF Stored, Writes, Last
  <2>2. CASE /\ store' = store \cup Writes(t) /\ Kept(t) = {}
             /\ pc[t] \in {"commit", "query"} /\ lost' = lost \cup {t}
    <3>1. Kept(t)' = Writes(t)
      BY <1>3, <2>2, KeptAfterCommit
    <3> QED BY <1>1, <1>2, <1>3, <1>4, <2>2, <3>1 DEF Stored, Writes, Last
  <2> QED BY <1>5, <2>1, <2>2
<1> QED BY <1>5, <1>7, <1>8 DEF StoreInv
-----------------------------------------------------------------------------
(* The invariant, and what follows from it.                                 *)

LEMMA StoreStutter ==
  ASSUME StoreInv, UNCHANGED vars
  PROVE  StoreInv'
BY DEF StoreInv, Stored, Kept, Writes, Last, vars, taskVars, serverVars

LEMMA StoreStep ==
  ASSUME ~Concurrent, ~Shared, PoolInv, StoreInv, [Next]_vars
  PROVE  StoreInv'
<1>1. ASSUME NEW t \in Task, TaskStep(t) \/ Raise(t) \/ Swallow(t)
      PROVE  StoreInv'
  BY <1>1, StoreTask
<1>2. ASSUME NEW c \in Connection, Grant(c) \/ Serve(c) \/ Refuse(c) \/ Drop(c)
      PROVE  StoreInv'
  BY <1>2, StorePool, StoreServe, StoreRefuse, StoreDrop
<1>3. CASE AllSettled \/ UNCHANGED vars
  BY <1>3, StoreStutter DEF AllSettled
<1> QED BY <1>1, <1>2, <1>3, StorePool DEF Next

LEMMA Invariants ==
  ASSUME ~Concurrent, ~Shared
  PROVE  Spec => [](PoolInv /\ StoreInv)
<1>1. Init => PoolInv /\ StoreInv
  BY PoolInit, StoreInit
<1>2. PoolInv /\ StoreInv /\ [Next]_vars => (PoolInv /\ StoreInv)'
  BY PoolStep, StoreStep
<1> QED BY <1>1, <1>2, PTL DEF Spec

(* For any number of calls, connections, queries and failures: what a call  *)
(* writes is in the database as a whole or not at all.                      *)
THEOREM CallsAreAtomic ==
  ASSUME ~Concurrent, ~Shared
  PROVE  Spec => []Atomic
<1>1. StoreInv => Atomic
  BY DEF StoreInv, Stored, Kept, Atomic, Task
<1> QED BY <1>1, Invariants, PTL

(* For any number of calls, connections, queries and failures: who is told  *)
(* that a call succeeded finds all of it in the database.                   *)
THEOREM ResolvedCallsAreCommitted ==
  ASSUME ~Concurrent, ~Shared
  PROVE  Spec => []ResolvedIsCommitted
<1>1. StoreInv => ResolvedIsCommitted
  BY DEF StoreInv, Stored, Kept, ResolvedIsCommitted
<1> QED BY <1>1, Invariants, PTL

(* For any number of calls, connections, queries and failures: who is told  *)
(* that a call failed finds nothing of it, unless the answer to a COMMIT    *)
(* was lost with its connection.                                            *)
THEOREM RejectedCallsAreUndone ==
  ASSUME ~Concurrent, ~Shared
  PROVE  Spec => []RejectedIsUndone
<1>1. StoreInv => RejectedIsUndone
  BY DEF StoreInv, Stored, Kept, RejectedIsUndone
<1> QED BY <1>1, Invariants, PTL
-----------------------------------------------------------------------------
(* The refinement: a call settles with its Release, or with AcquireFails,   *)
(* and commits when the server or a breaking connection adds to the store.  *)

Settled == {t \in Task : pc[t] = "done"}

LEMMA TaskRefines ==
  ASSUME PoolInv, NEW t \in Task, TaskStep(t) \/ Raise(t) \/ Swallow(t)
  PROVE  /\ store' = store
         /\ \/ Settled' = Settled
            \/ t \notin Settled /\ Settled' = Settled \cup {t}
<1> USE DEF serverVars
<1>0. TypeOK
  BY DEF PoolInv
<1>1. store' = store
  BY DEF TaskStep, Raise, Swallow, Call, EnterCallback, Send, FinishCallback,
         Catch, Conclude, Release
<1>2. \A u \in Task \ {t} : pc'[u] = pc[u]
  BY <1>0 DEF TaskStep, Raise, Swallow, Call, EnterCallback, Send,
              FinishCallback, Catch, Conclude, Release, Goto, TypeOK
<1>3. CASE Release(t)
  <2>1. pc[t] = "release" /\ pc'[t] = "done"
    BY <1>0, <1>3 DEF Release, Goto, TypeOK
  <2> QED BY <1>1, <1>2, <2>1 DEF Settled
<1>4. CASE ~Release(t)
  <2>1. (pc[t] = "done") <=> (pc'[t] = "done")
    BY <1>0, <1>4
       DEF TaskStep, Raise, Swallow, Call, EnterCallback, Send, FinishCallback,
           Catch, Caught, Conclude, Goto, TypeOK
  <2> QED BY <1>1, <1>2, <2>1 DEF Settled
<1> QED BY <1>3, <1>4

LEMMA PoolRefines ==
  ASSUME PoolInv, AcquireFails \/ \E c \in Connection : Grant(c)
  PROVE  /\ store' = store
         /\ \/ Settled' = Settled
            \/ \E t \in Task : t \notin Settled /\ Settled' = Settled \cup {t}
<1> USE DEF serverVars
<1>0. TypeOK /\ queue # <<>> /\ store' = store
  BY DEF PoolInv, AcquireFails, Grant
<1>1. PICK t \in Task : t = Head(queue)
  BY <1>0 DEF TypeOK
<1>2. \A u \in Task \ {t} : pc'[u] = pc[u]
  BY <1>0, <1>1 DEF AcquireFails, Grant, Goto, TypeOK
<1>3. pc[t] = "waiting"
  BY <1>1 DEF AcquireFails, Grant, Goto
<1>4. CASE pc'[t] = "done"
  BY <1>0, <1>2, <1>3, <1>4 DEF Settled
<1>5. CASE pc'[t] # "done"
  BY <1>0, <1>2, <1>3, <1>5 DEF Settled
<1> QED BY <1>4, <1>5

LEMMA ServerRefines ==
  ASSUME PoolInv, StoreInv, NEW c \in Connection,
         Serve(c) \/ Refuse(c) \/ Drop(c)
  PROVE  /\ Settled' = Settled
         /\ \/ store' = store
            \/ \E t \in Task : /\ t \notin Settled /\ Kept(t) = {}
                               /\ store' = store \cup Writes(t)
<1>1. Settled' = Settled
  BY DEF Serve, Refuse, Drop, Take, taskVars, Settled
<1>2. \/ store' = store
      \/ \E t \in Task : /\ pc[t] # "done" /\ Kept(t) = {}
                         /\ store' = store \cup Writes(t)
  BY StoreServe, StoreRefuse, StoreDrop
<1> QED BY <1>1, <1>2 DEF Settled

(* What a step may do to the store and to the settled calls. *)
Mapped ==
  \/ Settled' = Settled /\ store' = store
  \/ \E t \in Task : /\ t \notin Settled /\ store' = store
                     /\ Settled' = Settled \cup {t}
  \/ \E t \in Task : /\ t \notin Settled /\ Settled' = Settled
                     /\ Kept(t) = {} /\ store' = store \cup Writes(t)

LEMMA StepRefines ==
  ASSUME ~Concurrent, ~Shared, PoolInv, StoreInv, [Next]_vars
  PROVE  [Abstract!Next]_<<store, Settled>>
<1>1. Mapped
  <2>1. ASSUME NEW t \in Task, TaskStep(t) \/ Raise(t) \/ Swallow(t)
        PROVE  Mapped
    BY <2>1, TaskRefines DEF Mapped
  <2>2. CASE AcquireFails \/ \E c \in Connection : Grant(c)
    BY <2>2, PoolRefines DEF Mapped
  <2>3. ASSUME NEW c \in Connection, Serve(c) \/ Refuse(c) \/ Drop(c)
        PROVE  Mapped
    BY <2>3, ServerRefines DEF Mapped
  <2>4. CASE AllSettled \/ UNCHANGED vars
    BY <2>4 DEF Mapped, AllSettled, Settled, vars, taskVars, serverVars
  <2> QED BY <2>1, <2>2, <2>3, <2>4 DEF Next
<1> QED BY <1>1 DEF Mapped, Abstract!Next, Abstract!Commit, Abstract!Settle, Settled, Kept

(* For any number of calls, connections, queries and failures: seen from    *)
(* the database, every call is one atomic change, made before its promise   *)
(* settles or never.                                                        *)
THEOREM TransactionsImplementStore ==
  ASSUME ~Concurrent, ~Shared
  PROVE  Spec => StoreImplemented
<1>1. Init => Abstract!Init
  BY DEF Init, Abstract!Init
<1>2. PoolInv /\ StoreInv /\ [Next]_vars => [Abstract!Next]_<<store, Settled>>
  BY StepRefines
<1>3. Spec => [](PoolInv /\ StoreInv)
  BY Invariants
<1> QED BY <1>1, <1>2, <1>3, PTL DEF Spec, StoreImplemented, Abstract!Spec, Settled
=============================================================================
