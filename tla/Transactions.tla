----------------------------- MODULE Transactions -----------------------------
(***************************************************************************)
(* DB.transaction and plain queries of one DB object, over the connections *)
(* of its connector.                                                        *)
(*                                                                          *)
(* A task is one call of db.transaction(callback), or one query awaited on  *)
(* db itself.  A driver sends the requests of a connection in order, and    *)
(* the server answers them in that order.  The query k of task t is the     *)
(* token <<t, k>>: `work[c]' holds what the open transaction of connection  *)
(* c has written, `store' what is committed.                                *)
(***************************************************************************)
EXTENDS Naturals, Sequences, FiniteSets

CONSTANTS
  Transaction, \* calls of db.transaction
  Query,       \* queries awaited on db
  Connection,  \* connections of the pool
  Caller,      \* the transaction whose callback makes the call, or None
  None,
  Length,      \* how many queries a callback makes
  Concurrent,  \* do callbacks start their queries side by side?
  Shared,      \* pglite: does every client stand for the same connection?
  MaxFaults,   \* bound: errors of the server, the pool or the callbacks
  MaxDrops     \* bound: connections that break while a client is out

Task == Transaction \cup Query

ASSUME TransactionsAssumption ==
  /\ Transaction \cap Query = {}
  /\ None \notin Task \cup Connection
  /\ Caller \in [Task -> Transaction \cup {None}]
  /\ Length \in Nat \ {0}
  /\ Concurrent \in BOOLEAN /\ Shared \in BOOLEAN
  /\ Shared => \E c \in Connection : Connection = {c}
  /\ MaxFaults \in Nat /\ MaxDrops \in Nat

VARIABLES
  pc, client, sent, threw, swallowed, answer, outcome, \* of each task
  queue,             \* tasks waiting in acquireClient
  inbox,             \* requests of each connection the server has not answered
  tx, work, alive,   \* the server's view of each connection
  store,             \* committed writes
  lost,              \* history: tasks whose COMMIT succeeded but broke off
  faults, drops

taskVars   == <<pc, client, sent, threw, swallowed, answer, outcome, queue>>
serverVars == <<tx, work, alive, store, lost>>
vars == <<taskVars, inbox, serverVars, faults, drops>>

Control == {"BEGIN", "COMMIT", "ROLLBACK"}
Request == [task : Task, kind : Control, k : {0}] \cup
           [task : Task, kind : {"write"}, k : 1..Length]

(* The states in which a task has a client and has not closed it. *)
Holding == {"begin", "body", "commit", "rollback", "query", "release"}

Last(t)      == IF t \in Query THEN 1 ELSE Length
Writes(t)    == {t} \X (1..Last(t))
Token        == Task \X (1..Length)
Free(c)      == \A t \in Task : client[t] = c => pc[t] \notin Holding
Requests(c)  == {inbox[c][i] : i \in DOMAIN inbox[c]}
Callees(t)   == {u \in Task : Caller[u] = t}

(* Is some query of the callback, or a call it makes, still unanswered? *)
Awaiting(t) ==
  \/ \E c \in Connection : \E r \in Requests(c) : r.task = t
  \/ \E u \in Callees(t) : pc[u] \notin {"idle", "done"}

Push(c, t, kind, k) ==
  inbox' = [inbox EXCEPT ![c] = Append(@, [task |-> t, kind |-> kind, k |-> k])]

Goto(t, from, to) ==
  /\ pc[t] = from
  /\ pc' = [pc EXCEPT ![t] = to]

Init ==
  /\ pc = [t \in Task |-> "idle"]
  /\ client = [t \in Task |-> None]
  /\ sent = [t \in Task |-> 0]
  /\ threw = [t \in Task |-> FALSE]
  /\ swallowed = [t \in Task |-> FALSE]
  /\ answer = [t \in Task |-> "none"]
  /\ outcome = [t \in Task |-> "pending"]
  /\ queue = <<>>
  /\ inbox = [c \in Connection |-> <<>>]
  /\ tx = [c \in Connection |-> "none"]
  /\ work = [c \in Connection |-> {}]
  /\ alive = [c \in Connection |-> TRUE]
  /\ store = {}
  /\ lost = {}
  /\ faults = 0
  /\ drops = 0

-----------------------------------------------------------------------------
(* The task: db.transaction, or the pool's own query().                     *)

(* A call starts by asking the pool for a connection. *)
Call(t) ==
  /\ \A p \in Task : p = Caller[t] =>
       pc[p] = "body" /\ ~threw[p] /\ (Concurrent \/ ~Awaiting(p))
  /\ Goto(t, "idle", "waiting")
  /\ queue' = Append(queue, t)
  /\ UNCHANGED <<client, sent, threw, swallowed, answer, outcome, inbox,
                 serverVars, faults, drops>>

(* Mutant: the callback runs without BEGIN. *)
GrantWithoutBegin(c) ==
  /\ queue # <<>> /\ Free(c)
  /\ client' = [client EXCEPT ![Head(queue)] = c]
  /\ Goto(Head(queue), "waiting", "body")
  /\ queue' = Tail(queue)
  /\ UNCHANGED <<sent, inbox, threw, swallowed, answer, outcome, serverVars,
                 faults, drops>>

(* The pool lends a connection to the task that has waited longest, and the *)
(* task sends its first request; pglite has nothing to lend and never waits. *)
Grant(c) ==
  /\ queue # <<>>
  /\ Shared \/ Free(c)
  /\ LET t == Head(queue) IN
       /\ client' = [client EXCEPT ![t] = c]
       /\ \/ /\ t \in Transaction
             /\ Goto(t, "waiting", "begin")
             /\ Push(c, t, "BEGIN", 0)
             /\ UNCHANGED sent
          \/ /\ t \in Query
             /\ Goto(t, "waiting", "query")
             /\ Push(c, t, "write", 1)
             /\ sent' = [sent EXCEPT ![t] = 1]
  /\ queue' = Tail(queue)
  /\ UNCHANGED <<threw, swallowed, answer, outcome, serverVars, faults, drops>>

(* What the caller learns when the promise of task t settles. *)
Settle(t, result) ==
  /\ outcome' = [outcome EXCEPT ![t] = result]
  /\ threw' = [u \in Task |->
                 threw[u] \/ (u = Caller[t] /\ result = "rejected")]

(* acquireClient rejects: no client, no transaction. *)
AcquireFails ==
  /\ queue # <<>> /\ ~Shared
  /\ faults < MaxFaults
  /\ Goto(Head(queue), "waiting", "done")
  /\ Settle(Head(queue), "rejected")
  /\ queue' = Tail(queue)
  /\ faults' = faults + 1
  /\ UNCHANGED <<client, sent, swallowed, answer, inbox, serverVars, drops>>

(* BEGIN succeeded: the callback runs. *)
EnterCallback(t) ==
  /\ answer[t] = "ok"
  /\ Goto(t, "begin", "body")
  /\ answer' = [answer EXCEPT ![t] = "none"]
  /\ UNCHANGED <<client, sent, threw, swallowed, outcome, queue, inbox,
                 serverVars, faults, drops>>

(* The callback makes its next query.  The Transaction object is never told *)
(* that the transaction is over: a branch of the callback that is still     *)
(* running when another one failed goes on using its client.                *)
Send(t) ==
  /\ sent[t] < Length
  /\ \/ pc[t] = "body" /\ ~threw[t] /\ (Concurrent \/ ~Awaiting(t))
     \/ /\ Concurrent /\ threw[t]
        /\ client[t] # None
        /\ pc[t] \in {"body", "rollback", "release", "done"}
  /\ sent' = [sent EXCEPT ![t] = @ + 1]
  /\ Push(client[t], t, "write", sent[t] + 1)
  /\ UNCHANGED <<pc, client, threw, swallowed, answer, outcome, queue,
                 serverVars, faults, drops>>

(* The callback raises an error of its own. *)
Raise(t) ==
  /\ pc[t] = "body" /\ ~threw[t] /\ (Concurrent \/ ~Awaiting(t))
  /\ faults < MaxFaults
  /\ threw' = [threw EXCEPT ![t] = TRUE]
  /\ faults' = faults + 1
  /\ UNCHANGED <<pc, client, sent, swallowed, answer, outcome, queue, inbox,
                 serverVars, drops>>

(* The callback catches the error of a query or of a call it made. *)
Swallow(t) ==
  /\ pc[t] = "body" /\ threw[t] /\ ~Concurrent
  /\ threw' = [threw EXCEPT ![t] = FALSE]
  /\ swallowed' = [swallowed EXCEPT ![t] = TRUE]
  /\ UNCHANGED <<pc, client, sent, answer, outcome, queue, inbox, serverVars,
                 faults, drops>>

(* Mutant: COMMIT is not awaited. *)
FinishUnawaited(t) ==
  /\ sent[t] = Length
  /\ ~threw[t] /\ ~Awaiting(t)
  /\ \A u \in Callees(t) : pc[u] = "done"
  /\ Goto(t, "body", "release")
  /\ outcome' = [outcome EXCEPT ![t] = "resolved"]
  /\ Push(client[t], t, "COMMIT", 0)
  /\ UNCHANGED <<client, sent, threw, swallowed, answer, queue, serverVars,
                 faults, drops>>

(* The callback resolves: COMMIT. *)
FinishCallback(t) ==
  /\ sent[t] = Length
  /\ ~threw[t] /\ ~Awaiting(t)
  /\ \A u \in Callees(t) : pc[u] = "done"
  /\ Goto(t, "body", "commit")
  /\ Push(client[t], t, "COMMIT", 0)
  /\ UNCHANGED <<client, sent, threw, swallowed, answer, outcome, queue,
                 serverVars, faults, drops>>

(* What leads from the try block to the catch block. *)
Caught(t) ==
  \/ answer[t] = "error" /\ pc[t] \in {"begin", "commit"}
  \/ threw[t] /\ pc[t] = "body"

(* Mutants: ROLLBACK is not awaited, is not sent, is a COMMIT; BEGIN is     *)
(* outside of the try block.                                                *)
CatchUnawaited(t) ==
  /\ Caught(t)
  /\ pc' = [pc EXCEPT ![t] = "release"]
  /\ outcome' = [outcome EXCEPT ![t] = "rejected"]
  /\ Push(client[t], t, "ROLLBACK", 0)
  /\ UNCHANGED <<client, sent, threw, swallowed, answer, queue, serverVars,
                 faults, drops>>

CatchWithoutRollback(t) ==
  /\ Caught(t)
  /\ pc' = [pc EXCEPT ![t] = "release"]
  /\ outcome' = [outcome EXCEPT ![t] = "rejected"]
  /\ UNCHANGED <<client, sent, threw, swallowed, answer, queue, inbox,
                 serverVars, faults, drops>>

CatchCommitting(t) ==
  /\ Caught(t)
  /\ pc' = [pc EXCEPT ![t] = "rollback"]
  /\ answer' = [answer EXCEPT ![t] = "none"]
  /\ Push(client[t], t, "COMMIT", 0)
  /\ UNCHANGED <<client, sent, threw, swallowed, outcome, queue, serverVars,
                 faults, drops>>

CatchNotBegin(t) ==
  /\ Caught(t) /\ pc[t] # "begin"
  /\ pc' = [pc EXCEPT ![t] = "rollback"]
  /\ answer' = [answer EXCEPT ![t] = "none"]
  /\ Push(client[t], t, "ROLLBACK", 0)
  /\ UNCHANGED <<client, sent, threw, swallowed, outcome, queue, serverVars,
                 faults, drops>>

(* The catch block: whatever failed, ROLLBACK is sent. *)
Catch(t) ==
  /\ Caught(t)
  /\ pc' = [pc EXCEPT ![t] = "rollback"]
  /\ answer' = [answer EXCEPT ![t] = "none"]
  /\ Push(client[t], t, "ROLLBACK", 0)
  /\ UNCHANGED <<client, sent, threw, swallowed, outcome, queue, serverVars,
                 faults, drops>>

(* Mutant: an error of COMMIT is taken for success. *)
ConcludeAnyway(t) ==
  /\ answer[t] # "none"
  /\ pc[t] \in {"commit", "rollback", "query"}
  /\ outcome' = [outcome EXCEPT ![t] =
       IF pc[t] = "rollback" \/ (pc[t] = "query" /\ answer[t] = "error")
         THEN "rejected" ELSE "resolved"]
  /\ pc' = [pc EXCEPT ![t] = "release"]
  /\ UNCHANGED <<client, sent, threw, swallowed, answer, queue, inbox,
                 serverVars, faults, drops>>

(* COMMIT is answered, or ROLLBACK is, or has failed and is logged, or the  *)
(* single query of a plain task is: what remains is the finally block.      *)
Conclude(t) ==
  /\ answer[t] # "none"
  /\ \/ pc[t] = "commit" /\ answer[t] = "ok"
     \/ pc[t] \in {"rollback", "query"}
  /\ outcome' = [outcome EXCEPT ![t] =
       IF answer[t] = "error" \/ pc[t] = "rollback" THEN "rejected"
                                                    ELSE "resolved"]
  /\ pc' = [pc EXCEPT ![t] = "release"]
  /\ UNCHANGED <<client, sent, threw, swallowed, answer, queue, inbox,
                 serverVars, faults, drops>>

(* The finally block: the client goes back to the pool, which replaces a    *)
(* broken connection.  pglite's close() does nothing.                       *)
Release(t) ==
  /\ Goto(t, "release", "done")
  /\ Settle(t, outcome[t])
  /\ LET c == client[t] IN
     \/ /\ alive[c]
        /\ UNCHANGED <<client, alive, inbox>>
     \/ /\ ~alive[c]
        /\ alive' = [alive EXCEPT ![c] = TRUE]
        /\ inbox' = [inbox EXCEPT ![c] = <<>>]
        /\ client' = [u \in Task |-> IF client[u] = c THEN None ELSE client[u]]
  /\ UNCHANGED <<sent, swallowed, answer, queue, tx, work, store, lost,
                 faults, drops>>

-----------------------------------------------------------------------------
(* PostgreSQL and the driver.                                               *)

(* The reply to a request: a write in a callback that fails throws in it,   *)
(* everything else is awaited by db.transaction or by the query itself.     *)
Reply(r, ok) ==
  IF r.kind = "write" /\ r.task \in Transaction
    THEN /\ threw' = [threw EXCEPT ![r.task] = @ \/ ~ok]
         /\ UNCHANGED answer
    ELSE /\ answer' = [answer EXCEPT ![r.task] = IF ok THEN "ok" ELSE "error"]
         /\ UNCHANGED threw

Take(c) ==
  /\ inbox' = [inbox EXCEPT ![c] = Tail(@)]
  /\ UNCHANGED <<pc, client, sent, swallowed, outcome, queue>>

(* BEGIN in an open transaction is a warning, not an error. *)
ServeBegin(c) ==
  /\ tx' = [tx EXCEPT ![c] = IF @ = "none" THEN "open" ELSE @]
  /\ Reply(Head(inbox[c]), TRUE)
  /\ UNCHANGED <<work, store, faults>>

ServeWrite(c) ==
  LET r == Head(inbox[c])
      token == <<r.task, r.k>>
  IN
  \/ /\ tx[c] = "open"
     /\ work' = [work EXCEPT ![c] = @ \cup {token}]
     /\ Reply(r, TRUE)
     /\ UNCHANGED <<tx, store, faults>>
  \/ /\ tx[c] = "none"
     /\ store' = store \cup {token}
     /\ Reply(r, TRUE)
     /\ UNCHANGED <<tx, work, faults>>
  \/ /\ tx[c] = "aborted"
     /\ Reply(r, FALSE)
     /\ UNCHANGED <<tx, work, store, faults>>
  \/ /\ tx[c] # "aborted" /\ faults < MaxFaults
     /\ faults' = faults + 1
     /\ tx' = [tx EXCEPT ![c] = IF @ = "open" THEN "aborted" ELSE @]
     /\ work' = [work EXCEPT ![c] = {}]
     /\ Reply(r, FALSE)
     /\ UNCHANGED store

(* COMMIT ends the transaction in any case.  In an aborted one, or outside  *)
(* of one, it is answered without an error; a constraint checked at the end *)
(* makes it fail.                                                           *)
ServeCommit(c) ==
  /\ tx' = [tx EXCEPT ![c] = "none"]
  /\ work' = [work EXCEPT ![c] = {}]
  /\ \/ /\ store' = store \cup work[c]
        /\ Reply(Head(inbox[c]), TRUE)
        /\ UNCHANGED faults
     \/ /\ tx[c] = "open" /\ faults < MaxFaults
        /\ faults' = faults + 1
        /\ Reply(Head(inbox[c]), FALSE)
        /\ UNCHANGED store

ServeRollback(c) ==
  /\ tx' = [tx EXCEPT ![c] = "none"]
  /\ work' = [work EXCEPT ![c] = {}]
  /\ Reply(Head(inbox[c]), TRUE)
  /\ UNCHANGED <<store, faults>>

Serve(c) ==
  /\ inbox[c] # <<>> /\ alive[c]
  /\ LET kind == Head(inbox[c]).kind IN
       \/ kind = "BEGIN" /\ ServeBegin(c)
       \/ kind = "write" /\ ServeWrite(c)
       \/ kind = "COMMIT" /\ ServeCommit(c)
       \/ kind = "ROLLBACK" /\ ServeRollback(c)
  /\ Take(c)
  /\ UNCHANGED <<alive, lost, drops>>

(* On a broken connection every request fails. *)
Refuse(c) ==
  /\ inbox[c] # <<>> /\ ~alive[c]
  /\ Reply(Head(inbox[c]), FALSE)
  /\ Take(c)
  /\ UNCHANGED <<serverVars, faults, drops>>

(* The connection of a client that is out breaks.  Its transaction is       *)
(* undone, unless the COMMIT on its way, or the write on its way outside of *)
(* a transaction, had already been carried out.                             *)
Drop(c) ==
  /\ alive[c] /\ ~Free(c) /\ ~Shared
  /\ drops < MaxDrops
  /\ drops' = drops + 1
  /\ alive' = [alive EXCEPT ![c] = FALSE]
  /\ tx' = [tx EXCEPT ![c] = "none"]
  /\ work' = [work EXCEPT ![c] = {}]
  /\ \/ UNCHANGED <<store, lost>>
     \/ /\ inbox[c] # <<>>
        /\ LET r == Head(inbox[c]) IN
             /\ \/ /\ r.kind = "COMMIT" /\ tx[c] = "open"
                   /\ store' = store \cup work[c]
                \/ /\ r.kind = "write" /\ tx[c] = "none"
                   /\ store' = store \cup {<<r.task, r.k>>}
             /\ lost' = lost \cup {r.task}
  /\ UNCHANGED <<taskVars, inbox, faults>>

-----------------------------------------------------------------------------
(* Every task has settled, or belongs to a callback that is over. *)
AllSettled ==
  /\ \A t \in Task :
       \/ pc[t] = "done"
       \/ pc[t] = "idle" /\ Caller[t] # None /\ pc[Caller[t]] = "done"
  /\ \A c \in Connection : inbox[c] = <<>>
  /\ UNCHANGED vars

TaskStep(t) ==
  \/ Call(t) \/ EnterCallback(t) \/ Send(t) \/ FinishCallback(t)
  \/ Catch(t) \/ Conclude(t) \/ Release(t)

Next ==
  \/ \E t \in Task : TaskStep(t) \/ Raise(t) \/ Swallow(t)
  \/ \E c \in Connection : Grant(c) \/ Serve(c) \/ Refuse(c) \/ Drop(c)
  \/ AcquireFails
  \/ AllSettled

(* Continuations of the event loop run, the pool hands out a free           *)
(* connection, callbacks come to an end, and the server, or the driver for  *)
(* a broken connection, answers.                                            *)
Fairness ==
  /\ \A t \in Task : WF_vars(TaskStep(t))
  /\ WF_vars(\E c \in Connection : Grant(c))
  /\ \A c \in Connection : WF_vars(Serve(c) \/ Refuse(c))

Spec == Init /\ [][Next]_vars
FairSpec == Spec /\ Fairness

-----------------------------------------------------------------------------
(* Properties.                                                              *)

TypeOK ==
  /\ pc \in [Task -> Holding \cup {"idle", "waiting", "done"}]
  /\ client \in [Task -> Connection \cup {None}]
  /\ sent \in [Task -> 0..Length]
  /\ threw \in [Task -> BOOLEAN]
  /\ swallowed \in [Task -> BOOLEAN]
  /\ answer \in [Task -> {"none", "ok", "error"}]
  /\ outcome \in [Task -> {"pending", "resolved", "rejected"}]
  /\ queue \in Seq(Task)
  /\ inbox \in [Connection -> Seq(Request)]
  /\ tx \in [Connection -> {"none", "open", "aborted"}]
  /\ work \in [Connection -> SUBSET Token]
  /\ alive \in [Connection -> BOOLEAN]
  /\ store \in SUBSET Token
  /\ lost \in SUBSET Task
  /\ faults \in 0..MaxFaults
  /\ drops \in 0..MaxDrops

(* The tasks that have something to do with connection c. *)
Holders(c) == {t \in Task : client[t] = c /\ pc[t] \in Holding}
Users(c)   == {r.task : r \in Requests(c)} \cup {w[1] : w \in work[c]}

(* "The client is reserved exclusively for the transaction": a connection   *)
(* has at most one holder, and whatever is on its way to it or waits in its *)
(* open transaction comes from that holder (db.ts:582, 604-613).            *)
Isolated ==
  \A c \in Connection :
    /\ \A t, u \in Holders(c) : t = u
    /\ Users(c) \subseteq Holders(c)

(* A connection the pool may lend to somebody else works, and has neither a *)
(* transaction open nor anything uncommitted: whatever failed, the finally  *)
(* block comes after COMMIT or ROLLBACK (db.ts:594-613).                    *)
PoolClean ==
  \A c \in Connection :
    Free(c) => tx[c] = "none" /\ work[c] = {} /\ alive[c]

(* "If any query fails, all changes are automatically rolled back": at no   *)
(* time are some writes of a callback committed without the others.         *)
Atomic ==
  \A t \in Transaction : Writes(t) \cap store \in {{}, Writes(t)}

(* A call that resolves has committed everything, unless its callback       *)
(* caught an error and went on (db.ts:594-596).                             *)
ResolvedIsCommitted ==
  \A t \in Task :
    pc[t] = "done" /\ outcome[t] = "resolved" /\ ~swallowed[t] =>
      Writes(t) \subseteq store

(* A call that rejects has committed nothing, unless its COMMIT was carried *)
(* out and the answer got lost (db.ts:597-605).                             *)
RejectedIsUndone ==
  \A t \in Task :
    pc[t] = "done" /\ outcome[t] = "rejected" /\ t \notin lost =>
      Writes(t) \cap store = {}

(* Whatever happens below, the database sees all writes of a call at once,  *)
(* before its promise settles, and none after that.                         *)
Abstract == INSTANCE AtomicStore WITH
  settled <- {t \in Task : pc[t] = "done"}
StoreImplemented == Abstract!Spec

(* Every call that waits for a connection gets an answer, if the callbacks  *)
(* that are nested in one another need no more connections than there are:  *)
(* whatever fails, the client comes back (db.ts:606-613).                   *)
EveryCallSettles ==
  \A t \in Task : pc[t] = "waiting" ~> pc[t] = "done"
=============================================================================
