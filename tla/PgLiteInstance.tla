--------------------------- MODULE PgLiteInstance ---------------------------
(***************************************************************************)
(* The reference count of PgLiteConnector (connectors/pglite.ts): every     *)
(* client and pool of a connector shares one PGlite instance, which is made *)
(* for the first of them and closed with the last.                          *)
(*                                                                          *)
(* PGlite is modelled from how the connector uses it: an instance reads the *)
(* data directory when it starts, answers queries from its own copy, and    *)
(* has written that copy back when close() is done.                         *)
(***************************************************************************)
EXTENDS Naturals, FiniteSets

CONSTANTS
  Handle,   \* calls of getClient and getPool
  Instance, \* PGlite objects
  Value,    \* rows written, each by one query
  None

ASSUME PgLiteAssumption == IsFiniteSet(Handle) /\ None \notin Instance

VARIABLES
  instance,   \* #instance
  refs,       \* #refs
  state,      \* of each handle; "closing" while its first close() is awaited
  held,       \* the instance a handle was given
  life,       \* of each instance
  memory,     \* the rows an instance has
  disk,       \* the rows in the data directory
  written,    \* rows whose query was answered without an error
  overlapped  \* history: an instance was made while another one was alive

vars == <<instance, refs, state, held, life, memory, disk, written, overlapped>>

HandleState == {"unused", "open", "closing", "closed"}
Life == {"unborn", "starting", "running", "broken", "closed"}

Live(i) == life[i] \in {"starting", "running"}

Open == {h \in Handle : state[h] = "open"}

Init ==
  /\ instance = None
  /\ refs = 0
  /\ state = [h \in Handle |-> "unused"]
  /\ held = [h \in Handle |-> None]
  /\ life = [i \in Instance |-> "unborn"]
  /\ memory = [i \in Instance |-> {}]
  /\ disk = {}
  /\ written = {}
  /\ overlapped = FALSE

-----------------------------------------------------------------------------
(* Plausible errors in the operation below each of them, for the runs that  *)
(* must notice.                                                             *)
AcquireNew(h) == \* no `??='
  /\ state[h] = "unused"
  /\ \E i \in Instance :
       /\ life[i] = "unborn"
       /\ instance' = i
       /\ held' = [held EXCEPT ![h] = i]
       /\ life' = [life EXCEPT ![i] = "starting"]
  /\ state' = [state EXCEPT ![h] = "open"]
  /\ refs' = refs + 1
  /\ UNCHANGED <<memory, disk, written, overlapped>>

(* `#instance ??= new PGlite(...)', one more reference.                     *)
Acquire(h) ==
  /\ state[h] = "unused"
  /\ state' = [state EXCEPT ![h] = "open"]
  /\ refs' = refs + 1
  /\ \/ /\ instance # None
        /\ held' = [held EXCEPT ![h] = instance]
        /\ UNCHANGED <<instance, life, overlapped>>
     \/ /\ instance = None
        /\ \E i \in Instance :
             /\ life[i] = "unborn"
             /\ instance' = i
             /\ held' = [held EXCEPT ![h] = i]
             /\ life' = [life EXCEPT ![i] = "starting"]
        /\ overlapped' = (overlapped \/ \E i \in Instance : Live(i))
  /\ UNCHANGED <<memory, disk, written>>

(* waitReady resolves. *)
Started(i) ==
  /\ life[i] = "starting"
  /\ life' = [life EXCEPT ![i] = "running"]
  /\ memory' = [memory EXCEPT ![i] = disk]
  /\ UNCHANGED <<instance, refs, state, held, disk, written, overlapped>>

(* waitReady rejects; the connector keeps the object it has. *)
StartFails(i) ==
  /\ life[i] = "starting"
  /\ life' = [life EXCEPT ![i] = "broken"]
  /\ UNCHANGED <<instance, refs, state, held, memory, disk, written, overlapped>>

(* A query through a client, a pool or a client of a pool.  None of them    *)
(* asks whether its handle was closed; PGlite refuses queries from the      *)
(* moment its close() is called.                                            *)
Query(h, v) ==
  /\ held[h] = instance /\ instance # None
  /\ life[instance] = "running"
  /\ v \notin written
  /\ memory' = [memory EXCEPT ![instance] = @ \cup {v}]
  /\ written' = written \cup {v}
  /\ UNCHANGED <<instance, refs, state, held, life, disk, overlapped>>

ReleaseTwice(h) == \* no `released'
  /\ state[h] \in {"open", "closed"}
  /\ refs > 1
  /\ refs' = refs - 1
  /\ state' = [state EXCEPT ![h] = "closed"]
  /\ UNCHANGED <<instance, held, life, memory, disk, written, overlapped>>

(* close() and release() of a handle that is not the last.  A second        *)
(* close() is answered at once and changes nothing.                         *)
Release(h) ==
  /\ state[h] = "open"
  /\ refs > 1
  /\ refs' = refs - 1
  /\ state' = [state EXCEPT ![h] = "closed"]
  /\ UNCHANGED <<instance, held, life, memory, disk, written, overlapped>>

ReleaseLastTwice(h) == \* no `released'
  /\ state[h] \in {"open", "closed"}
  /\ refs <= 1
  /\ refs' = refs - 1
  /\ instance' = None
  /\ state' = [state EXCEPT ![h] = "closing"]
  /\ UNCHANGED <<held, life, memory, disk, written, overlapped>>

(* The last one: the instance is forgotten and its close() awaited. *)
ReleaseLast(h) ==
  /\ state[h] = "open"
  /\ refs <= 1
  /\ refs' = refs - 1
  /\ instance' = None
  /\ state' = [state EXCEPT ![h] = "closing"]
  /\ UNCHANGED <<held, life, memory, disk, written, overlapped>>

(* The close() of an instance settles; a broken one has nothing to save. *)
Closed(i) ==
  /\ i # instance
  /\ life[i] \in {"running", "broken"}
  /\ disk' = IF life[i] = "running" THEN memory[i] ELSE disk
  /\ life' = [life EXCEPT ![i] = "closed"]
  /\ state' = [h \in Handle |->
                 IF state[h] = "closing" /\ held[h] = i THEN "closed" ELSE state[h]]
  /\ UNCHANGED <<instance, refs, held, memory, written, overlapped>>

Next ==
  \/ \E h \in Handle : Acquire(h) \/ Release(h) \/ ReleaseLast(h)
  \/ \E h \in Handle, v \in Value : Query(h, v)
  \/ \E i \in Instance : Started(i) \/ StartFails(i) \/ Closed(i)

Spec == Init /\ [][Next]_vars

-----------------------------------------------------------------------------
(* Types.  The count never goes below zero, however often clients and pools *)
(* are closed; a client or pool has something exactly since it was handed   *)
(* out, and only what the connector has made; what has not started yet is   *)
(* empty, and neither an instance nor the directory has a row whose query   *)
(* was not answered.                                                        *)
TypeOK ==
  /\ instance \in Instance \cup {None}
  /\ refs \in Nat
  /\ state \in [Handle -> HandleState]
  /\ held \in [Handle -> Instance \cup {None}]
  /\ life \in [Instance -> Life]
  /\ memory \in [Instance -> SUBSET written]
  /\ disk \subseteq written
  /\ written \subseteq Value
  /\ overlapped \in BOOLEAN
  /\ \A h \in Handle :
       /\ (held[h] = None) <=> (state[h] = "unused")
       /\ held[h] # None => life[held[h]] # "unborn"
  /\ \A i \in Instance : life[i] \in {"unborn", "starting"} => memory[i] = {}

(* Whoever has not called close() yet shares the current instance with      *)
(* everybody else who has not, and nobody has closed it: releases are       *)
(* counted once each, in whatever order clients and pools come and go.      *)
HeldIsOpen ==
  /\ refs = Cardinality(Open)
  /\ (instance = None) <=> (Open = {})
  /\ \A h \in Open : held[h] = instance
  /\ instance # None => life[instance] \notin {"unborn", "closed"}

(* A row whose query was answered is never lost: the running instance has   *)
(* it, and so has the directory when no instance is alive.  The exception   *)
(* is the hazard of release(): it forgets the instance before it has closed,*)
(* and who acquires in that moment gets a second one on the same directory. *)
WritesSurvive ==
  ~overlapped =>
    /\ \A i \in Instance : life[i] = "running" => memory[i] = written
    /\ (\A i \in Instance : life[i] # "running") => disk = written
=============================================================================
