----------------------------- MODULE AtomicStore -----------------------------
(***************************************************************************)
(* What db.transaction promises: each call is one atomic change, made at    *)
(* some moment before the promise of the call settles, or never.            *)
(***************************************************************************)
CONSTANT Task, Writes(_)

VARIABLES
  store,  \* committed writes
  settled \* calls whose promise is settled

Init == store = {} /\ settled = {}

Commit(t) ==
  /\ t \notin settled
  /\ Writes(t) \cap store = {}
  /\ store' = store \cup Writes(t)
  /\ UNCHANGED settled

Settle(t) ==
  /\ t \notin settled
  /\ settled' = settled \cup {t}
  /\ UNCHANGED store

Next == \E t \in Task : Commit(t) \/ Settle(t)

Spec == Init /\ [][Next]_<<store, settled>>
=============================================================================
