----------------------------- MODULE MachineLock -----------------------------
(***************************************************************************)
(* What the bindings, the unresolved transactions and the closeout records *)
(* of the store promise together: each machine has one lock.  A change of  *)
(* a machine runs only for the holder of its lock, one at a time, and the  *)
(* lock is passed on only while nothing is changing the machine.           *)
(***************************************************************************)
CONSTANTS Machine, Holder

VARIABLES
  held,  \* [Machine -> SUBSET Holder]: who holds the lock of a machine
  busy   \* [Machine -> SUBSET Holder]: for whom it is being changed

Init ==
  /\ held = [m \in Machine |-> {}]
  /\ busy = [m \in Machine |-> {}]

Free(m) == held[m] = {} /\ busy[m] = {}

Take(m, h) ==
  /\ Free(m)
  /\ held' = [held EXCEPT ![m] = {h}]
  /\ busy' = busy

TakeAndBegin(m, h) ==
  /\ Free(m)
  /\ held' = [held EXCEPT ![m] = {h}]
  /\ busy' = [busy EXCEPT ![m] = {h}]

Begin(m, h) ==
  /\ held[m] = {h} /\ busy[m] = {}
  /\ busy' = [busy EXCEPT ![m] = {h}]
  /\ held' = held

End(m) ==
  /\ busy' = [busy EXCEPT ![m] = {}]
  /\ held' = held

Leave(m) ==
  /\ busy[m] = {}
  /\ held' = [held EXCEPT ![m] = {}]
  /\ busy' = busy

Next ==
  \E m \in Machine :
     \/ End(m) \/ Leave(m)
     \/ \E h \in Holder : Take(m, h) \/ TakeAndBegin(m, h) \/ Begin(m, h)

Spec == Init /\ [][Next]_<<held, busy>>
=============================================================================
