---------------------------- MODULE SaveRestore -----------------------------
(***************************************************************************)
(* What the firewall helper promises of a machine's configuration.  It can *)
(* be saved once for every transaction; one transaction at a time owns it; *)
(* a transaction changes it only from the state that was saved, adding     *)
(* rules of its own; and restoring brings back exactly what was saved, in  *)
(* one step.                                                               *)
(***************************************************************************)
CONSTANTS Txn, Admin, None, Edits

VARIABLES
  config,  \* the set of rules in the configuration
  saved,   \* [Txn -> a set of rules, or None]
  owner    \* who changes or restores it, or None

RulesOf(author) == {author} \X {1, 2}

Init ==
  /\ config = {}
  /\ saved = [t \in Txn |-> None]
  /\ owner = None

Save(t) ==
  /\ saved[t] = None
  /\ saved' = [saved EXCEPT ![t] = config]
  /\ UNCHANGED <<config, owner>>

BeginChange(t) ==
  /\ owner = None /\ saved[t] # None /\ config = saved[t]
  /\ owner' = [txn |-> t, mode |-> "change"]
  /\ UNCHANGED <<config, saved>>

Change(t) ==
  /\ owner = [txn |-> t, mode |-> "change"]
  /\ \E rules \in SUBSET RulesOf(t) : config' = config \cup rules
  /\ UNCHANGED <<saved, owner>>

BeginRestore(t) ==
  /\ saved[t] # None
  /\ owner = None \/ owner.txn = t
  /\ owner' = [txn |-> t, mode |-> "restore"]
  /\ UNCHANGED <<config, saved>>

Restore(t) ==
  /\ owner = [txn |-> t, mode |-> "restore"]
  /\ config' = saved[t]
  /\ UNCHANGED <<saved, owner>>

Release ==
  /\ owner # None
  /\ owner' = None
  /\ UNCHANGED <<config, saved>>

AdministratorEdits ==
  /\ Edits
  /\ config' = config \cup {<<Admin, 1>>}
  /\ UNCHANGED <<saved, owner>>

Next ==
  \/ \E t \in Txn : Save(t) \/ BeginChange(t) \/ Change(t) \/ BeginRestore(t) \/ Restore(t)
  \/ Release \/ AdministratorEdits

Spec == Init /\ [][Next]_<<config, saved, owner>>
=============================================================================
