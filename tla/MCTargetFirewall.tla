-------------------------- MODULE MCTargetFirewall --------------------------
(* Small instances of TargetFirewall for TLC.                               *)
EXTENDS TargetFirewall, TLC

(* Transactions and helper processes are interchangeable.                   *)
Symmetry == Permutations(Txn) \cup Permutations(Helper)
=============================================================================
