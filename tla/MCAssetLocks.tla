---------------------------- MODULE MCAssetLocks ----------------------------
(* Small instances of AssetLocks for TLC.                                   *)
EXTENDS AssetLocks, TLC

CONSTANTS p1, p2, h1, h2

(* Every controller process runs in one container: a dead one is known dead. *)
SameHost == [p \in Process |-> h1]

(* The second process belongs to another container, which cannot tell       *)
(* whether an owner of the first one still lives.                           *)
NewContainer == (p1 :> h1) @@ (p2 :> h2)

(* Requests, aliases and processes of one container are interchangeable; no *)
(* definition orders them.                                                  *)
Symmetry == Permutations(Request) \cup Permutations(Alias) \cup Permutations(Process)

SymmetryOfRequests == Permutations(Request)
=============================================================================
