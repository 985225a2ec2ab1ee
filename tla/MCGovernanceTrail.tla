------------------------- MODULE MCGovernanceTrail --------------------------
(***************************************************************************)
(* Instances of GovernanceTrail for TLC.                                   *)
(***************************************************************************)
EXTENDS GovernanceTrail, TLC

Seals == [hash : 1..MaxOps, prev : 0..MaxOps]
Numbers == 1..MaxOps
TwoPayloads == {[hash |-> 1, prev |-> 0], [hash |-> 2, prev |-> 0]}

Records == [ops |-> 4, entries |-> 0, events |-> 3, ids |-> {1, 2}, seals |-> FALSE]
Trail == [ops |-> 3, entries |-> 3, events |-> 1, ids |-> {}, seals |-> TRUE]
RecordsOrTrail == {Records, Trail}

Symmetry == Permutations(Proc)
=============================================================================
