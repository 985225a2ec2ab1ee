---------------------------- MODULE MCWorkItems -----------------------------
(***************************************************************************)
(* Instances of WorkItems for TLC.                                         *)
(***************************************************************************)
EXTENDS WorkItems, TLC

Symmetry == Permutations(Process) \cup Permutations(Wi)
=============================================================================
