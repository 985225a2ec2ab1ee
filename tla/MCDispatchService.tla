------------------------- MODULE MCDispatchService -------------------------
(***************************************************************************)
(* Instances of DispatchService for TLC.                                   *)
(***************************************************************************)
EXTENDS DispatchService, TLC

Symmetry == Permutations(Run) \cup Permutations(Request)
=============================================================================
