------------------------- MODULE MCProjectRegistry --------------------------
(***************************************************************************)
(* Instances of ProjectRegistry for TLC.                                   *)
(***************************************************************************)
EXTENDS ProjectRegistry, TLC

Symmetry == Permutations(Proc)
=============================================================================
