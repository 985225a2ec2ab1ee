-------------------------- MODULE MCDispatchEvents --------------------------
(***************************************************************************)
(* Instances of DispatchEvents for TLC.                                    *)
(***************************************************************************)
EXTENDS DispatchEvents, TLC

Symmetry == Permutations(Client)
=============================================================================
