---------------------------- MODULE MCDispatcher ----------------------------
(***************************************************************************)
(* Instances of Dispatcher for TLC.  Init ranges over every acyclic graph  *)
(* on Node and every assignment of roles, so nodes, roles and workers are  *)
(* interchangeable.                                                        *)
(***************************************************************************)
EXTENDS Dispatcher, TLC

Symmetry == Permutations(Node) \cup Permutations(Role) \cup Permutations(Worker)
=============================================================================
