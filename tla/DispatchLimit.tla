--------------------------- MODULE DispatchLimit ----------------------------
(***************************************************************************)
(* What a dispatch run is given: a task graph and the max_workers of       *)
(* AgentDispatcher.                                                        *)
(***************************************************************************)
EXTENDS TaskDAG, Naturals

CONSTANT MaxWorkers   \* max_workers of the dispatcher and of its executor

ASSUME MaxWorkersAssumption == MaxWorkers \in Nat \ {0}
=============================================================================
