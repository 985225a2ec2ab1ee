------------------------ MODULE MCTrackedProcesses -------------------------
(***************************************************************************)
(* Instances of TrackedProcesses for TLC.                                  *)
(***************************************************************************)
EXTENDS TrackedProcesses, TLC

Symmetry == Permutations(Pid) \cup Permutations(Runner) \cup Permutations(Operator)
=============================================================================
