---------------------------- MODULE MCTaskGraph -----------------------------
(***************************************************************************)
(* The instance of TaskGraph for TLC: every list of dependencies over Node *)
(* and one unknown id, and every failure in every state of a schedule.     *)
(***************************************************************************)
EXTENDS TaskGraph
=============================================================================
