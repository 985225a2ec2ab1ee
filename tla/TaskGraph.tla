------------------------------ MODULE TaskGraph -----------------------------
(***************************************************************************)
(* A graph of the planner from TaskDAGBuilder.build to blocked_by_failure: *)
(* TopologicalSort decides whether it is dispatched, and when a node has   *)
(* failed, in any state a schedule of it may reach, BlockedWorklist marks  *)
(* what depends on it.                                                     *)
(***************************************************************************)
EXTENDS TopologicalSort

VARIABLES failedId, before, status, toVisit, blocked, appended

callVars == <<failedId, before, status, toVisit, blocked, appended>>

Call == INSTANCE BlockedWorklist

AllPending == [n \in Node |-> "pending"]

GraphInit == /\ Init
             /\ failedId = (CHOOSE n \in Node : TRUE)
             /\ before = AllPending
             /\ status = AllPending
             /\ toVisit = {}
             /\ blocked = {}
             /\ appended = 0

blocked_by_failure(f) ==
    /\ outcome = "accepted"
    /\ before = AllPending
    /\ failedId' = f
    /\ before' \in Call!CallStates(deps, f)
    /\ status' = before'
    /\ toVisit' = {f}
    /\ UNCHANGED <<vars, blocked, appended>>

GraphNext == \/ Next /\ UNCHANGED callVars
             \/ \E f \in Node : blocked_by_failure(f)
             \/ Call!Next /\ UNCHANGED vars

GraphSpec == GraphInit /\ [][GraphNext]_<<vars, callVars>>

-----------------------------------------------------------------------------
\* On every graph that was accepted, in any pop order, the call ends with
\* exactly the transitive dependents of the failed node blocked and returned.
ComputesClosure == before # AllPending => Call!ComputesClosure
=============================================================================
