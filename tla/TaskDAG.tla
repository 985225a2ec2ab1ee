------------------------------ MODULE TaskDAG ------------------------------
(***************************************************************************)
(* The queries of agent/dispatch/dag.py: a graph of task nodes, each with  *)
(* the set of node ids it depends on and a TaskStatus.  The operators take *)
(* the graph and the statuses as arguments, so that the abstract scheduler *)
(* and the dispatcher read the same definitions.                           *)
(*                                                                         *)
(* Node ids, titles and JSON parsing are abstracted to the set Node.       *)
(* TaskDAGBuilder rejects an unknown dependency, so dependencies are       *)
(* nodes; TopologicalSort.tla models that check and the cycle check.       *)
(***************************************************************************)
EXTENDS FiniteSets

CONSTANT Node

ASSUME NodeAssumption == IsFiniteSet(Node)

TaskStatus == {"pending", "running", "completed", "failed", "blocked"}

Terminal == {"completed", "failed", "blocked"}

\* depends_on of every node.
Graph == [Node -> SUBSET Node]

\* What topological_sort accepts: no set of nodes each waiting for another
\* member of the set.
Acyclic(deps) ==
    \A S \in SUBSET Node : S # {} => \E n \in S : deps[n] \cap S = {}

\* TaskDAG.runnable_nodes.
Runnable(deps, status) ==
    {n \in Node : status[n] = "pending" /\
                  \A d \in deps[n] : status[d] = "completed"}

AllTerminal(status) == \A n \in Node : status[n] \in Terminal

\* node.status = FAILED, before anything is propagated.
Failed(status, f) == [status EXCEPT ![f] = "failed"]

\* The nodes blocked_by_failure may still change.
Unfinished(status) == {n \in Node : status[n] \in {"pending", "running"}}

\* S holds every unfinished node that depends on f or on a member of S.
ClosedUnder(deps, status, f, S) ==
    \A n \in Unfinished(status) : deps[n] \cap (S \cup {f}) # {} => n \in S

\* Faulty: a blocked node is not put on to_visit.
DirectDependents(deps, status, f) == {n \in Unfinished(status) : f \in deps[n]}

\* TaskDAG.blocked_by_failure(f): the least closed set, which is what its
\* work list computes in any pop order (BlockedWorklist.tla).
TransitiveDependents(deps, status, f) ==
    {n \in Unfinished(status) :
        \A S \in SUBSET Unfinished(status) :
            ClosedUnder(deps, status, f, S) => n \in S}

\* The statuses after blocked_by_failure(f) returned, f being FAILED.
Blocked(deps, status, f) ==
    [n \in Node |-> IF n \in TransitiveDependents(deps, status, f)
                    THEN "blocked" ELSE status[n]]

\* A node leaves PENDING for RUNNING, COMPLETED or FAILED only after all its
\* dependencies have COMPLETED, and they stay so.
StartedInOrder(deps, status) ==
    \A n \in Node : status[n] \in {"running", "completed", "failed"} =>
        \A d \in deps[n] : status[d] = "completed"

\* A node is BLOCKED exactly when one of its dependencies is FAILED or BLOCKED.
BlockedIfDoomed(deps, status) ==
    \A n \in Node :
        status[n] = "blocked" <=> \E d \in deps[n] : status[d] \in {"failed", "blocked"}
=============================================================================
