-------------------------- MODULE BlockedWorklist --------------------------
(***************************************************************************)
(* TaskDAG.blocked_by_failure of agent/dispatch/dag.py as it runs: a set   *)
(* of nodes to visit, popped in any order, and one scan of all the nodes   *)
(* per pop.  The result is the TransitiveDependents of TaskDAG, which      *)
(* Dispatcher uses in one step.                                            *)
(***************************************************************************)
EXTENDS TaskDAG, Naturals

VARIABLES deps, failedId,
          before,        \* the statuses when the method is called
          status,
          toVisit,       \* to_visit
          blocked,       \* the nodes of newly_blocked
          appended       \* its length

vars == <<deps, failedId, before, status, toVisit, blocked, appended>>

TypeOK == /\ deps \in Graph
          /\ failedId \in Node
          /\ before \in [Node -> TaskStatus]
          /\ status \in [Node -> TaskStatus]
          /\ toVisit \subseteq Node
          /\ blocked \subseteq Node
          /\ appended \in Nat

\* The statuses it may find: run() calls it in the states of a schedule, right
\* after it has made a running node FAILED.
CallStates(g, f) ==
    {Failed(earlier, f) : earlier \in {s \in [Node -> TaskStatus] : /\ StartedInOrder(g, s)
                                                                  /\ BlockedIfDoomed(g, s)
                                                                  /\ s[f] = "running"}}

Init ==
    /\ deps \in {g \in Graph : Acyclic(g)}
    /\ failedId \in Node
    /\ before \in CallStates(deps, failedId)
    /\ status = before
    /\ toVisit = {failedId}
    /\ blocked = {}
    /\ appended = 0

\* The nodes one scan marks: dependents of current that are not final.
Marked(current) == {n \in Node : current \in deps[n] /\ n \in Unfinished(status)}

\* Faulty: the marked nodes are not visited in turn.
VisitOnce(current) ==
    /\ current \in toVisit
    /\ status' = [n \in Node |-> IF n \in Marked(current) THEN "blocked" ELSE status[n]]
    /\ blocked' = blocked \cup Marked(current)
    /\ appended' = appended + Cardinality(Marked(current))
    /\ toVisit' = toVisit \ {current}
    /\ UNCHANGED <<deps, failedId, before>>

\* One pop and the scan it causes.
Visit(current) ==
    /\ current \in toVisit
    /\ status' = [n \in Node |-> IF n \in Marked(current) THEN "blocked" ELSE status[n]]
    /\ blocked' = blocked \cup Marked(current)
    /\ appended' = appended + Cardinality(Marked(current))
    /\ toVisit' = (toVisit \ {current}) \cup Marked(current)
    /\ UNCHANGED <<deps, failedId, before>>

Next == \E n \in Node : Visit(n)

Spec == Init /\ [][Next]_vars

-----------------------------------------------------------------------------
Returned == toVisit = {}

\* In any pop order the method ends with exactly the transitive dependents
\* blocked and returned, and every other status as it was.
ComputesClosure ==
    Returned => /\ blocked = TransitiveDependents(deps, before, failedId)
                /\ status = Blocked(deps, before, failedId)

\* node_blocked is emitted once per node: the list has no repetitions, even
\* when a node is reached along several paths.
ListedOnce == appended = Cardinality(blocked)
=============================================================================
