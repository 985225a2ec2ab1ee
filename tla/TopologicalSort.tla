-------------------------- MODULE TopologicalSort --------------------------
(***************************************************************************)
(* TaskDAG.topological_sort of agent/dispatch/dag.py, by which             *)
(* TaskDAGBuilder.build accepts or rejects the planner's graph.  Kahn's    *)
(* algorithm: one action per pass of its outer loop.                       *)
(*                                                                         *)
(* depends_on is a list: deps[n] is the set of its entries and repeats[n]  *)
(* how many of them occur again.  The queue is FIFO over the dict order in *)
(* the code; here any ready node may be next.                              *)
(***************************************************************************)
EXTENDS TaskDAG, Naturals

CONSTANTS UnknownId,    \* ids that name no node
          MaxRepeats    \* bound on the repeated entries of one depends_on

ASSUME SortAssumption == /\ Node \cap UnknownId = {}
                         /\ MaxRepeats \in Nat

VARIABLES deps, repeats,
          inDegree,     \* in_degree
          ready,        \* queue
          placed,       \* nodes of result; it grows by one node per pass
          outcome

vars == <<deps, repeats, inDegree, ready, placed, outcome>>

TypeOK == /\ deps \in [Node -> SUBSET (Node \cup UnknownId)]
          /\ repeats \in [Node -> 0..MaxRepeats]
          /\ inDegree \in [Node -> Nat]
          /\ ready \subseteq Node
          /\ placed \subseteq Node
          /\ outcome \in {"counting", "sorting", "accepted", "unknown", "cycle"}

Init == /\ deps \in [Node -> SUBSET (Node \cup UnknownId)]
        /\ repeats \in {r \in [Node -> 0..MaxRepeats] : \A n \in Node : deps[n] = {} => r[n] = 0}
        /\ inDegree = [n \in Node |-> 0]
        /\ ready = {}
        /\ placed = {}
        /\ outcome = "counting"

\* Every entry of depends_on counts, the repeated ones too; an unknown one raises.
Count ==
    /\ outcome = "counting"
    /\ IF \E n \in Node : deps[n] \cap UnknownId # {}
       THEN /\ outcome' = "unknown"
            /\ UNCHANGED <<inDegree, ready>>
       ELSE /\ outcome' = "sorting"
            /\ inDegree' = [n \in Node |-> Cardinality(deps[n]) + repeats[n]]
            /\ ready' = {n \in Node : inDegree'[n] = 0}
    /\ UNCHANGED <<deps, repeats, placed>>

\* Faulty: the pass stops at the first candidate it queues.
PlaceOne(n) ==
    LET waiting == {m \in Node : n \in deps[m]}
    IN /\ outcome = "sorting"
       /\ n \in ready
       /\ placed' = placed \cup {n}
       /\ inDegree' = [m \in Node |-> IF m \in waiting THEN inDegree[m] - 1 ELSE inDegree[m]]
       /\ \/ \E m \in waiting : inDegree'[m] = 0 /\ ready' = (ready \ {n}) \cup {m}
          \/ (\A m \in waiting : inDegree'[m] # 0) /\ ready' = ready \ {n}
       /\ UNCHANGED <<deps, repeats, outcome>>

\* One pass: n leaves the queue; whoever depends on it has one fewer to wait
\* for, and joins the queue at zero.
Place(n) ==
    LET waiting == {m \in Node : n \in deps[m]}
    IN /\ outcome = "sorting"
       /\ n \in ready
       /\ placed' = placed \cup {n}
       /\ inDegree' = [m \in Node |-> IF m \in waiting THEN inDegree[m] - 1 ELSE inDegree[m]]
       /\ ready' = (ready \ {n}) \cup {m \in waiting : inDegree'[m] = 0}
       /\ UNCHANGED <<deps, repeats, outcome>>

\* Faulty: the lengths are not compared.
DecideBlindly == /\ outcome = "sorting"
                 /\ ready = {}
                 /\ outcome' = "accepted"
                 /\ UNCHANGED <<deps, repeats, inDegree, ready, placed>>

Decide == /\ outcome = "sorting"
          /\ ready = {}
          /\ outcome' = IF placed = Node THEN "accepted" ELSE "cycle"
          /\ UNCHANGED <<deps, repeats, inDegree, ready, placed>>

Next == Count \/ (\E n \in Node : Place(n)) \/ Decide

Spec == Init /\ [][Next]_vars

-----------------------------------------------------------------------------
\* At every prefix of the result, a placed node's dependencies are placed
\* before it: the result is a topological order.
ResultIsOrdered ==
    [][\A n \in placed' \ placed : deps[n] \subseteq placed]_vars

\* Only acyclic graphs are dispatched: what runnable_nodes, blocked_by_failure
\* and the termination of run() rely on.
AcceptedIsAcyclic == outcome = "accepted" => deps \in Graph /\ Acyclic(deps)

\* Without repeated entries, a rejected graph really has a cycle.
RejectedIsCyclic ==
    outcome = "cycle" /\ (\A n \in Node : repeats[n] = 0) => ~Acyclic(deps)

=============================================================================
