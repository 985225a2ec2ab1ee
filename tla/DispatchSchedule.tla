-------------------------- MODULE DispatchSchedule --------------------------
(***************************************************************************)
(* What a dispatch run promises its caller (REQ-324, REQ-325), without     *)
(* threads, workers, aborts or events: nodes start once their dependencies *)
(* are COMPLETED, at most MaxWorkers at a time, and the dependents of a     *)
(* failure are blocked in the step that fails it.  A run may be cut short  *)
(* (halted) by an exception that leaves AgentDispatcher.run; the step that *)
(* is cut short may then miss its propagation.                             *)
(***************************************************************************)
EXTENDS DispatchLimit

VARIABLES deps, status, halted

vars == <<deps, status, halted>>

TypeOK == /\ deps \in Graph
          /\ status \in [Node -> TaskStatus]
          /\ halted \in BOOLEAN

Running == {n \in Node : status[n] = "running"}

Init == /\ deps \in {g \in Graph : Acyclic(g)}
        /\ status = [n \in Node |-> "pending"]
        /\ halted = FALSE

\* The step ends normally or is the one that raises.
MayHalt == halted' \in BOOLEAN

Start(n) == /\ ~halted
            /\ n \in Runnable(deps, status)
            /\ Cardinality(Running) < MaxWorkers
            /\ status' = [status EXCEPT ![n] = "running"]
            /\ MayHalt
            /\ UNCHANGED deps

Complete(n) == /\ ~halted
               /\ status[n] = "running"
               /\ status' = [status EXCEPT ![n] = "completed"]
               /\ MayHalt
               /\ UNCHANGED deps

Fail(n) == /\ ~halted
           /\ status[n] = "running"
           /\ status' = Blocked(deps, Failed(status, n), n)
           /\ MayHalt
           /\ UNCHANGED deps

\* node_failed raises before blocked_by_failure is called.
FailUnpropagated(n) == /\ ~halted
                       /\ status[n] = "running"
                       /\ status' = Failed(status, n)
                       /\ halted' = TRUE
                       /\ UNCHANGED deps

Halt == ~halted /\ halted' = TRUE /\ UNCHANGED <<deps, status>>

Next == \/ \E n \in Node : Start(n) \/ Complete(n) \/ Fail(n) \/ FailUnpropagated(n)
        \/ Halt

Spec == Init /\ [][Next]_vars

-----------------------------------------------------------------------------
\* Nodes start in dependency order, whatever the order results arrive in.
DependenciesFirst == StartedInOrder(deps, status)

\* REQ-324: at most MaxWorkers nodes are dispatched at any point.
Ceiling == Cardinality(Running) <= MaxWorkers

\* REQ-325, both directions, while the run has not been cut short: failures
\* block their dependents, and nothing else blocks a node.
BlockedIffDoomed == ~halted => BlockedIfDoomed(deps, status)

\* COMPLETED, FAILED and BLOCKED are final, and a running node is never
\* blocked under its worker: blocked_by_failure's RUNNING case cannot arise.
StatusMoves ==
    [][\A n \in Node : status'[n] # status[n] =>
          \/ status[n] = "pending" /\ status'[n] \in {"running", "blocked"}
          \/ status[n] = "running" /\ status'[n] \in {"completed", "failed"}]_vars

=============================================================================
