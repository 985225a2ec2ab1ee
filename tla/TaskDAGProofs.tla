--------------------------- MODULE TaskDAGProofs ---------------------------
(***************************************************************************)
(* What blocked_by_failure marks, for every graph: lemmas about the        *)
(* operators of TaskDAG that the proofs about both schedulers rest on.     *)
(***************************************************************************)
EXTENDS TaskDAG, TLAPS

\* BLOCKED spreads (blocked_by_failure): what it returns are unfinished nodes,
\* the set is closed under "depends on", and every member has a reason, a
\* dependency in the set or on the failed node itself.
LEMMA TransitiveDependentsFacts ==
    ASSUME NEW g \in Graph, NEW st \in [Node -> TaskStatus], NEW f \in Node
    PROVE  LET T == TransitiveDependents(g, st, f)
           IN /\ T \subseteq Unfinished(st)
              /\ ClosedUnder(g, st, f, T)
              /\ \A n \in T : g[n] \cap (T \cup {f}) # {}
<1> DEFINE T == TransitiveDependents(g, st, f)
           U == Unfinished(st)
           R == {n \in T : g[n] \cap (T \cup {f}) # {}}
<1>1. T \subseteq U
    BY DEF TransitiveDependents
<1>2. \A S \in SUBSET U : ClosedUnder(g, st, f, S) => T \subseteq S
    BY DEF TransitiveDependents
<1>3. ClosedUnder(g, st, f, T)
    <2> SUFFICES ASSUME NEW n \in U, g[n] \cap (T \cup {f}) # {},
                        NEW S \in SUBSET U, ClosedUnder(g, st, f, S)
                 PROVE  n \in S
        BY DEF ClosedUnder, TransitiveDependents
    <2>1. g[n] \cap (S \cup {f}) # {}
        BY <1>2
    <2> QED BY <2>1 DEF ClosedUnder
<1>4. ClosedUnder(g, st, f, R)
    <2> SUFFICES ASSUME NEW n \in U, g[n] \cap (R \cup {f}) # {}
                 PROVE  n \in R
        BY DEF ClosedUnder
    <2>1. g[n] \cap (T \cup {f}) # {}
        OBVIOUS
    <2>2. n \in T
        BY <1>3, <2>1 DEF ClosedUnder
    <2> QED BY <2>1, <2>2
<1>5. T \subseteq R
    BY <1>1, <1>2, <1>4
<1> QED BY <1>1, <1>3, <1>5

\* A step that fails f leaves alone everything but f and pending nodes.
LEMMA FailureSpreadsToPending ==
    ASSUME NEW deps \in Graph, NEW status \in [Node -> TaskStatus], NEW f \in Node,
           StartedInOrder(deps, status), status[f] = "running"
    PROVE  LET st == Failed(status, f)
               T  == TransitiveDependents(deps, st, f)
           IN /\ \A n \in T : status[n] = "pending"
              /\ Blocked(deps, st, f) \in [Node -> TaskStatus]
              /\ Blocked(deps, st, f)[f] = "failed"
              /\ \A n \in Node \ {f} :
                    Blocked(deps, st, f)[n] = IF n \in T THEN "blocked" ELSE status[n]
<1> DEFINE st == Failed(status, f)
           T == TransitiveDependents(deps, st, f)
<1>1. st \in [Node -> TaskStatus] /\ st[f] = "failed" /\ \A n \in Node \ {f} : st[n] = status[n]
    BY DEF Failed, TaskStatus
<1>2. /\ T \subseteq Unfinished(st)
      /\ \A n \in T : deps[n] \cap (T \cup {f}) # {}
    BY <1>1, TransitiveDependentsFacts
<1>3. f \notin T
    BY <1>1, <1>2 DEF Unfinished
<1>4. ASSUME NEW n \in T
      PROVE  status[n] = "pending"
    <2>1. n \in Node \ {f} /\ status[n] \in {"pending", "running"}
        BY <1>1, <1>2, <1>3 DEF Unfinished
    <2>2. PICK d \in deps[n] : d \in T \cup {f}
        BY <1>2
    <2>3. d \in Node /\ status[d] # "completed"
        BY <2>1, <2>2, <1>1, <1>2, <1>3 DEF Unfinished, Graph
    <2> QED BY <2>1, <2>2, <2>3 DEF StartedInOrder
<1>5. /\ Blocked(deps, st, f) \in [Node -> TaskStatus]
      /\ \A n \in Node : Blocked(deps, st, f)[n] = IF n \in T THEN "blocked" ELSE st[n]
    BY <1>1 DEF Blocked, TaskStatus
<1> QED BY <1>1, <1>3, <1>4, <1>5

\* Starting a runnable node, completing or failing a running one: every step of
\* run() keeps the started nodes behind their completed dependencies.
LEMMA OrderIsKept ==
    ASSUME NEW deps \in Graph, NEW status \in [Node -> TaskStatus], NEW n \in Node,
           StartedInOrder(deps, status)
    PROVE  /\ n \in Runnable(deps, status) =>
                 StartedInOrder(deps, [status EXCEPT ![n] = "running"])
           /\ status[n] = "running" =>
                 /\ StartedInOrder(deps, [status EXCEPT ![n] = "completed"])
                 /\ StartedInOrder(deps, Failed(status, n))
                 /\ StartedInOrder(deps, Blocked(deps, Failed(status, n), n))
<1>1. n \in Runnable(deps, status) => StartedInOrder(deps, [status EXCEPT ![n] = "running"])
    BY DEF StartedInOrder, Runnable, Graph
<1>2. ASSUME status[n] = "running"
      PROVE  /\ StartedInOrder(deps, [status EXCEPT ![n] = "completed"])
             /\ StartedInOrder(deps, Failed(status, n))
    BY <1>2 DEF StartedInOrder, Failed, Graph
<1>3. ASSUME status[n] = "running"
      PROVE  StartedInOrder(deps, Blocked(deps, Failed(status, n), n))
    <2> DEFINE st == Failed(status, n)
               T  == TransitiveDependents(deps, st, n)
               new == Blocked(deps, st, n)
    <2>1. /\ \A m \in T : status[m] = "pending"
          /\ new[n] = "failed"
          /\ \A m \in Node \ {n} : new[m] = IF m \in T THEN "blocked" ELSE status[m]
        BY <1>3, FailureSpreadsToPending
    <2> HIDE DEF T
    <2> SUFFICES ASSUME NEW m \in Node, new[m] \in {"running", "completed", "failed"},
                        NEW d \in deps[m]
                 PROVE  new[d] = "completed"
        BY DEF StartedInOrder
    <2>2. status[m] \in {"running", "completed", "failed"}
        BY <1>3, <2>1
    <2>3. d \in Node /\ status[d] = "completed"
        BY <2>2 DEF StartedInOrder, Graph
    <2> QED BY <1>3, <2>1, <2>3
<1> QED BY <1>1, <1>2, <1>3

\* The same steps keep BLOCKED exact, the failing one because it blocks the
\* least closed set.
LEMMA DoomIsKept ==
    ASSUME NEW deps \in Graph, NEW status \in [Node -> TaskStatus], NEW f \in Node,
           StartedInOrder(deps, status), BlockedIfDoomed(deps, status)
    PROVE  /\ f \in Runnable(deps, status) =>
                 BlockedIfDoomed(deps, [status EXCEPT ![f] = "running"])
           /\ status[f] = "running" =>
                 /\ BlockedIfDoomed(deps, [status EXCEPT ![f] = "completed"])
                 /\ BlockedIfDoomed(deps, Blocked(deps, Failed(status, f), f))
<1>1. f \in Runnable(deps, status) => BlockedIfDoomed(deps, [status EXCEPT ![f] = "running"])
    BY DEF BlockedIfDoomed, Runnable, Graph
<1>2. ASSUME status[f] = "running"
      PROVE  BlockedIfDoomed(deps, [status EXCEPT ![f] = "completed"])
    BY <1>2 DEF BlockedIfDoomed, Graph
<1>3. ASSUME status[f] = "running"
      PROVE  BlockedIfDoomed(deps, Blocked(deps, Failed(status, f), f))
    <2> DEFINE st == Failed(status, f)
               T  == TransitiveDependents(deps, st, f)
               new == Blocked(deps, st, f)
    <2>1. /\ \A n \in T : status[n] = "pending"
          /\ new[f] = "failed"
          /\ \A n \in Node \ {f} : new[n] = IF n \in T THEN "blocked" ELSE status[n]
        BY <1>3, FailureSpreadsToPending
    <2>2. st \in [Node -> TaskStatus] /\ \A n \in Node \ {f} : st[n] = status[n]
        BY DEF Failed, TaskStatus
    <2>3. /\ T \subseteq Unfinished(st)
          /\ ClosedUnder(deps, st, f, T)
          /\ \A n \in T : deps[n] \cap (T \cup {f}) # {}
        BY <2>2, TransitiveDependentsFacts
    <2> HIDE DEF T
    <2> SUFFICES ASSUME NEW n \in Node
                 PROVE  new[n] = "blocked" <=> \E d \in deps[n] : new[d] \in {"failed", "blocked"}
        BY DEF BlockedIfDoomed
    <2>4. deps[n] \subseteq Node
        BY DEF Graph
    <2>5. ASSUME new[n] = "blocked"
          PROVE  \E d \in deps[n] : new[d] \in {"failed", "blocked"}
        <3>1. CASE n \in T
            <4>1. PICK d \in deps[n] : d \in T \cup {f}
                BY <3>1, <2>3
            <4>2. d \in Node /\ new[d] \in {"failed", "blocked"}
                BY <4>1, <2>1, <2>4
            <4> QED BY <4>1, <4>2
        <3>2. CASE n \notin T
            <4>1. status[n] = "blocked"
                BY <2>1, <2>5, <3>2
            <4>2. PICK d \in deps[n] : status[d] \in {"failed", "blocked"}
                BY <4>1 DEF BlockedIfDoomed
            <4>3. d \in Node \ {f} /\ d \notin T
                BY <1>3, <2>1, <2>4, <4>2
            <4> QED BY <4>2, <4>3, <2>1
        <3> QED BY <3>1, <3>2
    <2>6. ASSUME NEW d \in deps[n], new[d] \in {"failed", "blocked"}
          PROVE  new[n] = "blocked"
        <3>1. d \in T \cup {f} \/ status[d] \in {"failed", "blocked"}
            BY <2>1, <2>4, <2>6
        <3>2. status[d] # "completed"
            BY <1>3, <2>1, <3>1
        <3>3. status[n] \in {"pending", "blocked"}
            BY <3>2 DEF StartedInOrder, TaskStatus
        <3>4. CASE status[n] = "blocked"
            BY <1>3, <2>1, <3>4
        <3>5. CASE status[n] = "pending"
            <4>1. status[d] \notin {"failed", "blocked"}
                BY <3>5 DEF BlockedIfDoomed
            <4>2. n # f /\ n \in Unfinished(st)
                BY <1>3, <2>2, <3>5 DEF Unfinished
            <4>3. n \in T
                BY <2>3, <3>1, <4>1, <4>2 DEF ClosedUnder
            <4> QED BY <2>1, <4>2, <4>3
        <3> QED BY <3>3, <3>4, <3>5
    <2> QED BY <2>5, <2>6
<1> QED BY <1>1, <1>2, <1>3
=============================================================================
