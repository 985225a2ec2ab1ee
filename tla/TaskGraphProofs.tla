-------------------------- MODULE TaskGraphProofs --------------------------
(***************************************************************************)
(* What an accepted graph is, and what a rejected one is, for every set of *)
(* nodes and every list of dependencies; that the work list of             *)
(* blocked_by_failure computes the least closed set, for every graph,      *)
(* every statuses and every pop order; and that the composition keeps what *)
(* its parts promise: the sort hands the call only graphs it can work on.  *)
(***************************************************************************)
EXTENDS TaskGraph, FiniteSetTheorems, TLAPS

-----------------------------------------------------------------------------
(* The topological sort.                                                   *)

\* No cycle among the nodes of S.
AcyclicOn(S) == \A T \in SUBSET S : T # {} => \E n \in T : deps[n] \cap T = {}

Counted == outcome \in {"sorting", "accepted", "cycle"}

SortInv ==
    /\ TypeOK
    /\ ~Counted => placed = {} /\ ready = {}
    /\ Counted => deps \in Graph
    /\ Counted => \A n \in Node : inDegree[n] = Cardinality(deps[n] \ placed) + repeats[n]
    /\ Counted => \A n \in Node : inDegree[n] = 0 <=> n \in ready \cup placed
    /\ ready \cap placed = {}
    /\ AcyclicOn(placed)
    /\ outcome = "accepted" => placed = Node
    /\ outcome = "cycle" => ready = {} /\ placed # Node

LEMMA FiniteDeps ==
    ASSUME NEW S, S \subseteq Node
    PROVE  IsFiniteSet(S) /\ Cardinality(S) \in Nat
BY NodeAssumption, FS_Subset, FS_CardinalityType

\* A node in the queue or in the result waits for nothing that is not placed.
LEMMA NothingLeft ==
    ASSUME SortInv, Counted, NEW n \in Node, n \in ready \cup placed
    PROVE  deps[n] \subseteq placed
<1>1. deps[n] \subseteq Node /\ repeats[n] \in Nat /\ inDegree[n] = 0
    BY SortAssumption DEF SortInv, Graph, TypeOK
<1>2. IsFiniteSet(deps[n] \ placed) /\ Cardinality(deps[n] \ placed) \in Nat
    BY <1>1, FiniteDeps
<1>3. Cardinality(deps[n] \ placed) = 0
    BY <1>1, <1>2 DEF SortInv
<1> QED BY <1>2, <1>3, FS_EmptySet

LEMMA CountKeeps == SortInv /\ Count => SortInv'
<1> SUFFICES ASSUME SortInv, Count PROVE SortInv'
    OBVIOUS
<1>1. CASE outcome' = "unknown"
    BY <1>1 DEF SortInv, Count, TypeOK, Counted, AcyclicOn
<1>2. CASE outcome' = "sorting"
    <2>1. /\ deps' = deps /\ repeats' = repeats /\ placed' = {} /\ placed = {}
          /\ inDegree' = [n \in Node |-> Cardinality(deps[n]) + repeats[n]]
          /\ ready' = {n \in Node : inDegree'[n] = 0}
          /\ \A n \in Node : deps[n] \cap UnknownId = {}
        BY <1>2 DEF Count, SortInv, Counted
    <2>2. deps \in Graph
        BY <2>1 DEF SortInv, TypeOK, Graph
    <2>3. \A n \in Node : Cardinality(deps[n]) \in Nat /\ repeats[n] \in Nat
        BY <2>2, FiniteDeps, SortAssumption DEF SortInv, TypeOK, Graph
    <2>4. inDegree' \in [Node -> Nat]
        BY <2>1, <2>3
    <2>5. TypeOK'
        BY <1>2, <2>1, <2>4 DEF SortInv, TypeOK
    <2>6. \A n \in Node : inDegree'[n] = Cardinality(deps'[n] \ placed') + repeats'[n]
        <3>1. \A n \in Node : deps[n] \ {} = deps[n]
            OBVIOUS
        <3> QED BY <2>1, <3>1
    <2>7. AcyclicOn(placed)'
        BY <2>1 DEF AcyclicOn
    <2> QED BY <1>2, <2>1, <2>2, <2>5, <2>6, <2>7 DEF SortInv, Counted
<1> QED BY <1>1, <1>2 DEF Count

LEMMA PlaceKeeps ==
    ASSUME SortInv, NEW n \in Node, Place(n)
    PROVE  SortInv'
<1> DEFINE waiting == {m \in Node : n \in deps[m]}
<1>1. /\ outcome = "sorting" /\ outcome' = outcome /\ deps' = deps /\ repeats' = repeats
      /\ n \in ready /\ n \notin placed /\ placed' = placed \cup {n}
      /\ inDegree' = [m \in Node |-> IF m \in waiting THEN inDegree[m] - 1 ELSE inDegree[m]]
      /\ ready' = (ready \ {n}) \cup {m \in waiting : inDegree'[m] = 0}
      /\ deps \in Graph
    BY DEF Place, SortInv, Counted
<1>2. deps[n] \subseteq placed /\ \A m \in placed : deps[m] \subseteq placed /\ n \notin deps[m]
    BY <1>1, NothingLeft DEF Counted, SortInv, TypeOK
\* Placing n takes exactly n from what each waiting node waits for.
<1>3. ASSUME NEW m \in Node
      PROVE  /\ inDegree'[m] = Cardinality(deps[m] \ placed') + repeats[m]
             /\ inDegree'[m] \in Nat
             /\ m \notin waiting => inDegree'[m] = inDegree[m]
             /\ m \in waiting => inDegree[m] # 0
    <2> DEFINE left == deps[m] \ placed
    <2>1. left \subseteq Node /\ IsFiniteSet(left) /\ Cardinality(left) \in Nat
        BY <1>1, FiniteDeps DEF Graph
    <2>2. inDegree[m] = Cardinality(left) + repeats[m] /\ repeats[m] \in Nat
        BY <1>1, SortAssumption DEF SortInv, Counted, TypeOK
    <2>3. deps[m] \ placed' = left \ {n}
        BY <1>1
    <2>4. CASE n \in deps[m]
        <3>1. n \in left
            BY <1>1, <2>4
        <3>2. Cardinality(left \ {n}) = Cardinality(left) - 1 /\ Cardinality(left \ {n}) \in Nat
            BY <2>1, <3>1, FS_RemoveElement, FS_CardinalityType
        <3>3. inDegree'[m] = inDegree[m] - 1
            BY <1>1, <2>4
        <3>4. Cardinality(deps[m] \ placed') = Cardinality(left) - 1
            BY <2>3, <3>2
        <3>5. Cardinality(left) # 0
            BY <2>1, <3>1, FS_EmptySet
        <3> HIDE DEF left
        <3> QED BY <2>1, <2>2, <2>4, <3>2, <3>3, <3>4, <3>5
    <2>5. CASE n \notin deps[m]
        <3>1. left \ {n} = left
            BY <2>5
        <3>2. inDegree'[m] = inDegree[m]
            BY <1>1, <2>5
        <3> QED BY <2>1, <2>2, <2>3, <2>5, <3>1, <3>2
    <2> QED BY <2>4, <2>5
<1>4. TypeOK'
    <2>1. inDegree' \in [Node -> Nat]
        BY <1>1, <1>3
    <2> QED BY <1>1, <2>1 DEF SortInv, TypeOK
<1>5. ready' \cap placed' = {}
    BY <1>1, <1>2 DEF SortInv
<1>6. \A m \in Node : inDegree'[m] = 0 <=> m \in ready' \cup placed'
    <2>1. ASSUME NEW m \in Node, m \in waiting PROVE inDegree'[m] = 0 <=> m \in ready' \cup placed'
        <3>1. m \notin ready /\ m \notin placed /\ m # n
            BY <1>1, <1>2, <1>3, <2>1 DEF SortInv, Counted
        <3> QED BY <1>1, <2>1, <3>1
    <2>2. ASSUME NEW m \in Node, m \notin waiting PROVE inDegree'[m] = 0 <=> m \in ready' \cup placed'
        BY <1>1, <1>3, <2>2 DEF SortInv, Counted
    <2> QED BY <2>1, <2>2
<1>7. AcyclicOn(placed)'
    <2> SUFFICES ASSUME NEW T \in SUBSET placed', T # {} PROVE \E m \in T : deps[m] \cap T = {}
        BY <1>1 DEF AcyclicOn
    <2>1. CASE T = {n}
        BY <1>1, <1>2, <2>1
    <2>2. CASE T # {n}
        <3>1. T \ {n} # {} /\ T \ {n} \in SUBSET placed
            BY <1>1, <2>2
        <3>2. PICK m \in T \ {n} : deps[m] \cap (T \ {n}) = {}
            BY <3>1 DEF SortInv, AcyclicOn
        <3> QED BY <1>2, <3>1, <3>2
    <2> QED BY <2>1, <2>2
<1> QED BY <1>1, <1>3, <1>4, <1>5, <1>6, <1>7 DEF SortInv, Counted

LEMMA SortInvariant == Spec => []SortInv
<1>1. Init => SortInv
    BY SortAssumption DEF Init, SortInv, TypeOK, Counted, AcyclicOn
<1>2. SortInv /\ [Next]_vars => SortInv'
    <2>1. SortInv /\ Decide => SortInv'
        BY DEF SortInv, Decide, TypeOK, Counted, AcyclicOn
    <2>2. SortInv /\ UNCHANGED vars => SortInv'
        BY DEF SortInv, vars, TypeOK, Counted, AcyclicOn
    <2> QED BY <2>1, <2>2, CountKeeps, PlaceKeeps DEF Next
<1> QED BY <1>1, <1>2, PTL DEF Spec

\* build() hands the dispatcher acyclic graphs only.
THEOREM AcceptedGraphsAreAcyclic == Spec => []AcceptedIsAcyclic
<1>1. SortInv => AcceptedIsAcyclic
    BY DEF SortInv, AcceptedIsAcyclic, Counted, AcyclicOn, Acyclic
<1> QED BY <1>1, SortInvariant, PTL

\* Apart from repeated entries, build() rejects no acyclic graph.
THEOREM RejectedGraphsAreCyclic == Spec => []RejectedIsCyclic
<1>1. SortInv => RejectedIsCyclic
    <2> SUFFICES ASSUME SortInv, outcome = "cycle", \A n \in Node : repeats[n] = 0
                 PROVE  ~Acyclic(deps)
        BY DEF RejectedIsCyclic
    <2> DEFINE S == Node \ placed
    <2>1. S # {} /\ S \in SUBSET Node
        BY DEF SortInv, TypeOK
    <2>2. ASSUME NEW n \in S PROVE deps[n] \cap S # {}
        <3>1. inDegree[n] # 0 /\ inDegree[n] = Cardinality(deps[n] \ placed) + 0
            BY DEF SortInv, Counted
        <3>2. deps[n] \subseteq Node
            BY DEF SortInv, Counted, Graph
        <3>3. deps[n] \ placed # {}
            BY <3>1, FS_EmptySet
        <3> QED BY <3>2, <3>3
    <2> QED BY <2>1, <2>2 DEF Acyclic
<1> QED BY <1>1, SortInvariant, PTL

\* The result lists every node after its dependencies.
THEOREM ResultFollowsDependencies == Spec => ResultIsOrdered
<1>1. SortInv /\ [Next]_vars => [\A n \in placed' \ placed : deps[n] \subseteq placed]_vars
    <2> SUFFICES ASSUME SortInv, Next, NEW n \in placed' \ placed
                 PROVE  deps[n] \subseteq placed
        OBVIOUS
    <2>1. PICK m \in Node : Place(m)
        BY DEF Next, Count, Decide
    <2>2. n = m /\ n \in ready /\ Counted
        BY <2>1 DEF Place, Counted
    <2> QED BY <2>2, NothingLeft
<1> QED BY <1>1, SortInvariant, PTL DEF Spec, ResultIsOrdered

-----------------------------------------------------------------------------
(* The work list.                                                          *)

Doomed == Call!TransitiveDependents(deps, before, failedId)

WorkInv ==
    /\ Call!TypeOK
    /\ blocked \subseteq Doomed
    /\ toVisit \subseteq blocked \cup {failedId}
    /\ status = [n \in Node |-> IF n \in blocked THEN "blocked" ELSE before[n]]
    /\ \A n \in Call!Unfinished(before) :
          deps[n] \cap ((blocked \cup {failedId}) \ toVisit) # {} => n \in blocked
    /\ appended = Cardinality(blocked)

\* The call counts as its composition does.
LEMMA SameCount == \A S : Call!Cardinality(S) = Cardinality(S)
BY DEF Cardinality, Call!Cardinality

\* A scan marks the unfinished dependents that were not blocked yet.
LEMMA WhatIsMarked ==
    ASSUME WorkInv, NEW current
    PROVE  Call!Marked(current) = {n \in Call!Unfinished(before) : current \in deps[n]} \ blocked
BY DEF WorkInv, Call!TypeOK, Call!Marked, Call!Unfinished

\* A dependent of a doomed node, or of the failed one, is doomed.
LEMMA DoomSpreads ==
    ASSUME WorkInv, NEW current \in blocked \cup {failedId},
           NEW n \in Call!Unfinished(before), current \in deps[n]
    PROVE  n \in Doomed
<1> SUFFICES ASSUME NEW S \in SUBSET Call!Unfinished(before), Call!ClosedUnder(deps, before, failedId, S)
             PROVE  n \in S
    BY DEF Doomed, Call!TransitiveDependents
<1>1. current \in S \cup {failedId}
    BY DEF WorkInv, Doomed, Call!TransitiveDependents
<1> QED BY <1>1 DEF Call!ClosedUnder

LEMMA VisitKeeps ==
    ASSUME WorkInv, NEW current \in Node, Call!Visit(current)
    PROVE  WorkInv'
<1> DEFINE more == Call!Marked(current)
<1>1. /\ current \in toVisit /\ more \subseteq Node
      /\ status' = [n \in Node |-> IF n \in more THEN "blocked" ELSE status[n]]
      /\ blocked' = blocked \cup more
      /\ appended' = appended + Cardinality(more)
      /\ toVisit' = (toVisit \ {current}) \cup more
      /\ UNCHANGED <<deps, failedId, before>>
    BY SameCount DEF Call!Visit, Call!Marked
<1>2. more = {n \in Call!Unfinished(before) : current \in deps[n]} \ blocked
    BY WhatIsMarked
<1>3. more \subseteq Doomed /\ more \cap blocked = {}
    BY <1>1, <1>2, DoomSpreads DEF WorkInv
<1>4. /\ IsFiniteSet(more) /\ IsFiniteSet(blocked)
      /\ Cardinality(more) \in Nat /\ Cardinality(blocked) \in Nat
    BY <1>1, NodeAssumption, FS_Subset, FS_CardinalityType DEF WorkInv, Call!TypeOK
<1>5. appended' = Cardinality(blocked')
    <2>1. Cardinality(blocked \cup more)
            = Cardinality(blocked) + Cardinality(more) - Cardinality(blocked \cap more)
        BY <1>4, FS_Union
    <2>2. Cardinality(blocked \cap more) = 0
        <3>1. blocked \cap more = {}
            BY <1>3
        <3> QED BY <3>1, FS_EmptySet
    <2> QED BY <1>1, <1>4, <2>1, <2>2 DEF WorkInv
<1>6. Call!TypeOK'
    BY <1>1, <1>4 DEF WorkInv, Call!TypeOK, Call!TaskStatus
<1>7. ASSUME NEW n \in Call!Unfinished(before),
             deps[n] \cap ((blocked' \cup {failedId}) \ toVisit') # {}
      PROVE  n \in blocked'
    BY <1>1, <1>2, <1>7 DEF WorkInv
<1>8. status' = [n \in Node |-> IF n \in blocked' THEN "blocked" ELSE before[n]]
    BY <1>1 DEF WorkInv
<1> HIDE DEF more
<1> QED BY <1>1, <1>3, <1>5, <1>6, <1>7, <1>8 DEF WorkInv, Doomed

LEMMA WorkInvariant == Call!Spec => []WorkInv
<1>1. Call!Init => WorkInv
    <2> SUFFICES ASSUME Call!Init PROVE WorkInv
        OBVIOUS
    <2>1. before \in [Node -> Call!TaskStatus]
        BY DEF Call!Init, Call!CallStates, Call!Failed, Call!TaskStatus
    <2> QED BY <2>1, FS_EmptySet DEF Call!Init, WorkInv, Call!TypeOK
<1>2. WorkInv /\ UNCHANGED Call!vars => WorkInv'
    BY DEF WorkInv, Call!vars, Call!TypeOK, Doomed
<1>3. WorkInv /\ [Call!Next]_Call!vars => WorkInv'
    BY <1>2, VisitKeeps DEF Call!Next
<1> QED BY <1>1, <1>3, PTL DEF Call!Spec

\* A set that is closed and holds doomed nodes only holds all of them.
LEMMA NothingToVisit ==
    ASSUME WorkInv, toVisit = {}
    PROVE  /\ blocked = Call!TransitiveDependents(deps, before, failedId)
           /\ status = Call!Blocked(deps, before, failedId)
<1>1. blocked \in SUBSET Call!Unfinished(before) /\ Call!ClosedUnder(deps, before, failedId, blocked)
    BY DEF WorkInv, Call!ClosedUnder, Doomed, Call!TransitiveDependents
<1>2. blocked = Doomed
    BY <1>1 DEF WorkInv, Doomed, Call!TransitiveDependents
<1> QED BY <1>2 DEF WorkInv, Call!Blocked, Doomed

\* In every pop order, blocked_by_failure blocks and returns the transitive
\* dependents of the failed node: Dispatcher may take it as one step.
THEOREM WorklistComputesClosure == Call!Spec => []Call!ComputesClosure
<1>1. WorkInv => Call!ComputesClosure
    BY NothingToVisit DEF Call!ComputesClosure, Call!Returned
<1> QED BY <1>1, WorkInvariant, PTL

\* Every blocked node is reported once.
THEOREM BlockedAreListedOnce == Call!Spec => []Call!ListedOnce
<1>1. WorkInv => Call!ListedOnce
    BY SameCount DEF WorkInv, Call!ListedOnce
<1> QED BY <1>1, WorkInvariant, PTL

-----------------------------------------------------------------------------
(* The sort and the call.                                                  *)

allVars == <<vars, callVars>>

GraphInv == /\ SortInv
            /\ before = AllPending => toVisit = {} /\ blocked = {} /\ appended = 0
            /\ before # AllPending => outcome = "accepted" /\ WorkInv

\* The sort's invariant is kept by the sort's steps, and by the call, which leaves its variables alone.
LEMMA SortStepKeeps ==
    ASSUME SortInv, [Next]_vars
    PROVE  SortInv'
<1>1. CASE Count
    BY <1>1, CountKeeps
<1>2. CASE \E n \in Node : Place(n)
    BY <1>2, PlaceKeeps
<1>3. CASE Decide
    BY <1>3 DEF Decide, SortInv, TypeOK, Counted, AcyclicOn
<1>4. CASE UNCHANGED vars
    BY <1>4 DEF vars, SortInv, TypeOK, Counted, AcyclicOn
<1> QED BY <1>1, <1>2, <1>3, <1>4 DEF Next

\* An accepted graph is sorted no further.
LEMMA SortingIsOver ==
    ASSUME Next
    PROVE  outcome # "accepted"
BY DEF Next, Count, Place, Decide

\* The call starts as BlockedWorklist does.
LEMMA CallBegins ==
    ASSUME GraphInv, NEW f \in Node, blocked_by_failure(f)
    PROVE  WorkInv' /\ before' # AllPending
<1>1. deps \in Graph /\ UNCHANGED <<deps, outcome>>
    BY DEF GraphInv, SortInv, Counted, blocked_by_failure, vars
<1>2. PICK earlier \in [Node -> TaskStatus] : before' = Failed(earlier, f)
    BY DEF blocked_by_failure, Call!CallStates, Call!Failed, Call!TaskStatus, Failed, TaskStatus
<1>3. before' \in [Node -> TaskStatus] /\ before'[f] = "failed"
    BY <1>2 DEF Failed, TaskStatus
<1>4. /\ failedId' = f /\ status' = before' /\ toVisit' = {f}
      /\ blocked' = {} /\ appended' = 0
    BY DEF GraphInv, blocked_by_failure
<1>5. Cardinality({}) = 0
    BY FS_EmptySet
<1>6. WorkInv'
    BY <1>1, <1>3, <1>4, <1>5 DEF WorkInv, Call!TypeOK, Call!Graph, Call!TaskStatus,
       Call!Unfinished, Doomed, Graph, TaskStatus
<1> QED BY <1>3, <1>6 DEF AllPending

LEMMA GraphInvariant == GraphSpec => []GraphInv
<1>1. GraphInit => GraphInv
    BY DEF GraphInit, Init, GraphInv, SortInv, TypeOK, Counted, AcyclicOn, AllPending
<1>2. ASSUME GraphInv, [GraphNext]_allVars
      PROVE  GraphInv'
    <2>1. CASE Next /\ UNCHANGED callVars
        <3>1. SortInv'
            BY <1>2, <2>1, SortStepKeeps DEF GraphInv
        <3>2. before = AllPending
            BY <1>2, <2>1, SortingIsOver DEF GraphInv
        <3> QED BY <1>2, <2>1, <3>1, <3>2 DEF GraphInv, callVars, AllPending
    <2>2. ASSUME NEW f \in Node, blocked_by_failure(f)
          PROVE  GraphInv'
        <3>1. SortInv' /\ outcome' = "accepted"
            BY <1>2, <2>2, SortStepKeeps DEF GraphInv, blocked_by_failure, vars
        <3> QED BY <1>2, <2>2, <3>1, CallBegins DEF GraphInv, AllPending
    <2>3. CASE Call!Next /\ UNCHANGED vars
        <3>1. PICK n \in Node : Call!Visit(n)
            BY <2>3 DEF Call!Next
        <3>2. n \in toVisit /\ UNCHANGED before
            BY <3>1 DEF Call!Visit
        <3>3. before # AllPending
            BY <1>2, <3>2 DEF GraphInv
        <3>4. WorkInv'
            BY <1>2, <3>1, <3>3, VisitKeeps DEF GraphInv
        <3>5. SortInv' /\ UNCHANGED outcome
            BY <1>2, <2>3, SortStepKeeps DEF GraphInv, vars
        <3> QED BY <1>2, <3>2, <3>3, <3>4, <3>5 DEF GraphInv, AllPending
    <2>4. CASE UNCHANGED allVars
        <3>1. SortInv'
            BY <1>2, <2>4, SortStepKeeps DEF GraphInv, allVars
        <3> QED BY <1>2, <2>4, <3>1 DEF allVars, vars, callVars, GraphInv, AllPending, WorkInv,
               Call!TypeOK, Doomed
    <2> QED BY <1>2, <2>1, <2>2, <2>3, <2>4 DEF GraphNext
<1> QED BY <1>1, <1>2, PTL DEF GraphSpec, allVars

\* On every accepted graph, in every pop order, the call ends with exactly the
\* transitive dependents of the failed node blocked.
THEOREM GraphComputesClosure == GraphSpec => []ComputesClosure
<1>1. GraphInv => ComputesClosure
    BY NothingToVisit DEF GraphInv, ComputesClosure, Call!ComputesClosure, Call!Returned
<1> QED BY <1>1, GraphInvariant, PTL
=============================================================================
