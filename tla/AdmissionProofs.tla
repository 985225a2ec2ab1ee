--------------------------- MODULE AdmissionProofs ---------------------------
(***************************************************************************)
(* What lets work start, for every instance: the schedule of a dispatch    *)
(* and the rate limiter.                                                   *)
(*                                                                         *)
(* DispatchSchedule keeps its promises for every set of nodes, every graph *)
(* and every number of workers.                                            *)
(*                                                                         *)
(* RateLimits keeps its budget, its count and the length of its waits for  *)
(* every number of clients, every limit and every window.  What is in the  *)
(* window is a sum over a sequence, and the sums are recursive: Climb      *)
(* stands for induction.  The invariant names the client that passed the   *)
(* check last: at that moment the tokens used were within the limit, and   *)
(* everybody else can add one request to what the check saw.               *)
(***************************************************************************)
EXTENDS DispatchSchedule, RateLimits, TaskDAGProofs, FiniteSetTheorems, SequenceTheorems,
        WellFoundedInduction, TLAPS

-----------------------------------------------------------------------------
\* The inductive invariant: the order of dependencies is what keeps a failure
\* from reaching a node that already runs.
Inv == TypeOK /\ DependenciesFirst /\ Ceiling /\ BlockedIffDoomed

\* At first nothing runs and nothing is blocked.
LEMMA InitInv == Init => Inv
<1> SUFFICES ASSUME Init PROVE Inv
    OBVIOUS
<1>1. Running = {}
    BY DEF Init, Running
<1>2. Ceiling
    BY <1>1, FS_EmptySet, MaxWorkersAssumption DEF Ceiling
<1>3. TypeOK
    BY DEF Init, TypeOK, TaskStatus
<1>4. DependenciesFirst
    BY DEF Init, DependenciesFirst, StartedInOrder
<1>5. BlockedIffDoomed
    BY DEF Init, BlockedIffDoomed, BlockedIfDoomed, Graph
<1> QED BY <1>2, <1>3, <1>4, <1>5 DEF Inv

\* The ceiling holds as long as no more run.
LEMMA FewerRunning ==
    ASSUME Ceiling, Running' \subseteq Running
    PROVE  Ceiling'
<1>1. IsFiniteSet(Running)
    BY NodeAssumption, FS_Subset DEF Running
<1>2. IsFiniteSet(Running') /\ Cardinality(Running') <= Cardinality(Running)
    BY <1>1, FS_Subset
<1>3. Cardinality(Running) \in Nat /\ Cardinality(Running') \in Nat
    BY <1>1, <1>2, FS_CardinalityType
<1> QED BY <1>2, <1>3, MaxWorkersAssumption DEF Ceiling

\* Every step of the schedule keeps its invariant.
LEMMA NextInv == Inv /\ [Next]_vars => Inv'
<1> SUFFICES ASSUME Inv, [Next]_vars PROVE Inv'
    OBVIOUS
<1> USE DEF Inv
<1>1. ASSUME NEW n \in Node, Start(n)
      PROVE  Inv'
    <2>1. TypeOK'
        BY <1>1 DEF Start, MayHalt, TypeOK, TaskStatus
    <2>2. /\ status[n] = "pending"
          /\ \A d \in deps[n] : status[d] = "completed"
          /\ status' = [status EXCEPT ![n] = "running"]
          /\ deps' = deps
          /\ ~halted
        BY <1>1 DEF Start, Runnable
    <2>3. DependenciesFirst'
        BY <1>1, <2>2, OrderIsKept DEF Start, TypeOK, DependenciesFirst
    <2>4. BlockedIffDoomed'
        BY <1>1, <2>2, DoomIsKept DEF Start, TypeOK, DependenciesFirst, BlockedIffDoomed
    <2>5. Ceiling'
        <3>1. Running' = Running \cup {n} /\ n \notin Running
            BY <2>2 DEF Running, TypeOK
        <3>2. IsFiniteSet(Running)
            BY NodeAssumption, FS_Subset DEF Running
        <3>3. Cardinality(Running') = Cardinality(Running) + 1
            BY <3>1, <3>2, FS_AddElement
        <3>4. Cardinality(Running) \in Nat /\ Cardinality(Running) < MaxWorkers
            BY <3>2, <1>1, FS_CardinalityType DEF Start
        <3> QED BY <3>3, <3>4, MaxWorkersAssumption DEF Ceiling
    <2> QED BY <2>1, <2>3, <2>4, <2>5
<1>2. ASSUME NEW n \in Node, Complete(n)
      PROVE  Inv'
    <2>1. /\ TypeOK'
          /\ status[n] = "running"
          /\ status' = [status EXCEPT ![n] = "completed"]
          /\ deps' = deps
          /\ ~halted
        BY <1>2 DEF Complete, MayHalt, TypeOK, TaskStatus
    <2>2. DependenciesFirst'
        BY <2>1, OrderIsKept DEF TypeOK, DependenciesFirst
    <2>3. BlockedIffDoomed'
        BY <2>1, DoomIsKept DEF TypeOK, DependenciesFirst, BlockedIffDoomed
    <2>4. Running' \subseteq Running
        BY <2>1 DEF TypeOK, Running
    <2> QED BY <2>1, <2>2, <2>3, <2>4, FewerRunning
<1>3. ASSUME NEW f \in Node, Fail(f)
      PROVE  Inv'
    <2> DEFINE st == Failed(status, f)
               T  == TransitiveDependents(deps, st, f)
    <2>1. /\ status[f] = "running" /\ ~halted /\ deps' = deps
          /\ status' = Blocked(deps, st, f)
          /\ halted' \in BOOLEAN
        BY <1>3 DEF Fail, MayHalt
    <2>2. /\ st \in [Node -> TaskStatus]
          /\ st[f] = "failed" /\ \A n \in Node \ {f} : st[n] = status[n]
        BY DEF Failed, TypeOK, TaskStatus
    <2>3. /\ \A n \in T : status[n] = "pending"
          /\ status' \in [Node -> TaskStatus]
          /\ status'[f] = "failed"
          /\ \A n \in Node \ {f} : status'[n] = IF n \in T THEN "blocked" ELSE status[n]
        <3>1. deps \in Graph /\ status \in [Node -> TaskStatus] /\ StartedInOrder(deps, status)
            BY DEF TypeOK, DependenciesFirst
        <3> QED BY ONLY <3>1, <2>1, FailureSpreadsToPending
    <2>4. /\ T \subseteq Unfinished(st)
          /\ ClosedUnder(deps, st, f, T)
          /\ \A n \in T : deps[n] \cap (T \cup {f}) # {}
        BY <2>2, TransitiveDependentsFacts DEF TypeOK
    <2>5. TypeOK'
        BY <2>1, <2>3 DEF TypeOK
    <2>6. DependenciesFirst'
        BY <2>1, OrderIsKept DEF TypeOK, DependenciesFirst
    <2>7. BlockedIffDoomed'
        BY <2>1, DoomIsKept DEF TypeOK, DependenciesFirst, BlockedIffDoomed
    <2>8. Running' \subseteq Running
        BY <2>3 DEF Running
    <2> QED BY <2>5, <2>6, <2>7, <2>8, FewerRunning
<1>4. ASSUME NEW n \in Node, FailUnpropagated(n)
      PROVE  Inv'
    <2>1. /\ TypeOK'
          /\ status[n] = "running"
          /\ status' = Failed(status, n)
          /\ deps' = deps
          /\ halted'
        BY <1>4 DEF FailUnpropagated, Failed, TypeOK, TaskStatus
    <2>2. DependenciesFirst'
        BY <2>1, OrderIsKept DEF TypeOK, DependenciesFirst
    <2>3. BlockedIffDoomed'
        BY <2>1 DEF BlockedIffDoomed
    <2>4. Running' \subseteq Running
        BY <2>1 DEF Failed, TypeOK, Running
    <2> QED BY <2>1, <2>2, <2>3, <2>4, FewerRunning
<1>5. ASSUME Halt PROVE Inv'
    BY <1>5 DEF Halt, TypeOK, DependenciesFirst, Ceiling, BlockedIffDoomed, Running
<1>6. ASSUME UNCHANGED vars PROVE Inv'
    BY <1>6 DEF vars, TypeOK, DependenciesFirst, Ceiling, BlockedIffDoomed, Running
<1> QED BY <1>1, <1>2, <1>3, <1>4, <1>5, <1>6 DEF Next

-----------------------------------------------------------------------------
\* Type correctness of the schedule.
THEOREM ScheduleTypeCorrect == Spec => []TypeOK
<1>1. Spec => []Inv
    BY InitInv, NextInv, PTL DEF Spec
<1> QED BY <1>1, PTL DEF Inv

\* A node starts only after every dependency has completed, whatever the
\* graph and the order in which results arrive (run, runnable_nodes).
THEOREM DependenciesComeFirst == Spec => []DependenciesFirst
<1>1. Spec => []Inv
    BY InitInv, NextInv, PTL DEF Spec
<1> QED BY <1>1, PTL DEF Inv

\* REQ-324: no more than MaxWorkers nodes are RUNNING.
THEOREM CeilingHolds == Spec => []Ceiling
<1>1. Spec => []Inv
    BY InitInv, NextInv, PTL DEF Spec
<1> QED BY <1>1, PTL DEF Inv

\* REQ-325: a run that has not been cut short has blocked the dependents of
\* every failure and nothing else.
THEOREM BlockedExactly == Spec => []BlockedIffDoomed
<1>1. Spec => []Inv
    BY InitInv, NextInv, PTL DEF Spec
<1> QED BY <1>1, PTL DEF Inv

\* Outcomes are final, and blocked_by_failure never takes a RUNNING node from
\* its worker, although its code allows for that.
THEOREM StatusesMoveForward == Spec => StatusMoves
<1> DEFINE Moves == \A n \in Node : status'[n] # status[n] =>
          \/ status[n] = "pending" /\ status'[n] \in {"running", "blocked"}
          \/ status[n] = "running" /\ status'[n] \in {"completed", "failed"}
<1>1. Spec => []Inv
    BY InitInv, NextInv, PTL DEF Spec
<1>2. ASSUME Inv, [Next]_vars PROVE [Moves]_vars
    <2> SUFFICES ASSUME Next PROVE Moves
        BY <1>2
    <2> USE DEF Inv
    <2>1. ASSUME NEW n \in Node, Start(n) PROVE Moves
        BY <1>2, <2>1 DEF Start, Runnable, TypeOK
    <2>2. ASSUME NEW n \in Node, Complete(n) PROVE Moves
        BY <1>2, <2>2 DEF Complete, TypeOK
    <2>3. ASSUME NEW n \in Node, Fail(n) PROVE Moves
        <3>1. deps \in Graph /\ status \in [Node -> TaskStatus] /\ StartedInOrder(deps, status)
            BY <1>2 DEF TypeOK, DependenciesFirst
        <3> QED BY <2>3, <3>1, FailureSpreadsToPending DEF Fail
    <2>4. ASSUME NEW n \in Node, FailUnpropagated(n) PROVE Moves
        BY <1>2, <2>4 DEF FailUnpropagated, Failed, TypeOK
    <2>5. ASSUME Halt PROVE Moves
        BY <2>5 DEF Halt
    <2> QED BY <2>1, <2>2, <2>3, <2>4, <2>5 DEF Next
<1> QED BY <1>1, <1>2, PTL DEF Spec, StatusMoves

-----------------------------------------------------------------------------
(* Sums of numbers.  What holds of all prefixes is shown by way of the     *)
(* shortest one for which it does not.                                     *)

\* Some natural numbers have a least one.
LEMMA LeastNumber ==
    ASSUME NEW T \in SUBSET Nat, T # {}
    PROVE  \E x \in T : \A y \in T : x <= y
<1>1. PICK x \in T : \A y \in T : ~(<<y, x>> \in OpToRel(<, Nat))
  BY WFMin, NatLessThanWellFounded
<1>2. ASSUME NEW y \in T PROVE x <= y
  <2>1. ~(y < x)
    BY <1>1 DEF OpToRel
  <2> QED
    BY <2>1
<1> QED
  BY <1>2

\* What holds of 0 and of a number after each of which it holds, holds up to n.
LEMMA Climb ==
    ASSUME NEW n \in Nat, NEW G \in SUBSET (0..n), 0 \in G,
           \A k \in 1..n : k - 1 \in G => k \in G
    PROVE  \A k \in 0..n : k \in G
<1> DEFINE B == (0..n) \ G
<1> SUFFICES ASSUME B # {} PROVE FALSE
  OBVIOUS
<1>1. PICK x \in B : \A y \in B : x <= y
  <2>1. B \in SUBSET Nat
    OBVIOUS
  <2> HIDE DEF B
  <2> QED
    BY <2>1, LeastNumber
<1>2. x \in 1..n /\ x - 1 \in 0..n /\ x - 1 \notin G
  OBVIOUS
<1> QED
  BY <1>1, <1>2

\* f has the sums of the prefixes of s up to m.
SumsTo(f, s, m) == /\ f \in [0..m -> Nat]
                   /\ f[0] = 0
                   /\ \A k \in 1..m : f[k] = f[k - 1] + s[k]

\* The recursion of Sums is well defined.
LEMMA SumsFacts ==
    ASSUME NEW s \in Seq(Nat)
    PROVE  SumsTo(Sums(s), s, Len(s))
<1>1. PICK n \in Nat : n = Len(s)
  BY LenProperties
<1>2. \A k \in 1..n : s[k] \in Nat
  BY <1>1, ElementOfSeq
<1>3. \E f : SumsTo(f, s, n)
  <2> DEFINE G == {m \in 0..n : \E f : SumsTo(f, s, m)}
  <2>1. 0 \in G
    <3>1. SumsTo([k \in 0..0 |-> 0], s, 0)
      BY DEF SumsTo
    <3> QED
      BY <3>1
  <2>2. ASSUME NEW m \in 1..n, m - 1 \in G PROVE m \in G
    <3>1. PICK f : SumsTo(f, s, m - 1)
      BY <2>2
    <3>2. PICK g : g = [k \in 0..m |-> IF k = m THEN f[m - 1] + s[m] ELSE f[k]]
      OBVIOUS
    <3>3. f[m - 1] \in Nat /\ \A k \in 0..(m - 1) : f[k] \in Nat
      BY <3>1 DEF SumsTo
    <3>4. g \in [0..m -> Nat]
      BY <1>2, <3>2, <3>3
    <3>5. g[m] = f[m - 1] + s[m] /\ \A k \in 0..(m - 1) : g[k] = f[k]
      BY <3>2
    <3>6. ASSUME NEW k \in 1..m PROVE g[k] = g[k - 1] + s[k]
      <4>1. CASE k = m
        BY <3>5, <4>1
      <4>2. CASE k # m
        <5>1. k \in 1..(m - 1) /\ k \in 0..(m - 1) /\ k - 1 \in 0..(m - 1)
          BY <4>2
        <5> QED
          BY <3>1, <3>5, <5>1 DEF SumsTo
      <4> QED
        BY <4>1, <4>2
    <3>7. g[0] = 0
      BY <3>1, <3>5 DEF SumsTo
    <3>8. SumsTo(g, s, m)
      BY <3>4, <3>6, <3>7 DEF SumsTo
    <3> QED
      BY <3>8
  <2>3. n \in G
    <3>1. G \in SUBSET (0..n)
      OBVIOUS
    <3> HIDE DEF G
    <3>2. \A k \in 0..n : k \in G
      BY <2>1, <2>2, <3>1, Climb
    <3> QED
      BY <3>2
  <2> QED
    BY <2>3
<1>4. PICK f : SumsTo(f, s, n)
  BY <1>3
<1> DEFINE Rec(g) == g = [k \in 0..n |-> IF k = 0 THEN 0 ELSE g[k - 1] + s[k]]
<1>5. Rec(f)
  BY <1>4 DEF SumsTo
<1>6. Sums(s) = CHOOSE g : Rec(g)
  BY <1>1 DEF Sums
<1>7. Rec(Sums(s))
  <2> HIDE DEF Rec
  <2> QED
    BY <1>5, <1>6
<1>8. PICK g : g = Sums(s)
  OBVIOUS
<1>9. g = [k \in 0..n |-> IF k = 0 THEN 0 ELSE g[k - 1] + s[k]]
  BY <1>7, <1>8
<1>10. DOMAIN g = 0..n /\ g[0] = 0 /\ \A k \in 1..n : g[k] = g[k - 1] + s[k]
  BY <1>9
<1>11. \A k \in 0..n : g[k] \in Nat
  <2> DEFINE G == {k \in 0..n : g[k] \in Nat}
  <2>1. 0 \in G
    BY <1>10
  <2>2. ASSUME NEW k \in 1..n, k - 1 \in G PROVE k \in G
    <3>1. g[k - 1] \in Nat /\ s[k] \in Nat /\ g[k] = g[k - 1] + s[k]
      BY <1>2, <1>10, <2>2
    <3> QED
      BY <3>1
  <2>3. G \in SUBSET (0..n)
    OBVIOUS
  <2>4. \A k \in 0..n : k \in G
    <3> HIDE DEF G
    <3> QED
      BY <2>1, <2>2, <2>3, Climb
  <2> QED
    BY <2>4
<1> QED
  BY <1>1, <1>8, <1>9, <1>10, <1>11 DEF SumsTo

\* The sums, as a reader would use them.
LEMMA SumsStep ==
    ASSUME NEW s \in Seq(Nat)
    PROVE  /\ Len(s) \in Nat
           /\ Sums(s)[0] = 0
           /\ \A k \in 0..Len(s) : Sums(s)[k] \in Nat
           /\ \A k \in 1..Len(s) : Sums(s)[k] = Sums(s)[k - 1] + s[k] /\ s[k] \in Nat
           /\ Total(s) = Sums(s)[Len(s)] /\ Total(s) \in Nat
<1>1. SumsTo(Sums(s), s, Len(s)) /\ Len(s) \in Nat
  BY SumsFacts, LenProperties
<1>2. Len(s) \in 0..Len(s)
  BY <1>1
<1>3. \A k \in 1..Len(s) : s[k] \in Nat
  BY ElementOfSeq
<1> QED
  BY <1>1, <1>2, <1>3 DEF SumsTo, Total

\* Sums are monotonic, term by term, and r bounds what s has more than t.
LEMMA SumsAdd ==
    ASSUME NEW s \in Seq(Nat), NEW t \in Seq(Nat), NEW r \in Seq(Nat),
           Len(t) = Len(s), Len(r) = Len(s),
           \A k \in 1..Len(s) : s[k] <= t[k] + r[k]
    PROVE  \A k \in 0..Len(s) : Sums(s)[k] <= Sums(t)[k] + Sums(r)[k]
<1>1. PICK n \in Nat : n = Len(s)
  BY SumsStep
<1>2. PICK f : f = Sums(s)
  OBVIOUS
<1>3. PICK g : g = Sums(t)
  OBVIOUS
<1>4. PICK h : h = Sums(r)
  OBVIOUS
<1>5. /\ f[0] = 0 /\ g[0] = 0 /\ h[0] = 0
      /\ \A k \in 0..n : f[k] \in Nat /\ g[k] \in Nat /\ h[k] \in Nat
      /\ \A k \in 1..n : f[k] = f[k - 1] + s[k] /\ g[k] = g[k - 1] + t[k] /\ h[k] = h[k - 1] + r[k]
      /\ \A k \in 1..n : s[k] \in Nat /\ t[k] \in Nat /\ r[k] \in Nat
  BY <1>1, <1>2, <1>3, <1>4, SumsStep
<1> DEFINE G == {k \in 0..n : f[k] <= g[k] + h[k]}
<1>6. 0 \in G
  BY <1>5
<1>7. ASSUME NEW k \in 1..n, k - 1 \in G PROVE k \in G
  <2>1. k - 1 \in 0..n /\ f[k - 1] <= g[k - 1] + h[k - 1]
    BY <1>7
  <2>2. s[k] <= t[k] + r[k]
    BY <1>1
  <2>3. f[k] = f[k - 1] + s[k] /\ g[k] = g[k - 1] + t[k] /\ h[k] = h[k - 1] + r[k]
    BY <1>5
  <2>4. /\ f[k - 1] \in Nat /\ g[k - 1] \in Nat /\ h[k - 1] \in Nat
        /\ s[k] \in Nat /\ t[k] \in Nat /\ r[k] \in Nat
    BY <1>5, <2>1
  <2>5. ASSUME NEW a \in Nat, NEW b \in Nat, NEW c \in Nat, NEW x \in Nat, NEW y \in Nat, NEW z \in Nat,
               a <= b + c, x <= y + z
        PROVE  a + x <= (b + y) + (c + z)
    BY <2>5
  <2>6. f[k - 1] + s[k] <= (g[k - 1] + t[k]) + (h[k - 1] + r[k])
    BY ONLY <2>1, <2>2, <2>4, <2>5
  <2> QED
    BY <2>3, <2>6
<1>8. \A k \in 0..n : k \in G
  <2>1. G \in SUBSET (0..n)
    OBVIOUS
  <2> HIDE DEF G
  <2> QED
    BY <1>6, <1>7, <2>1, Climb
<1>9. \A k \in 0..n : f[k] <= g[k] + h[k]
  BY <1>8
<1> QED
  BY <1>1, <1>2, <1>3, <1>4, <1>9

\* A sum of larger numbers is larger.
LEMMA SumsMono ==
    ASSUME NEW s \in Seq(Nat), NEW t \in Seq(Nat), Len(t) = Len(s),
           \A k \in 1..Len(s) : s[k] <= t[k]
    PROVE  Total(s) <= Total(t)
<1>1. PICK n \in Nat : n = Len(s)
  BY SumsStep
<1>2. PICK f : f = Sums(s)
  OBVIOUS
<1>3. PICK g : g = Sums(t)
  OBVIOUS
<1>5. /\ f[0] = 0 /\ g[0] = 0
      /\ \A k \in 0..n : f[k] \in Nat /\ g[k] \in Nat
      /\ \A k \in 1..n : f[k] = f[k - 1] + s[k] /\ g[k] = g[k - 1] + t[k]
      /\ \A k \in 1..n : s[k] \in Nat /\ t[k] \in Nat
      /\ Total(s) = f[n] /\ Total(t) = g[n]
  BY <1>1, <1>2, <1>3, SumsStep
<1> DEFINE G == {k \in 0..n : f[k] <= g[k]}
<1>6. 0 \in G
  BY <1>5
<1>7. ASSUME NEW k \in 1..n, k - 1 \in G PROVE k \in G
  <2>1. k - 1 \in 0..n /\ f[k - 1] <= g[k - 1]
    BY <1>7
  <2>2. s[k] <= t[k]
    BY <1>1
  <2>3. f[k] = f[k - 1] + s[k] /\ g[k] = g[k - 1] + t[k]
    BY <1>5
  <2>4. f[k - 1] \in Nat /\ g[k - 1] \in Nat /\ s[k] \in Nat /\ t[k] \in Nat
    BY <1>5, <2>1
  <2> QED
    BY <2>1, <2>2, <2>3, <2>4
<1>8. \A k \in 0..n : k \in G
  <2>1. G \in SUBSET (0..n)
    OBVIOUS
  <2> HIDE DEF G
  <2> QED
    BY <1>6, <1>7, <2>1, Climb
<1>9. \A k \in 0..n : f[k] <= g[k]
  BY <1>8
<1> QED
  BY <1>5, <1>9

\* One number more at the end.
LEMMA AppendTotal ==
    ASSUME NEW s \in Seq(Nat), NEW x \in Nat
    PROVE  Total(Append(s, x)) = Total(s) + x
<1>1. PICK n \in Nat : n = Len(s)
  BY SumsStep
<1>2. PICK t : t = Append(s, x)
  OBVIOUS
<1>3. /\ t \in Seq(Nat) /\ Len(t) = n + 1 /\ t[n + 1] = x
      /\ \A k \in 1..n : t[k] = s[k]
  BY <1>1, <1>2, AppendProperties
<1>4. PICK f : f = Sums(s)
  OBVIOUS
<1>5. PICK g : g = Sums(t)
  OBVIOUS
<1>6. /\ f[0] = 0 /\ \A k \in 1..n : f[k] = f[k - 1] + s[k]
      /\ Total(s) = f[n]
  BY <1>1, <1>4, SumsStep
<1>7. /\ g[0] = 0 /\ \A k \in 1..(n + 1) : g[k] = g[k - 1] + t[k]
      /\ Total(t) = g[n + 1]
  BY <1>3, <1>5, SumsStep
<1> DEFINE G == {k \in 0..n : g[k] = f[k]}
<1>8. 0 \in G
  BY <1>6, <1>7
<1>9. ASSUME NEW k \in 1..n, k - 1 \in G PROVE k \in G
  <2>1. g[k - 1] = f[k - 1] /\ t[k] = s[k]
    BY <1>3, <1>9
  <2>2. f[k] = f[k - 1] + s[k] /\ g[k] = g[k - 1] + t[k]
    BY <1>6, <1>7
  <2> QED
    BY <2>1, <2>2
<1>10. n \in G
  <2>1. G \in SUBSET (0..n)
    OBVIOUS
  <2> HIDE DEF G
  <2>2. \A k \in 0..n : k \in G
    BY <1>8, <1>9, <2>1, Climb
  <2> QED
    BY <2>2
<1>11. g[n] = f[n] /\ g[n + 1] = g[n] + x
  <2>1. n + 1 \in 1..(n + 1) /\ (n + 1) - 1 = n
    OBVIOUS
  <2> QED
    BY <1>3, <1>7, <1>10, <2>1
<1> QED
  BY <1>2, <1>6, <1>7, <1>11

\* The sums of natural numbers rise.
LEMMA SumsRise ==
    ASSUME NEW s \in Seq(Nat), NEW j \in 0..Len(s), NEW i \in 0..Len(s), j <= i
    PROVE  Sums(s)[j] <= Sums(s)[i]
<1>1. PICK n \in Nat : n = Len(s)
  BY SumsStep
<1>2. PICK f : f = Sums(s)
  OBVIOUS
<1>3. /\ \A k \in 0..n : f[k] \in Nat
      /\ \A k \in 1..n : f[k] = f[k - 1] + s[k] /\ s[k] \in Nat
  BY <1>1, <1>2, SumsStep
<1> DEFINE G == {k \in 0..n : j <= k => f[j] <= f[k]}
<1>4. 0 \in G
  BY <1>1, <1>3
<1>5. ASSUME NEW k \in 1..n, k - 1 \in G PROVE k \in G
  <2>1. f[k] = f[k - 1] + s[k] /\ s[k] \in Nat /\ f[k] \in Nat /\ f[k - 1] \in Nat /\ f[j] \in Nat
    BY <1>1, <1>3
  <2>2. f[k - 1] <= f[k]
    BY <2>1
  <2>3. ASSUME j <= k PROVE f[j] <= f[k]
    <3>1. CASE j = k
      BY <2>1, <3>1
    <3>2. CASE j # k
      <4>1. j <= k - 1
        BY <1>1, <2>3, <3>2
      <4>2. f[j] <= f[k - 1]
        BY <1>5, <4>1
      <4> QED
        BY <2>1, <2>2, <4>2
    <3> QED
      BY <3>1, <3>2
  <2> QED
    BY <2>3
<1>6. i \in G
  <2>1. G \in SUBSET (0..n)
    OBVIOUS
  <2> HIDE DEF G
  <2>2. \A k \in 0..n : k \in G
    BY <1>4, <1>5, <2>1, Climb
  <2> QED
    BY <1>1, <2>2
<1> QED
  BY <1>2, <1>6

\* What is left when the first j numbers go.
LEMMA DropTotal ==
    ASSUME NEW s \in Seq(Nat), NEW j \in 0..Len(s)
    PROVE  LET t == SubSeq(s, j + 1, Len(s))
           IN  /\ t \in Seq(Nat) /\ Len(t) = Len(s) - j
               /\ \A k \in 1..Len(t) : t[k] = s[k + j]
               /\ Total(s) = Sums(s)[j] + Total(t)
<1>1. PICK n \in Nat : n = Len(s)
  BY SumsStep
<1>2. PICK t : t = SubSeq(s, j + 1, Len(s))
  OBVIOUS
<1>3. \A i \in (j + 1)..n : s[i] \in Nat
  BY <1>1, SumsStep
<1>4. /\ t \in Seq(Nat)
      /\ Len(t) = IF j + 1 <= n THEN n - (j + 1) + 1 ELSE 0
      /\ \A k \in 1..(n - (j + 1) + 1) : t[k] = s[j + 1 + k - 1]
  BY <1>1, <1>2, <1>3, SubSeqProperties
<1>5. Len(t) = n - j /\ n - j \in Nat
  BY <1>1, <1>4
<1>6. \A k \in 1..(n - j) : t[k] = s[k + j]
  <2> SUFFICES ASSUME NEW k \in 1..(n - j) PROVE t[k] = s[k + j]
    OBVIOUS
  <2>1. k \in 1..(n - (j + 1) + 1) /\ j + 1 + k - 1 = k + j
    BY <1>1
  <2> QED
    BY <1>4, <2>1
<1>7. PICK f : f = Sums(s)
  OBVIOUS
<1>8. PICK g : g = Sums(t)
  OBVIOUS
<1>9. /\ \A k \in 0..n : f[k] \in Nat
      /\ \A k \in 1..n : f[k] = f[k - 1] + s[k] /\ s[k] \in Nat
      /\ Total(s) = f[n]
  BY <1>1, <1>7, SumsStep
<1>10. /\ g[0] = 0 /\ \A k \in 0..(n - j) : g[k] \in Nat
       /\ \A k \in 1..(n - j) : g[k] = g[k - 1] + t[k]
       /\ Total(t) = g[n - j]
  BY <1>4, <1>5, <1>8, SumsStep
<1> DEFINE G == {k \in 0..(n - j) : f[k + j] = f[j] + g[k]}
<1>11. 0 \in G
  BY <1>1, <1>5, <1>9, <1>10
<1>12. ASSUME NEW k \in 1..(n - j), k - 1 \in G PROVE k \in G
  <2>1. k + j \in 1..n /\ (k + j) - 1 = (k - 1) + j /\ k - 1 \in 0..(n - j) /\ (k - 1) + j \in 0..n
    BY <1>1
  <2>2. f[(k - 1) + j] = f[j] + g[k - 1]
    BY <1>12
  <2>3. f[k + j] = f[(k - 1) + j] + s[k + j] /\ s[k + j] \in Nat
    BY <1>9, <2>1
  <2>4. g[k] = g[k - 1] + s[k + j] /\ g[k - 1] \in Nat /\ f[j] \in Nat
    BY <1>1, <1>6, <1>9, <1>10, <2>1
  <2>5. f[k + j] = f[j] + g[k]
    BY <2>2, <2>3, <2>4
  <2> QED
    BY <2>5
<1>13. n - j \in G
  <2>1. G \in SUBSET (0..(n - j))
    OBVIOUS
  <2> HIDE DEF G
  <2>2. \A k \in 0..(n - j) : k \in G
    BY <1>5, <1>11, <1>12, <2>1, Climb
  <2> QED
    BY <1>5, <2>2
<1>14. Total(s) = f[j] + Total(t)
  <2>1. (n - j) + j = n
    BY <1>1
  <2> QED
    BY <1>9, <1>10, <1>13, <2>1
<1> QED
  BY <1>1, <1>2, <1>4, <1>5, <1>6, <1>7, <1>14

\* A sum of ones is their number.
LEMMA OnesTotal ==
    ASSUME NEW s \in Seq(Nat), \A k \in 1..Len(s) : s[k] = 1
    PROVE  Total(s) = Len(s)
<1>1. PICK n \in Nat : n = Len(s)
  BY SumsStep
<1>2. PICK f : f = Sums(s)
  OBVIOUS
<1>3. /\ f[0] = 0 /\ Total(s) = f[n]
      /\ \A k \in 1..n : f[k] = f[k - 1] + 1
  BY <1>1, <1>2, SumsStep
<1> DEFINE G == {k \in 0..n : f[k] = k}
<1>4. 0 \in G
  BY <1>3
<1>5. ASSUME NEW k \in 1..n, k - 1 \in G PROVE k \in G
  BY <1>3, <1>5
<1>6. n \in G
  <2>1. G \in SUBSET (0..n)
    OBVIOUS
  <2> HIDE DEF G
  <2>2. \A k \in 0..n : k \in G
    BY <1>4, <1>5, <2>1, Climb
  <2> QED
    BY <2>2
<1> QED
  BY <1>1, <1>3, <1>6

\* The sum of a sequence that is m in the places X and 0 in the others.
LEMMA MarkedTotal ==
    ASSUME NEW s \in Seq(Nat), NEW m \in Nat, NEW X \in SUBSET (1..Len(s)),
           \A k \in 1..Len(s) : s[k] = IF k \in X THEN m ELSE 0
    PROVE  Total(s) = m * Cardinality(X)
<1>1. PICK n \in Nat : n = Len(s)
  BY SumsStep
<1>2. PICK f : f = Sums(s)
  OBVIOUS
<1>3. /\ f[0] = 0 /\ Total(s) = f[n]
      /\ \A k \in 1..n : f[k] = f[k - 1] + s[k]
  BY <1>1, <1>2, SumsStep
<1> DEFINE Upto(k) == X \cap (1..k)
           G == {k \in 0..n : f[k] = m * Cardinality(Upto(k))}
<1>4. \A k \in 0..n : IsFiniteSet(Upto(k)) /\ Cardinality(Upto(k)) \in Nat
  <2> SUFFICES ASSUME NEW k \in 0..n PROVE IsFiniteSet(Upto(k)) /\ Cardinality(Upto(k)) \in Nat
    OBVIOUS
  <2>1. IsFiniteSet(1..k)
    BY FS_Interval
  <2>2. IsFiniteSet(Upto(k))
    BY <2>1, FS_Subset
  <2> QED
    BY <2>2, FS_CardinalityType
<1>5. 0 \in G
  <2>1. Upto(0) = {}
    OBVIOUS
  <2>2. Cardinality(Upto(0)) = 0
    BY <2>1, FS_EmptySet
  <2> QED
    BY <1>3, <2>2
<1>6. ASSUME NEW k \in 1..n, k - 1 \in G PROVE k \in G
  <2>1. f[k - 1] = m * Cardinality(Upto(k - 1)) /\ f[k] = f[k - 1] + s[k]
    BY <1>3, <1>6
  <2>2. PICK c \in Nat : c = Cardinality(Upto(k - 1))
    BY <1>4
  <2>3. CASE k \in X
    <3>1. Upto(k) = Upto(k - 1) \cup {k} /\ k \notin Upto(k - 1)
      BY <2>3
    <3>2. Cardinality(Upto(k)) = c + 1
      <4>1. IsFiniteSet(Upto(k - 1))
        BY <1>4
      <4> HIDE DEF Upto
      <4> QED
        BY <2>2, <3>1, <4>1, FS_AddElement
    <3>3. s[k] = m
      BY <1>1, <2>3
    <3>4. m * (c + 1) = m * c + m
      OBVIOUS
    <3>5. f[k] = m * Cardinality(Upto(k))
      BY <2>1, <2>2, <3>2, <3>3, <3>4
    <3> QED
      BY <3>5
  <2>4. CASE k \notin X
    <3>1. Upto(k) = Upto(k - 1)
      BY <2>4
    <3>2. s[k] = 0 /\ m * c \in Nat
      BY <1>1, <2>4
    <3>3. PICK p \in Nat : p = m * c
      BY <3>2
    <3>4. f[k - 1] = p /\ f[k] = f[k - 1] + 0 /\ p + 0 = p
      BY <2>1, <2>2, <3>2, <3>3
    <3>5. f[k] = m * Cardinality(Upto(k))
      BY <2>2, <3>1, <3>3, <3>4
    <3> QED
      BY <3>5
  <2> QED
    BY <2>3, <2>4
<1>7. n \in G
  <2>1. G \in SUBSET (0..n)
    OBVIOUS
  <2> HIDE DEF G
  <2>2. \A k \in 0..n : k \in G
    BY <1>5, <1>6, <2>1, Climb
  <2> QED
    BY <2>2
<1>8. Upto(n) = X
  BY <1>1
<1> QED
  BY <1>3, <1>7, <1>8

-----------------------------------------------------------------------------
\* Min of some natural numbers is the one that no other is below.
LEMMA MinFacts ==
    ASSUME NEW T \in SUBSET Nat, T # {}
    PROVE  /\ Min(T) \in T /\ \A y \in T : Min(T) <= y
           /\ \A x \in T : (\A y \in T : x <= y) => Min(T) = x
<1>1. \E x \in T : \A y \in T : x <= y
  BY LeastNumber
<1>2. Min(T) \in T /\ \A y \in T : Min(T) <= y
  BY <1>1 DEF Min
<1>3. ASSUME NEW x \in T, \A y \in T : x <= y PROVE Min(T) = x
  <2>1. PICK m \in Nat : m = Min(T)
    BY <1>2
  <2>2. m <= x /\ x <= m /\ x \in Nat
    BY <1>2, <1>3, <2>1
  <2> QED
    BY <2>1, <2>2
<1> QED
  BY <1>2, <1>3

\* Max of some numbers below a bound is the one that no other is above.
LEMMA MaxFacts ==
    ASSUME NEW N \in Nat, NEW T \in SUBSET (0..N), T # {}
    PROVE  Max(T) \in T /\ \A y \in T : Max(T) >= y
<1> DEFINE U == {N - x : x \in T}
<1>1. U \in SUBSET Nat /\ U # {}
  <2>1. \A x \in T : N - x \in Nat
    OBVIOUS
  <2>2. \E x \in T : N - x \in U
    OBVIOUS
  <2> QED
    BY <2>1, <2>2
<1>2. PICK u \in U : \A y \in U : u <= y
  <2> HIDE DEF U
  <2> QED
    BY <1>1, LeastNumber
<1>3. PICK x \in T : u = N - x
  BY <1>2
<1>4. ASSUME NEW y \in T PROVE x >= y
  <2>1. N - y \in U
    OBVIOUS
  <2>2. u <= N - y
    BY <1>2, <2>1
  <2>3. x \in 0..N /\ y \in 0..N
    OBVIOUS
  <2> QED
    BY <1>3, <2>2, <2>3
<1>5. \E z \in T : \A y \in T : z >= y
  BY <1>4
<1> QED
  BY <1>5 DEF Max

\* What remains of the numbers s when the first j are gone is t.
LEMMA TailTotal ==
    ASSUME NEW s \in Seq(Nat), NEW t \in Seq(Nat), NEW j \in 0..Len(s), Len(t) = Len(s) - j,
           \A k \in 1..Len(t) : t[k] = s[k + j]
    PROVE  Total(s) = Sums(s)[j] + Total(t)
<1>1. PICK u : u = SubSeq(s, j + 1, Len(s))
  OBVIOUS
<1>2. /\ u \in Seq(Nat) /\ Len(u) = Len(s) - j
      /\ \A k \in 1..Len(u) : u[k] = s[k + j]
      /\ Total(s) = Sums(s)[j] + Total(u)
  BY <1>1, DropTotal
<1>3. \A k \in 1..Len(t) : t[k] = u[k]
  BY <1>2
<1>4. t = u
  BY <1>2, <1>3, SeqEqual
<1> QED
  BY <1>2, <1>4

\* Zeros at the front make no difference.
LEMMA ZerosTotal ==
    ASSUME NEW s \in Seq(Nat), NEW j \in 0..Len(s), \A k \in 1..j : s[k] = 0
    PROVE  Sums(s)[j] = 0
<1>1. PICK f : f = Sums(s)
  OBVIOUS
<1>2. f[0] = 0 /\ (\A k \in 1..Len(s) : f[k] = f[k - 1] + s[k]) /\ Len(s) \in Nat
  BY <1>1, SumsStep
<1> DEFINE G == {k \in 0..j : f[k] = 0}
<1>3. 0 \in G
  BY <1>2
<1>4. ASSUME NEW k \in 1..j, k - 1 \in G PROVE k \in G
  <2>1. k \in 1..Len(s) /\ f[k - 1] = 0 /\ s[k] = 0
    BY <1>2, <1>4
  <2> QED
    BY <1>2, <2>1
<1>5. j \in G
  <2>1. G \in SUBSET (0..j) /\ j \in Nat
    BY <1>2
  <2> HIDE DEF G
  <2>2. \A k \in 0..j : k \in G
    BY <1>3, <1>4, <2>1, Climb
  <2> QED
    BY <2>1, <2>2
<1> QED
  BY <1>1, <1>5

-----------------------------------------------------------------------------
(* The window.                                                             *)

\* The events of a window: ages fall, reservations rise up to n, estimates fit.
Orderly(es, n) ==
    /\ es \in Seq(Event)
    /\ \A i, k \in 1..Len(es) : i < k => es[k].age <= es[i].age /\ es[i].id < es[k].id
    /\ \A i \in 1..Len(es) : es[i].id <= n /\ es[i].estimate <= Tpm

\* The parts of an event.
LEMMA EventFacts ==
    ASSUME NEW es \in Seq(Event), NEW i \in 1..Len(es)
    PROVE  /\ es[i] \in Event
           /\ es[i].age \in 0..Window /\ es[i].age \in Nat
           /\ es[i].tokens \in Nat /\ es[i].tokens \in Sizes
           /\ es[i].estimate \in Nat /\ es[i].estimate \in Sizes
           /\ es[i].id \in 1..MaxRequests /\ es[i].id \in Nat
<1>1. es[i] \in Event
  BY ElementOfSeq
<1>2. PICK e : e = es[i]
  OBVIOUS
<1>3. e \in Event
  BY <1>1, <1>2
<1>4. /\ e.age \in 0..Window /\ e.tokens \in Sizes /\ e.estimate \in Sizes /\ e.id \in 1..MaxRequests
  BY <1>3 DEF Event
<1>5. Window \in Nat /\ MaxRequests \in Nat /\ Sizes \subseteq Nat
  BY RateAssumption
<1>6. e.age \in Nat /\ e.tokens \in Nat /\ e.estimate \in Nat /\ e.id \in Nat
  <2>1. e.tokens \in Nat /\ e.estimate \in Nat
    BY <1>4, <1>5
  <2>2. \A x \in 0..Window : x \in Nat
    OBVIOUS
  <2>3. \A x \in 1..MaxRequests : x \in Nat
    OBVIOUS
  <2> QED
    BY <1>4, <2>1, <2>2, <2>3
<1> QED
  BY <1>1, <1>2, <1>4, <1>6

\* What After drops is expired, what it keeps is not.
LEMMA AfterFacts ==
    ASSUME NEW es \in Seq(Event), NEW w \in Nat,
           \A i, k \in 1..Len(es) : i < k => es[k].age <= es[i].age
    PROVE  \E j \in 0..Len(es) :
              /\ \A i \in 1..j : es[i].age + w >= Window
              /\ \A i \in (j + 1)..Len(es) : es[i].age + w < Window
              /\ After(es, w) \in Seq(Event)
              /\ Len(After(es, w)) = Len(es) - j
              /\ \A k \in 1..(Len(es) - j) : After(es, w)[k] = es[k + j]
<1>1. PICK n \in Nat : n = Len(es) /\ DOMAIN es = 1..n
  BY LenProperties
<1>2. Window \in Nat
  BY RateAssumption
<1>3. \A i \in 1..n : es[i].age \in Nat
  BY <1>1, EventFacts
<1>4. PICK left : left = {i \in 1..n : es[i].age + w < Window}
  OBVIOUS
<1>5. After(es, w) = IF left = {} THEN <<>> ELSE SubSeq(es, Min(left), n)
  BY <1>1, <1>4 DEF After
<1>6. CASE left = {}
  <2>1. After(es, w) = <<>>
    BY <1>5, <1>6
  <2>2. After(es, w) \in Seq(Event) /\ Len(After(es, w)) = n - n
    BY <2>1, EmptySeq
  <2>3. \A i \in 1..n : es[i].age + w >= Window
    BY <1>2, <1>3, <1>4, <1>6
  <2>4. n \in 0..n /\ (n + 1)..n = {} /\ 1..(n - n) = {}
    OBVIOUS
  <2> QED
    BY <1>1, <2>2, <2>3, <2>4
<1>7. CASE left # {}
  <2>1. left \in SUBSET Nat
    BY <1>4
  <2>2. PICK m : m = Min(left)
    OBVIOUS
  <2>3. m \in left /\ \A y \in left : m <= y
    BY <1>7, <2>1, <2>2, MinFacts
  <2>4. m \in 1..n /\ es[m].age + w < Window
    BY <1>4, <2>3
  <2>5. PICK j \in 0..n : m = j + 1
    <3>1. m - 1 \in 0..n /\ m = (m - 1) + 1
      BY <2>4
    <3> QED
      BY <3>1
  <2>6. \A i \in m..n : es[i] \in Event
    BY <1>1, <2>4, EventFacts
  <2>7. PICK t : t = SubSeq(es, m, n)
    OBVIOUS
  <2>8. /\ t \in Seq(Event) /\ Len(t) = (IF m <= n THEN n - m + 1 ELSE 0)
        /\ \A k \in 1..(n - m + 1) : t[k] = es[m + k - 1]
    BY <1>1, <2>4, <2>6, <2>7, SubSeqProperties
  <2>9. Len(t) = n - j /\ n - m + 1 = n - j
    BY <2>4, <2>5, <2>8
  <2>10. \A k \in 1..(n - j) : t[k] = es[k + j]
    <3> SUFFICES ASSUME NEW k \in 1..(n - j) PROVE t[k] = es[k + j]
      OBVIOUS
    <3>1. m + k - 1 = k + j
      BY <2>5
    <3> QED
      BY <2>8, <2>9, <3>1
  <2>11. \A i \in 1..j : es[i].age + w >= Window
    <3> SUFFICES ASSUME NEW i \in 1..j PROVE es[i].age + w >= Window
      OBVIOUS
    <3>1. i \in 1..n /\ ~(m <= i)
      BY <2>5
    <3>2. ~(es[i].age + w < Window)
      BY <1>4, <2>3, <3>1
    <3> QED
      BY <1>2, <1>3, <3>1, <3>2
  <2>12. \A i \in (j + 1)..n : es[i].age + w < Window
    <3> SUFFICES ASSUME NEW i \in (j + 1)..n PROVE es[i].age + w < Window
      OBVIOUS
    <3>1. i \in 1..n /\ m <= i
      BY <2>5
    <3>2. es[i].age <= es[m].age
      BY <1>1, <2>4, <3>1, <1>3
    <3> QED
      BY <1>2, <1>3, <2>4, <3>1, <3>2
  <2>13. After(es, w) = t
    BY <1>5, <1>7, <2>2, <2>7
  <2> QED
    BY <1>1, <2>8, <2>9, <2>10, <2>11, <2>12, <2>13
<1> QED
  BY <1>6, <1>7

\* The same of the events that a purge leaves, which are as orderly.
LEMMA PurgedFacts ==
    ASSUME NEW es, NEW n \in Nat, Orderly(es, n)
    PROVE  /\ Orderly(Purged(es), n)
           /\ \A i \in 1..Len(Purged(es)) : Purged(es)[i].age < Window
           /\ \E j \in 0..Len(es) :
                 /\ \A i \in 1..j : es[i].age >= Window
                 /\ \A i \in (j + 1)..Len(es) : es[i].age < Window
                 /\ Len(Purged(es)) = Len(es) - j
                 /\ \A k \in 1..(Len(es) - j) : Purged(es)[k] = es[k + j]
<1>1. es \in Seq(Event)
  BY DEF Orderly
<1>2. \A i, k \in 1..Len(es) : i < k => es[k].age <= es[i].age /\ es[i].id < es[k].id
  BY DEF Orderly
<1>3. PICK t : t = Purged(es)
  OBVIOUS
<1>4. t = After(es, 0)
  BY <1>3 DEF Purged
<1>5. PICK l \in Nat : l = Len(es)
  BY <1>1, LenProperties
<1>6. PICK j \in 0..l :
              /\ \A i \in 1..j : es[i].age + 0 >= Window
              /\ \A i \in (j + 1)..l : es[i].age + 0 < Window
              /\ t \in Seq(Event)
              /\ Len(t) = l - j
              /\ \A k \in 1..(l - j) : t[k] = es[k + j]
  <2>1. \A i, k \in 1..Len(es) : i < k => es[k].age <= es[i].age
    BY <1>2
  <2>2. PICK z \in Nat : z = 0
    OBVIOUS
  <2>3. \E j \in 0..Len(es) :
              /\ \A i \in 1..j : es[i].age + z >= Window
              /\ \A i \in (j + 1)..Len(es) : es[i].age + z < Window
              /\ After(es, z) \in Seq(Event)
              /\ Len(After(es, z)) = Len(es) - j
              /\ \A k \in 1..(Len(es) - j) : After(es, z)[k] = es[k + j]
    BY <1>1, <2>1, AfterFacts
  <2>4. After(es, z) = t
    BY <1>4, <2>2
  <2> QED
    BY <1>5, <2>2, <2>3, <2>4
<1>7. \A i \in 1..l : es[i].age + 0 = es[i].age
  BY <1>1, <1>5, EventFacts
<1>8. /\ \A i \in 1..j : es[i].age >= Window
      /\ \A i \in (j + 1)..l : es[i].age < Window
  <2>1. \A i \in 1..j : i \in 1..l
    OBVIOUS
  <2>2. \A i \in (j + 1)..l : i \in 1..l
    OBVIOUS
  <2> QED
    BY <1>6, <1>7, <2>1, <2>2
<1>9. \A i \in 1..Len(t) : t[i] = es[i + j] /\ i + j \in (j + 1)..l /\ i + j \in 1..l
  BY <1>6
<1>10. \A i \in 1..Len(t) : t[i].age < Window
  BY <1>8, <1>9
<1>11. Orderly(t, n)
  <2>1. ASSUME NEW i \in 1..Len(t), NEW k \in 1..Len(t), i < k
        PROVE  t[k].age <= t[i].age /\ t[i].id < t[k].id
    <3>1. i + j < k + j
      BY <2>1, <1>6
    <3> QED
      BY <1>2, <1>5, <1>9, <3>1
  <2>2. \A i \in 1..Len(t) : t[i].id <= n /\ t[i].estimate <= Tpm
    <3>1. \A i \in 1..l : es[i].id <= n /\ es[i].estimate <= Tpm
      BY <1>5 DEF Orderly
    <3> QED
      BY <1>9, <3>1
  <2> QED
    BY <1>6, <2>1, <2>2 DEF Orderly
<1> QED
  BY <1>3, <1>5, <1>6, <1>8, <1>10, <1>11

-----------------------------------------------------------------------------
(* What the events of a window count for, in requests and in tokens.  An   *)
(* expired one counts nothing; one that an outcome may still be reported   *)
(* for counts its estimate, any other the less of that and what it used.   *)

Counts(es) == [i \in DOMAIN es |-> IF es[i].age < Window THEN 1 ELSE 0]

Weight(e, O) == IF e.age < Window
                THEN IF e.id \in O THEN e.estimate ELSE Least(e.tokens, e.estimate)
                ELSE 0

Weights(es, O) == [i \in DOMAIN es |-> Weight(es[i], O)]

\* Both are sequences of numbers.
LEMMA CountsFacts ==
    ASSUME NEW es \in Seq(Event)
    PROVE  /\ Counts(es) \in Seq(Nat) /\ Len(Counts(es)) = Len(es)
           /\ \A i \in 1..Len(es) : Counts(es)[i] = IF es[i].age < Window THEN 1 ELSE 0
<1>1. PICK n \in Nat : n = Len(es) /\ DOMAIN es = 1..n
  BY LenProperties
<1>2. PICK c : c = Counts(es)
  OBVIOUS
<1>3. c = [i \in 1..n |-> IF es[i].age < Window THEN 1 ELSE 0]
  BY <1>1, <1>2 DEF Counts
<1>4. c \in [1..n -> Nat]
  BY <1>3
<1>5. c \in Seq(Nat) /\ Len(c) = n
  BY <1>1, <1>4
<1> QED
  BY <1>1, <1>2, <1>3, <1>5

\* Likewise.
LEMMA WeightsFacts ==
    ASSUME NEW es \in Seq(Event), NEW O
    PROVE  /\ Weights(es, O) \in Seq(Nat) /\ Len(Weights(es, O)) = Len(es)
           /\ \A i \in 1..Len(es) : Weights(es, O)[i] = Weight(es[i], O)
<1>1. PICK n \in Nat : n = Len(es) /\ DOMAIN es = 1..n
  BY LenProperties
<1>2. PICK c : c = Weights(es, O)
  OBVIOUS
<1>3. c = [i \in 1..n |-> Weight(es[i], O)]
  BY <1>1, <1>2 DEF Weights
<1>4. ASSUME NEW i \in 1..n PROVE Weight(es[i], O) \in Nat
  <2>1. es[i].tokens \in Nat /\ es[i].estimate \in Nat
    BY <1>1, EventFacts
  <2>2. Least(es[i].tokens, es[i].estimate) \in Nat
    BY <2>1 DEF Least
  <2> QED
    BY <2>1, <2>2 DEF Weight
<1>5. c \in [1..n -> Nat]
  BY <1>3, <1>4
<1>6. c \in Seq(Nat) /\ Len(c) = n
  BY <1>1, <1>5
<1> QED
  BY <1>1, <1>2, <1>3, <1>6

\* And so are the tokens used.
LEMMA UsedFacts ==
    ASSUME NEW es \in Seq(Event)
    PROVE  /\ Used(es) \in Seq(Nat) /\ Len(Used(es)) = Len(es)
           /\ \A i \in 1..Len(es) : Used(es)[i] = es[i].tokens
           /\ Tokens(es) = Total(Used(es)) /\ Tokens(es) \in Nat
<1>1. PICK n \in Nat : n = Len(es) /\ DOMAIN es = 1..n
  BY LenProperties
<1>2. PICK c : c = Used(es)
  OBVIOUS
<1>3. c = [i \in 1..n |-> es[i].tokens]
  BY <1>1, <1>2 DEF Used
<1>4. \A i \in 1..n : es[i].tokens \in Nat
  BY <1>1, EventFacts
<1>5. c \in [1..n -> Nat]
  BY <1>3, <1>4
<1>6. c \in Seq(Nat) /\ Len(c) = n
  BY <1>1, <1>5
<1>7. Tokens(es) = Total(c) /\ Total(c) \in Nat
  BY <1>2, <1>6, SumsStep DEF Tokens
<1> QED
  BY <1>1, <1>2, <1>3, <1>6, <1>7

\* A purge changes neither total; what it leaves counts one each.
LEMMA PurgedTotals ==
    ASSUME NEW es, NEW n \in Nat, Orderly(es, n), NEW O
    PROVE  /\ Total(Weights(Purged(es), O)) = Total(Weights(es, O))
           /\ Total(Counts(Purged(es))) = Total(Counts(es))
           /\ Len(Purged(es)) = Total(Counts(es))
<1>1. PICK t : t = Purged(es)
  OBVIOUS
<1>2. Orderly(t, n) /\ \A i \in 1..Len(t) : t[i].age < Window
  BY <1>1, PurgedFacts
<1>3. es \in Seq(Event) /\ t \in Seq(Event)
  BY <1>2 DEF Orderly
<1>4. PICK l \in Nat : l = Len(es)
  BY <1>3, LenProperties
<1>5. PICK j \in 0..l : /\ \A i \in 1..j : es[i].age >= Window
                        /\ Len(t) = l - j
                        /\ \A k \in 1..(l - j) : t[k] = es[k + j]
  BY <1>1, <1>4, PurgedFacts
<1>6. \A i \in 1..j : i \in 1..l /\ ~(es[i].age < Window)
  <2> SUFFICES ASSUME NEW i \in 1..j PROVE i \in 1..l /\ ~(es[i].age < Window)
    OBVIOUS
  <2>1. i \in 1..l
    OBVIOUS
  <2>2. es[i].age \in Nat /\ es[i].age >= Window
    BY <1>3, <1>4, <1>5, <2>1, EventFacts
  <2>3. Window \in Nat
    BY RateAssumption
  <2> QED
    BY <2>1, <2>2, <2>3
<1>7. Total(Weights(t, O)) = Total(Weights(es, O))
  <2>1. PICK s : s = Weights(es, O)
    OBVIOUS
  <2>2. PICK u : u = Weights(t, O)
    OBVIOUS
  <2>3. s \in Seq(Nat) /\ Len(s) = l /\ \A i \in 1..l : s[i] = Weight(es[i], O)
    BY <1>3, <1>4, <2>1, WeightsFacts
  <2>4. u \in Seq(Nat) /\ Len(u) = l - j /\ \A i \in 1..(l - j) : u[i] = Weight(t[i], O)
    BY <1>3, <1>5, <2>2, WeightsFacts
  <2>5. \A k \in 1..(l - j) : u[k] = s[k + j]
    <3> SUFFICES ASSUME NEW k \in 1..(l - j) PROVE u[k] = s[k + j]
      OBVIOUS
    <3>1. k + j \in 1..l
      OBVIOUS
    <3> QED
      BY <1>5, <2>3, <2>4, <3>1
  <2>6. \A k \in 1..j : s[k] = 0
    BY <1>6, <2>3 DEF Weight
  <2>7. Total(s) = Sums(s)[j] + Total(u)
    BY <2>3, <2>4, <2>5, TailTotal
  <2>8. Sums(s)[j] = 0
    BY <2>3, <2>6, ZerosTotal
  <2>9. Total(u) \in Nat
    BY <2>4, SumsStep
  <2> QED
    BY <2>1, <2>2, <2>7, <2>8, <2>9
<1>8. PICK s : s = Counts(es)
  OBVIOUS
<1>9. PICK u : u = Counts(t)
  OBVIOUS
<1>10. s \in Seq(Nat) /\ Len(s) = l /\ \A i \in 1..l : s[i] = IF es[i].age < Window THEN 1 ELSE 0
  BY <1>3, <1>4, <1>8, CountsFacts
<1>11. u \in Seq(Nat) /\ Len(u) = l - j /\ \A i \in 1..(l - j) : u[i] = IF t[i].age < Window THEN 1 ELSE 0
  BY <1>3, <1>5, <1>9, CountsFacts
<1>12. Total(u) = Total(s)
  <2>1. \A k \in 1..(l - j) : u[k] = s[k + j]
    <3> SUFFICES ASSUME NEW k \in 1..(l - j) PROVE u[k] = s[k + j]
      OBVIOUS
    <3>1. k + j \in 1..l
      OBVIOUS
    <3> QED
      BY <1>5, <1>10, <1>11, <3>1
  <2>2. \A k \in 1..j : s[k] = 0
    BY <1>6, <1>10
  <2>3. Total(s) = Sums(s)[j] + Total(u)
    BY <1>10, <1>11, <2>1, TailTotal
  <2>4. Sums(s)[j] = 0
    BY <1>10, <2>2, ZerosTotal
  <2>5. Total(u) \in Nat
    BY <1>11, SumsStep
  <2> QED
    BY <2>3, <2>4, <2>5
<1>13. Total(u) = Len(u)
  <2>1. \A k \in 1..Len(u) : u[k] = 1
    BY <1>2, <1>5, <1>11
  <2> QED
    BY <1>11, <2>1, OnesTotal
<1> QED
  BY <1>1, <1>5, <1>7, <1>8, <1>9, <1>11, <1>12, <1>13

\* fs are the events es later: older, and with other tokens for those of O.
Later(es, fs, O) ==
    /\ fs \in Seq(Event) /\ Len(fs) = Len(es)
    /\ \A i \in 1..Len(es) : /\ fs[i].id = es[i].id /\ fs[i].estimate = es[i].estimate
                             /\ fs[i].age >= es[i].age
                             /\ fs[i].tokens = es[i].tokens \/ es[i].id \in O

\* Neither total grows with time, nor when fewer are waited for.
LEMMA LaterTotals ==
    ASSUME NEW es \in Seq(Event), NEW fs, NEW O, NEW P, Later(es, fs, O),
           \A i \in 1..Len(es) : es[i].id \in P => es[i].id \in O
    PROVE  /\ Total(Weights(fs, P)) <= Total(Weights(es, O))
           /\ Total(Counts(fs)) <= Total(Counts(es))
<1>1. fs \in Seq(Event)
  BY DEF Later
<1>2. PICK l \in Nat : l = Len(es)
  BY LenProperties
<1>3. Len(fs) = l
  BY <1>2 DEF Later
<1>4. \A i \in 1..l : /\ fs[i].id = es[i].id /\ fs[i].estimate = es[i].estimate
                      /\ fs[i].age >= es[i].age
                      /\ fs[i].tokens = es[i].tokens \/ es[i].id \in O
  BY <1>2 DEF Later
<1>5. Window \in Nat
  BY RateAssumption
<1>6. \A i \in 1..l : /\ es[i].age \in Nat /\ fs[i].age \in Nat
                      /\ es[i].tokens \in Nat /\ fs[i].tokens \in Nat
                      /\ es[i].estimate \in Nat
  BY <1>1, <1>2, <1>3, EventFacts
<1>7. \A i \in 1..l : fs[i].age < Window => es[i].age < Window
  BY <1>4, <1>5, <1>6
<1>8. ASSUME NEW i \in 1..l PROVE Weight(fs[i], P) <= Weight(es[i], O)
  <2>1. CASE ~(fs[i].age < Window)
    <3>1. Weight(fs[i], P) = 0
      BY <2>1 DEF Weight
    <3>2. Weight(es[i], O) \in Nat
      BY <1>6 DEF Weight, Least
    <3> QED
      BY <3>1, <3>2
  <2>2. CASE fs[i].age < Window /\ es[i].id \in O
    <3>1. Weight(es[i], O) = es[i].estimate
      BY <1>7, <2>2 DEF Weight
    <3>2. Weight(fs[i], P) = es[i].estimate \/ Weight(fs[i], P) = Least(fs[i].tokens, es[i].estimate)
      BY <1>4, <2>2 DEF Weight
    <3> QED
      BY <1>6, <3>1, <3>2 DEF Least
  <2>3. CASE fs[i].age < Window /\ es[i].id \notin O
    <3>1. Weight(es[i], O) = Least(es[i].tokens, es[i].estimate)
      BY <1>7, <2>3 DEF Weight
    <3>2. fs[i].id \notin P
      BY <1>2, <1>4, <2>3
    <3>3. Weight(fs[i], P) = Least(es[i].tokens, es[i].estimate)
      BY <1>4, <2>3, <3>2 DEF Weight
    <3> QED
      BY <1>6, <3>1, <3>3 DEF Least
  <2> QED
    BY <2>1, <2>2, <2>3
<1>9. Total(Weights(fs, P)) <= Total(Weights(es, O))
  <2>1. PICK s : s = Weights(es, O)
    OBVIOUS
  <2>2. PICK u : u = Weights(fs, P)
    OBVIOUS
  <2>3. s \in Seq(Nat) /\ Len(s) = l /\ \A i \in 1..l : s[i] = Weight(es[i], O)
    BY <1>2, <2>1, WeightsFacts
  <2>4. u \in Seq(Nat) /\ Len(u) = l /\ \A i \in 1..l : u[i] = Weight(fs[i], P)
    BY <1>1, <1>3, <2>2, WeightsFacts
  <2>5. Total(u) <= Total(s)
    BY <1>8, <2>3, <2>4, SumsMono
  <2> QED
    BY <2>1, <2>2, <2>5
<1>10. Total(Counts(fs)) <= Total(Counts(es))
  <2>1. PICK s : s = Counts(es)
    OBVIOUS
  <2>2. PICK u : u = Counts(fs)
    OBVIOUS
  <2>3. s \in Seq(Nat) /\ Len(s) = l /\ \A i \in 1..l : s[i] = IF es[i].age < Window THEN 1 ELSE 0
    BY <1>2, <2>1, CountsFacts
  <2>4. u \in Seq(Nat) /\ Len(u) = l /\ \A i \in 1..l : u[i] = IF fs[i].age < Window THEN 1 ELSE 0
    BY <1>1, <1>3, <2>2, CountsFacts
  <2>5. \A i \in 1..l : u[i] <= s[i]
    BY <1>7, <2>3, <2>4
  <2>6. Total(u) <= Total(s)
    BY <2>3, <2>4, <2>5, SumsMono
  <2> QED
    BY <2>1, <2>2, <2>6
<1> QED
  BY <1>9, <1>10

\* Later events are as orderly, if their ages still fall.
LEMMA LaterOrderly ==
    ASSUME NEW es, NEW n \in Nat, Orderly(es, n), NEW fs, NEW O, Later(es, fs, O),
           \A i, k \in 1..Len(es) : i < k => fs[k].age <= fs[i].age
    PROVE  Orderly(fs, n)
<1>1. /\ fs \in Seq(Event) /\ Len(fs) = Len(es)
      /\ \A i \in 1..Len(es) : fs[i].id = es[i].id /\ fs[i].estimate = es[i].estimate
  BY DEF Later
<1>2. /\ \A i, k \in 1..Len(es) : i < k => es[i].id < es[k].id
      /\ \A i \in 1..Len(es) : es[i].id <= n /\ es[i].estimate <= Tpm
  BY DEF Orderly
<1>3. \A i, k \in 1..Len(fs) : i < k => fs[k].age <= fs[i].age /\ fs[i].id < fs[k].id
  BY <1>1, <1>2
<1>4. \A i \in 1..Len(fs) : fs[i].id <= n /\ fs[i].estimate <= Tpm
  BY <1>1, <1>2
<1> QED
  BY <1>1, <1>3, <1>4 DEF Orderly

\* A request more, the first of its reservation, counts one and its estimate at most.
LEMMA RequestTotals ==
    ASSUME NEW es, NEW n \in Nat, Orderly(es, n), NEW e \in Event,
           e.age = 0, e.id = n + 1, e.estimate <= Tpm, NEW O, NEW P,
           \A i \in 1..Len(es) : es[i].id \in P => es[i].id \in O
    PROVE  /\ Orderly(Append(es, e), n + 1)
           /\ Total(Weights(Append(es, e), P)) <= Total(Weights(es, O)) + e.estimate
           /\ Total(Counts(Append(es, e))) = Total(Counts(es)) + 1
<1>1. es \in Seq(Event)
  BY DEF Orderly
<1>2. PICK l \in Nat : l = Len(es)
  BY <1>1, LenProperties
<1>3. PICK t : t = Append(es, e)
  OBVIOUS
<1>4. t \in Seq(Event) /\ Len(t) = l + 1 /\ t[l + 1] = e /\ \A k \in 1..l : t[k] = es[k]
  BY <1>1, <1>2, <1>3, AppendProperties
<1>5. Window \in Nat /\ Window > 0 /\ e.tokens \in Nat /\ e.estimate \in Nat
  <2>1. Window \in Nat \ {0} /\ Sizes \subseteq Nat
    BY RateAssumption
  <2>2. e.tokens \in Sizes /\ e.estimate \in Sizes
    BY DEF Event
  <2>3. Window \in Nat /\ Window > 0
    BY <2>1
  <2>4. e.tokens \in Nat /\ e.estimate \in Nat
    BY <2>1, <2>2
  <2> QED
    BY <2>3, <2>4
<1>6. \A i, k \in 1..l : i < k => es[k].age <= es[i].age /\ es[i].id < es[k].id
  BY <1>2 DEF Orderly
<1>7. \A i \in 1..l : es[i].id <= n /\ es[i].estimate <= Tpm
  BY <1>2 DEF Orderly
<1>8. \A i \in 1..l : es[i].age \in Nat /\ es[i].id \in Nat
  BY <1>1, <1>2, EventFacts
<1>9. Orderly(t, n + 1)
  <2>1. ASSUME NEW i \in 1..(l + 1), NEW k \in 1..(l + 1), i < k
        PROVE  t[k].age <= t[i].age /\ t[i].id < t[k].id
    <3>1. i \in 1..l
      BY <2>1
    <3>2. CASE k = l + 1
      <4>1. t[k].age = 0 /\ t[k].id = n + 1 /\ t[i] = es[i]
        BY <1>4, <3>1, <3>2
      <4>2. t[i].age \in Nat /\ t[i].id \in Nat /\ t[i].id <= n
        BY <1>7, <1>8, <3>1, <4>1
      <4> QED
        BY <4>1, <4>2
    <3>3. CASE k # l + 1
      <4>1. k \in 1..l
        BY <3>3
      <4> QED
        BY <1>4, <1>6, <2>1, <3>1, <4>1
    <3> QED
      BY <3>2, <3>3
  <2>2. ASSUME NEW i \in 1..(l + 1) PROVE t[i].id <= n + 1 /\ t[i].estimate <= Tpm
    <3>1. CASE i = l + 1
      BY <1>4, <3>1
    <3>2. CASE i # l + 1
      <4>1. i \in 1..l
        BY <3>2
      <4>2. t[i].id \in Nat /\ t[i].id <= n /\ t[i].estimate <= Tpm
        BY <1>4, <1>7, <1>8, <4>1
      <4> QED
        BY <4>2
    <3> QED
      BY <3>1, <3>2
  <2> QED
    BY <1>4, <2>1, <2>2 DEF Orderly
<1>10. Total(Weights(t, P)) <= Total(Weights(es, O)) + e.estimate
  <2>1. PICK s : s = Weights(es, P)
    OBVIOUS
  <2>2. PICK x : x = Weight(e, P)
    OBVIOUS
  <2>3. x \in Nat /\ x <= e.estimate
    BY <1>5, <2>2 DEF Weight, Least
  <2>4. s \in Seq(Nat) /\ Len(s) = l /\ \A i \in 1..l : s[i] = Weight(es[i], P)
    BY <1>1, <1>2, <2>1, WeightsFacts
  <2>5. PICK u : u = Weights(t, P)
    OBVIOUS
  <2>6. u \in Seq(Nat) /\ Len(u) = l + 1 /\ \A i \in 1..(l + 1) : u[i] = Weight(t[i], P)
    BY <1>4, <2>5, WeightsFacts
  <2>7. PICK v : v = Append(s, x)
    OBVIOUS
  <2>8. v \in Seq(Nat) /\ Len(v) = l + 1 /\ v[l + 1] = x /\ \A i \in 1..l : v[i] = s[i]
    BY <2>3, <2>4, <2>7, AppendProperties
  <2>9. ASSUME NEW i \in 1..(l + 1) PROVE u[i] = v[i]
    <3>1. CASE i = l + 1
      BY <1>4, <2>2, <2>6, <2>8, <3>1
    <3>2. CASE i # l + 1
      <4>1. i \in 1..l
        BY <3>2
      <4> QED
        BY <1>4, <2>4, <2>6, <2>8, <4>1
    <3> QED
      BY <3>1, <3>2
  <2>10. u = v
    BY <2>6, <2>8, <2>9, SeqEqual
  <2>11. Total(u) = Total(s) + x
    BY <2>3, <2>4, <2>7, <2>10, AppendTotal
  <2>12. Later(es, es, O)
    BY <1>1, <1>2, <1>8 DEF Later
  <2>13. Total(s) <= Total(Weights(es, O))
    BY <1>1, <2>1, <2>12, LaterTotals
  <2>14. Total(s) \in Nat
    BY <2>4, SumsStep
  <2>15. PICK y \in Nat : y = Total(Weights(es, O))
    BY <1>1, WeightsFacts, SumsStep
  <2> QED
    BY <1>5, <2>3, <2>5, <2>11, <2>13, <2>14, <2>15
<1>11. Total(Counts(t)) = Total(Counts(es)) + 1
  <2>1. PICK s : s = Counts(es)
    OBVIOUS
  <2>2. s \in Seq(Nat) /\ Len(s) = l /\ \A i \in 1..l : s[i] = IF es[i].age < Window THEN 1 ELSE 0
    BY <1>1, <1>2, <2>1, CountsFacts
  <2>3. PICK u : u = Counts(t)
    OBVIOUS
  <2>4. u \in Seq(Nat) /\ Len(u) = l + 1 /\ \A i \in 1..(l + 1) : u[i] = IF t[i].age < Window THEN 1 ELSE 0
    BY <1>4, <2>3, CountsFacts
  <2>5. PICK v : v = Append(s, 1)
    OBVIOUS
  <2>6. v \in Seq(Nat) /\ Len(v) = l + 1 /\ v[l + 1] = 1 /\ \A i \in 1..l : v[i] = s[i]
    BY <2>2, <2>5, AppendProperties
  <2>7. ASSUME NEW i \in 1..(l + 1) PROVE u[i] = v[i]
    <3>1. CASE i = l + 1
      BY <1>4, <1>5, <2>4, <2>6, <3>1
    <3>2. CASE i # l + 1
      <4>1. i \in 1..l
        BY <3>2
      <4> QED
        BY <1>4, <2>2, <2>4, <2>6, <4>1
    <3> QED
      BY <3>1, <3>2
  <2>8. u = v
    BY <2>4, <2>6, <2>7, SeqEqual
  <2>9. Total(v) = Total(s) + 1
    BY <2>2, <2>5, AppendTotal
  <2> QED
    BY <2>1, <2>3, <2>8, <2>9
<1> QED
  BY <1>3, <1>9, <1>10, <1>11

-----------------------------------------------------------------------------
(* The invariant.                                                          *)

\* Clients that a reservation is made for, and those it is not yet made for.
Owners == {c \in Client : at[c] \in {"active", "reported"}}
Waiting == {c \in Client : at[c] \in {"asking", "admitted"}}
Owned == {mine[c] : c \in Client}

\* A client has a reservation of its own from Reserve until it forgets it,
\* and a running one is active; before, it has an estimate.
OwnersInv ==
    /\ \A c \in Client : /\ mine[c] # 0 <=> c \in Owners
                         /\ mine[c] <= counter
                         /\ at[c] = "active" => mine[c] \in active
                         /\ c \in Waiting => size[c] \in Sizes
                         /\ at[c] = "admitted" => size[c] <= Tpm
    /\ \A c, d \in Client : c # d /\ mine[c] # 0 => mine[c] # mine[d]

\* Reservations are numbered, counted, and there is room for those to come.
CountInv ==
    /\ active \subseteq 1..counter
    /\ inFlight = Cardinality(active)
    /\ counter + Cardinality(Waiting) <= MaxRequests

\* Those that passed the check have their requests in the window.
RequestsInv == Total(Counts(events)) + Cardinality(Admitted) + 1 <= Rpm + Cardinality(Client)

\* Own is what a client that passed the check last adds to the window, as the
\* check has seen.
Own(c) == IF at[c] = "admitted" THEN size[c] ELSE 0

\* With c the last to have passed the check, everybody else has at most one
\* request since, or one that an outcome may still be reported for, and each of
\* these fits the limit alone.
TokensInv ==
    \E c \in Client :
        Total(Weights(events, Owned)) + Own(c) + Fit * Cardinality(Admitted \ {c})
            <= Tpm + (Cardinality(Client) - 1) * Fit

RateInv ==
    /\ RateTypeOK
    /\ Orderly(events, counter)
    /\ OwnersInv
    /\ CountInv
    /\ RequestsInv
    /\ TokensInv
-----------------------------------------------------------------------------
\* Products of natural numbers are monotonic.
LEMMA TimesMono ==
    ASSUME NEW a \in Nat, NEW b \in Nat, NEW c \in Nat, b <= c
    PROVE  a * b \in Nat /\ a * c \in Nat /\ a * b <= a * c
<1>1. PICK d \in Nat : c = b + d
  <2>1. c - b \in Nat /\ c = b + (c - b)
    OBVIOUS
  <2> QED
    BY <2>1
<1>2. a * c = a * b + a * d
  BY <1>1
<1>3. a * b \in Nat /\ a * d \in Nat
  OBVIOUS
<1>4. PICK p \in Nat : p = a * b
  BY <1>3
<1>5. PICK q \in Nat : q = a * d
  BY <1>3
<1> QED
  BY <1>2, <1>4, <1>5

\* Fit is the largest size that fits the limit.
LEMMA FitFacts ==
    /\ Fit \in Nat /\ Fit <= Tpm
    /\ \A n \in Sizes : n <= Tpm => n <= Fit
<1>1. Tpm \in Nat /\ Sizes \subseteq Nat
  BY RateAssumption
<1>2. PICK T : T = {n \in Sizes : n <= Tpm} \cup {0}
  OBVIOUS
<1>3. T \in SUBSET (0..Tpm) /\ T # {}
  <2>1. ASSUME NEW x \in T PROVE x \in 0..Tpm
    <3>1. CASE x = 0
      BY <1>1, <3>1
    <3>2. CASE x # 0
      <4>1. x \in Sizes /\ x <= Tpm
        BY <1>2, <3>2
      <4>2. x \in Nat
        BY <1>1, <4>1
      <4> QED
        BY <1>1, <4>1, <4>2
    <3> QED
      BY <3>1, <3>2
  <2>2. 0 \in T
    BY <1>2
  <2> QED
    BY <2>1, <2>2
<1>4. Max(T) \in T /\ \A y \in T : Max(T) >= y
  BY <1>1, <1>3, MaxFacts
<1>5. Fit = Max(T)
  BY <1>2 DEF Fit
<1>6. Fit \in 0..Tpm /\ \A n \in T : n <= Fit
  <2>1. PICK m \in 0..Tpm : m = Max(T)
    BY <1>3, <1>4
  <2>2. \A n \in T : n \in 0..Tpm /\ m >= n
    BY <1>3, <1>4, <2>1
  <2> QED
    BY <1>5, <2>1, <2>2
<1>7. \A n \in Sizes : n <= Tpm => n \in T
  BY <1>2
<1> QED
  BY <1>1, <1>6, <1>7

\* The parts of the assumption.
LEMMA RateConstants ==
    /\ IsFiniteSet(Client) /\ Cardinality(Client) \in Nat /\ Cardinality(Client) >= 1
    /\ Rpm \in Nat /\ Rpm >= 1 /\ Tpm \in Nat /\ BaseCap \in Nat /\ BaseCap >= 1
    /\ RestoreAfter \in Nat /\ RestoreAfter >= 1 /\ Window \in Nat /\ Window >= 1
    /\ MaxRequests \in Nat /\ MaxRestarts \in Nat /\ Sizes \subseteq Nat
<1>1. IsFiniteSet(Client) /\ Client # {}
  BY RateAssumption
<1>2. Cardinality(Client) \in Nat /\ Cardinality(Client) # 0
  BY <1>1, FS_CardinalityType, FS_EmptySet
<1>3. Cardinality(Client) >= 1
  BY <1>2
<1>4. \A x \in Nat \ {0} : x \in Nat /\ x >= 1
  OBVIOUS
<1>5. /\ Rpm \in Nat \ {0} /\ Tpm \in Nat \ {0} /\ BaseCap \in Nat \ {0}
      /\ RestoreAfter \in Nat \ {0} /\ Window \in Nat \ {0}
  BY RateAssumption
<1>6. MaxRequests \in Nat /\ MaxRestarts \in Nat /\ Sizes \subseteq Nat
  BY RateAssumption
<1> QED
  BY <1>1, <1>2, <1>3, <1>4, <1>5, <1>6

\* Of a live window, the weights exceed the tokens used by one fitting request
\* at most for each client that owns one.
LEMMA OwnedWeight ==
    ASSUME NEW es, NEW n \in Nat, Orderly(es, n), \A i \in 1..Len(es) : es[i].age < Window,
           NEW O, NEW D, IsFiniteSet(D), NEW m,
           \A i \in 1..Len(es) : es[i].id \in O => \E d \in D : m[d] = es[i].id
    PROVE  Total(Weights(es, O)) <= Tokens(es) + Fit * Cardinality(D)
<1>1. es \in Seq(Event)
  BY DEF Orderly
<1>2. PICK l \in Nat : l = Len(es)
  BY <1>1, LenProperties
<1>3. \A i, k \in 1..l : i < k => es[i].id < es[k].id
  BY <1>2 DEF Orderly
<1>4. \A i \in 1..l : /\ es[i].estimate \in Sizes /\ es[i].estimate \in Nat /\ es[i].estimate <= Tpm
                      /\ es[i].tokens \in Nat /\ es[i].id \in Nat
  <2>1. \A i \in 1..l : es[i].estimate <= Tpm
    BY <1>2 DEF Orderly
  <2> QED
    BY <1>1, <1>2, <2>1, EventFacts
<1>5. PICK X : X = {k \in 1..l : es[k].id \in O}
  OBVIOUS
<1>6. Cardinality(X) \in Nat /\ Cardinality(D) \in Nat /\ Cardinality(X) <= Cardinality(D)
  <2>1. PICK g : g = [k \in X |-> CHOOSE d \in D : m[d] = es[k].id]
    OBVIOUS
  <2>2. \A k \in X : g[k] \in D /\ m[g[k]] = es[k].id
    BY <1>2, <1>5, <2>1
  <2>3. ASSUME NEW i \in X, NEW k \in X, g[i] = g[k] PROVE i = k
    <3>1. es[i].id = es[k].id
      BY <2>2, <2>3
    <3>2. i \in 1..l /\ k \in 1..l
      BY <1>5
    <3>3. es[i].id \in Nat /\ es[k].id \in Nat /\ i \in Nat /\ k \in Nat
      BY <1>4, <3>2
    <3>4. ~(i < k) /\ ~(k < i)
      BY <1>3, <3>1, <3>2, <3>3
    <3> QED
      BY <3>3, <3>4
  <2>4. g \in Injection(X, D)
    <3>1. g \in [X -> D]
      BY <2>1, <2>2
    <3> QED
      BY <2>3, <3>1 DEF Injection, IsInjective
  <2>5. IsFiniteSet(X) /\ Cardinality(X) <= Cardinality(D)
    BY <2>4, FS_Injection
  <2> QED
    BY <2>5, FS_CardinalityType
<1>7. PICK r : r = [k \in 1..l |-> IF k \in X THEN Fit ELSE 0]
  OBVIOUS
<1>8. r \in Seq(Nat) /\ Len(r) = l /\ \A k \in 1..l : r[k] = IF k \in X THEN Fit ELSE 0
  <2>1. r \in [1..l -> Nat]
    BY <1>7, FitFacts
  <2>2. r \in Seq(Nat) /\ Len(r) = l
    BY <1>2, <2>1
  <2> QED
    BY <1>7, <2>2
<1>9. Total(r) = Fit * Cardinality(X)
  <2>1. X \in SUBSET (1..Len(r))
    BY <1>5, <1>8
  <2> QED
    BY <1>8, <2>1, FitFacts, MarkedTotal
<1>10. PICK s : s = Weights(es, O)
  OBVIOUS
<1>11. s \in Seq(Nat) /\ Len(s) = l /\ \A i \in 1..l : s[i] = Weight(es[i], O)
  BY <1>1, <1>2, <1>10, WeightsFacts
<1>12. PICK t : t = Used(es)
  OBVIOUS
<1>13. t \in Seq(Nat) /\ Len(t) = l /\ Tokens(es) = Total(t) /\ \A i \in 1..l : t[i] = es[i].tokens
  BY <1>1, <1>2, <1>12, UsedFacts
<1>14. ASSUME NEW i \in 1..l PROVE s[i] <= t[i] + r[i]
  <2>1. CASE i \in X
    <3>1. es[i].id \in O
      BY <1>5, <2>1
    <3>2. s[i] = es[i].estimate
      BY <1>2, <1>11, <3>1 DEF Weight
    <3>3. r[i] = Fit /\ es[i].estimate <= Fit /\ t[i] = es[i].tokens
      BY <1>4, <1>8, <1>13, <2>1, FitFacts
    <3> QED
      BY <1>4, <3>2, <3>3, FitFacts
  <2>2. CASE i \notin X
    <3>1. es[i].id \notin O
      BY <1>5, <2>2
    <3>2. s[i] = Least(es[i].tokens, es[i].estimate)
      BY <1>2, <1>11, <3>1 DEF Weight
    <3>3. r[i] = 0 /\ t[i] = es[i].tokens
      BY <1>8, <1>13, <2>2
    <3> QED
      BY <1>4, <3>2, <3>3 DEF Least
  <2> QED
    BY <2>1, <2>2
<1>15. Total(s) <= Total(t) + Total(r)
  <2>1. \A k \in 0..Len(s) : Sums(s)[k] <= Sums(t)[k] + Sums(r)[k]
    BY <1>8, <1>11, <1>13, <1>14, SumsAdd
  <2>2. l \in 0..Len(s)
    BY <1>11
  <2> QED
    BY <1>8, <1>11, <1>13, <2>1, <2>2 DEF Total
<1>16. Fit * Cardinality(X) <= Fit * Cardinality(D) /\ Fit * Cardinality(X) \in Nat /\ Fit * Cardinality(D) \in Nat
  BY <1>6, FitFacts, TimesMono
<1>17. Total(s) \in Nat /\ Total(t) \in Nat
  BY <1>11, <1>13, SumsStep
<1>18. PICK p \in Nat : p = Fit * Cardinality(X)
  BY <1>16
<1>19. PICK q \in Nat : q = Fit * Cardinality(D)
  BY <1>16
<1> QED
  BY <1>9, <1>10, <1>13, <1>15, <1>16, <1>17, <1>18, <1>19

\* The window after a step that lets it age, corrects what is owned, and purges it.
LEMMA WindowStep ==
    ASSUME NEW es, NEW n \in Nat, Orderly(es, n), NEW fs, NEW O, NEW P, Later(es, fs, O),
           \A i, k \in 1..Len(es) : i < k => fs[k].age <= fs[i].age,
           \A i \in 1..Len(es) : es[i].id \in P => es[i].id \in O,
           NEW gs, gs = fs \/ gs = Purged(fs)
    PROVE  /\ Orderly(gs, n)
           /\ Total(Weights(gs, P)) \in Nat /\ Total(Weights(es, O)) \in Nat
           /\ Total(Counts(gs)) \in Nat /\ Total(Counts(es)) \in Nat
           /\ Total(Weights(gs, P)) <= Total(Weights(es, O))
           /\ Total(Counts(gs)) <= Total(Counts(es))
<1>1. Orderly(fs, n)
  BY LaterOrderly
<1>2. Orderly(gs, n)
  BY <1>1, PurgedFacts
<1>3. es \in Seq(Event) /\ gs \in Seq(Event)
  BY <1>2 DEF Orderly
<1>4. /\ Total(Weights(fs, P)) <= Total(Weights(es, O))
      /\ Total(Counts(fs)) <= Total(Counts(es))
  BY <1>3, LaterTotals
<1>5. Total(Weights(gs, P)) = Total(Weights(fs, P)) /\ Total(Counts(gs)) = Total(Counts(fs))
  BY <1>1, PurgedTotals
<1>6. /\ Total(Weights(gs, P)) \in Nat /\ Total(Weights(es, O)) \in Nat
      /\ Total(Counts(gs)) \in Nat /\ Total(Counts(es)) \in Nat
  BY <1>3, WeightsFacts, CountsFacts, SumsStep
<1> QED
  BY <1>2, <1>4, <1>5, <1>6

\* Cardinalities of sets of clients.
LEMMA ClientSets ==
    ASSUME NEW S \in SUBSET Client
    PROVE  /\ IsFiniteSet(S) /\ Cardinality(S) \in Nat /\ Cardinality(S) <= Cardinality(Client)
           /\ \A T \in SUBSET S : Cardinality(T) \in Nat /\ Cardinality(T) <= Cardinality(S)
<1>1. IsFiniteSet(S) /\ Cardinality(S) <= Cardinality(Client)
  BY RateConstants, FS_Subset
<1>2. ASSUME NEW T \in SUBSET S PROVE Cardinality(T) \in Nat /\ Cardinality(T) <= Cardinality(S)
  <2>1. IsFiniteSet(T) /\ Cardinality(T) <= Cardinality(S)
    BY <1>1, FS_Subset
  <2> QED
    BY <2>1, FS_CardinalityType
<1> QED
  BY <1>1, <1>2, FS_CardinalityType

\* A step that lets nobody pass keeps the window within its limits.
LEMMA QuietStep ==
    ASSUME RateInv, NEW fs, Later(events, fs, Owned),
           \A i, k \in 1..Len(events) : i < k => fs[k].age <= fs[i].age,
           events' = fs \/ events' = Purged(fs), counter' = counter,
           \A c \in Client : mine'[c] = mine[c] \/ mine'[c] = 0,
           Admitted' \subseteq Admitted, \A c \in Admitted' : size'[c] = size[c]
    PROVE  Orderly(events, counter)' /\ RequestsInv' /\ TokensInv'
<1>1. Orderly(events, counter) /\ counter \in Nat /\ events \in Seq(Event)
  <2>1. counter \in 0..MaxRequests
    BY DEF RateInv, RateTypeOK
  <2>2. counter \in Nat
    BY <2>1
  <2> QED
    BY <2>2 DEF RateInv, Orderly
<1>2. \A i \in 1..Len(events) : events[i].id \in Owned' => events[i].id \in Owned
  <2> SUFFICES ASSUME NEW i \in 1..Len(events), events[i].id \in Owned' PROVE events[i].id \in Owned
    OBVIOUS
  <2>1. PICK c \in Client : events[i].id = mine'[c]
    BY DEF Owned
  <2>2. events[i].id \in Nat /\ events[i].id # 0
    BY <1>1, EventFacts
  <2>3. events[i].id = mine[c]
    BY <2>1, <2>2
  <2> QED
    BY <2>3 DEF Owned
<1>3. PICK O : O = Owned
  OBVIOUS
<1>4. PICK P : P = Owned'
  OBVIOUS
<1>5. PICK es : es = events
  OBVIOUS
<1>6. PICK gs : gs = events'
  OBVIOUS
<1>7. PICK n : n = counter
  OBVIOUS
<1>8. /\ Orderly(gs, n)
      /\ Total(Weights(gs, P)) \in Nat /\ Total(Weights(es, O)) \in Nat
      /\ Total(Counts(gs)) \in Nat /\ Total(Counts(es)) \in Nat
      /\ Total(Weights(gs, P)) <= Total(Weights(es, O))
      /\ Total(Counts(gs)) <= Total(Counts(es))
  <2>1. Orderly(es, n) /\ n \in Nat /\ Later(es, fs, O)
    BY <1>1, <1>3, <1>5, <1>7
  <2>2. \A i, k \in 1..Len(es) : i < k => fs[k].age <= fs[i].age
    BY <1>5
  <2>3. \A i \in 1..Len(es) : es[i].id \in P => es[i].id \in O
    BY <1>2, <1>3, <1>4, <1>5
  <2>4. gs = fs \/ gs = Purged(fs)
    BY <1>6
  <2> QED
    BY <2>1, <2>2, <2>3, <2>4, WindowStep
<1>9. Orderly(events, counter)'
  BY <1>6, <1>7, <1>8
<1>10. PICK A \in SUBSET Client : A = Admitted
  BY DEF Admitted
<1>11. PICK B \in SUBSET Client : B = Admitted'
  BY DEF Admitted
<1>12. B \subseteq A
  BY <1>10, <1>11
<1>13. PICK x \in Nat : x = Total(Weights(es, O))
  BY <1>8
<1>14. PICK y \in Nat : y = Total(Weights(gs, P))
  BY <1>8
<1>15. RequestsInv'
  <2>1. Total(Counts(es)) + Cardinality(A) + 1 <= Rpm + Cardinality(Client)
    BY <1>5, <1>10 DEF RateInv, RequestsInv
  <2>2. Cardinality(B) \in Nat /\ Cardinality(A) \in Nat /\ Cardinality(B) <= Cardinality(A)
    BY <1>12, ClientSets
  <2>3. Total(Counts(gs)) + Cardinality(B) + 1 <= Rpm + Cardinality(Client)
    BY <1>8, <2>1, <2>2, RateConstants
  <2> QED
    BY <1>6, <1>11, <2>3 DEF RequestsInv
<1>16. PICK c \in Client : x + Own(c) + Fit * Cardinality(A \ {c}) <= Tpm + (Cardinality(Client) - 1) * Fit
  BY <1>3, <1>5, <1>10, <1>13 DEF RateInv, TokensInv
<1>17. PICK o : o = Own(c)
  OBVIOUS
<1>18. PICK q : q = Own(c)'
  OBVIOUS
<1>19. o \in Nat /\ q \in Nat /\ q <= o
  <2>1. size[c] \in Nat
    <3>1. size[c] \in Sizes \/ size[c] = 0
      BY DEF RateInv, RateTypeOK
    <3>2. Sizes \subseteq Nat
      BY RateConstants
    <3>3. CASE size[c] = 0
      BY <3>3
    <3>4. CASE size[c] \in Sizes
      BY <3>2, <3>4
    <3> QED
      BY <3>1, <3>3, <3>4
  <2>2. q = 0 \/ (at'[c] = "admitted" /\ q = size'[c])
    BY <1>18 DEF Own
  <2>3. CASE q = 0
    BY <1>17, <2>1, <2>3 DEF Own
  <2>4. CASE at'[c] = "admitted" /\ q = size'[c]
    <3>1. c \in Admitted'
      BY <2>4 DEF Admitted
    <3>2. c \in Admitted /\ size'[c] = size[c]
      BY <3>1
    <3>3. o = size[c]
      BY <1>17, <3>2 DEF Own, Admitted
    <3> QED
      BY <2>1, <2>4, <3>2, <3>3
  <2> QED
    BY <2>2, <2>3, <2>4
<1>20. /\ Fit * Cardinality(B \ {c}) \in Nat /\ Fit * Cardinality(A \ {c}) \in Nat
       /\ Fit * Cardinality(B \ {c}) <= Fit * Cardinality(A \ {c})
  <2>1. A \ {c} \in SUBSET Client /\ B \ {c} \in SUBSET (A \ {c})
    BY <1>12
  <2>2. /\ Cardinality(B \ {c}) \in Nat /\ Cardinality(A \ {c}) \in Nat
        /\ Cardinality(B \ {c}) <= Cardinality(A \ {c})
    BY <2>1, ClientSets
  <2> QED
    BY <2>2, FitFacts, TimesMono
<1>21. PICK u \in Nat : u = Fit * Cardinality(A \ {c})
  BY <1>20
<1>22. PICK v \in Nat : v = Fit * Cardinality(B \ {c})
  BY <1>20
<1>23. y + q + v <= x + o + u
  BY <1>8, <1>13, <1>14, <1>19, <1>20, <1>21, <1>22
<1>24. PICK z \in Int : z = Tpm + (Cardinality(Client) - 1) * Fit
  BY RateConstants, FitFacts
<1>25. y + q + v <= z
  BY <1>16, <1>17, <1>19, <1>21, <1>23, <1>24
<1>26. TokensInv'
  BY <1>4, <1>6, <1>11, <1>14, <1>18, <1>22, <1>24, <1>25 DEF TokensInv
<1> QED
  BY <1>9, <1>15, <1>26

-----------------------------------------------------------------------------
(* The steps.                                                              *)

\* Events are later than themselves.
LEMMA SelfLater ==
    ASSUME NEW es, NEW n \in Nat, Orderly(es, n), NEW O
    PROVE  /\ Later(es, es, O)
           /\ \A i, k \in 1..Len(es) : i < k => es[k].age <= es[i].age
<1>1. es \in Seq(Event)
  BY DEF Orderly
<1>2. \A i \in 1..Len(es) : es[i].age \in Nat
  BY <1>1, EventFacts
<1> QED
  BY <1>1, <1>2 DEF Orderly, Later

\* The types, one by one.
LEMMA RateTypes ==
    ASSUME RateInv
    PROVE  /\ Orderly(events, counter) /\ events \in Seq(Event)
           /\ active \subseteq 1..MaxRequests /\ active \subseteq 1..counter
           /\ IsFiniteSet(active) /\ inFlight = Cardinality(active) /\ inFlight \in Nat
           /\ cap \in Nat /\ cap >= 1 /\ cap <= BaseCap
           /\ streak \in Nat /\ streak <= RestoreAfter - 1
           /\ counter \in Nat /\ counter <= MaxRequests
           /\ at \in [Client -> {"idle", "asking", "admitted", "active", "reported"}]
           /\ size \in [Client -> Sizes \cup {0}]
           /\ sleep \in [Client -> 0..Window]
           /\ mine \in [Client -> 0..MaxRequests]
           /\ restarts \in 0..MaxRestarts
           /\ \A c \in Client : mine[c] \in Nat /\ sleep[c] \in Nat /\ size[c] \in Nat
<1>1. RateTypeOK /\ CountInv /\ Orderly(events, counter)
  BY DEF RateInv
<1>2. counter \in Nat /\ counter <= MaxRequests
  BY <1>1, RateConstants DEF RateTypeOK
<1>3. cap \in Nat /\ cap >= 1 /\ cap <= BaseCap
  BY <1>1, RateConstants DEF RateTypeOK
<1>4. streak \in Nat /\ streak <= RestoreAfter - 1
  BY <1>1, RateConstants DEF RateTypeOK
<1>5. IsFiniteSet(active) /\ inFlight = Cardinality(active) /\ inFlight \in Nat
  <2>1. active \subseteq 1..counter /\ inFlight = Cardinality(active)
    BY <1>1 DEF CountInv
  <2>2. IsFiniteSet(1..counter)
    BY <1>2, FS_Interval
  <2>3. IsFiniteSet(active)
    BY <2>1, <2>2, FS_Subset
  <2> QED
    BY <2>1, <2>3, FS_CardinalityType
<1>6. ASSUME NEW c \in Client PROVE mine[c] \in Nat /\ sleep[c] \in Nat /\ size[c] \in Nat
  <2>1. mine[c] \in 0..MaxRequests /\ sleep[c] \in 0..Window /\ size[c] \in Sizes \cup {0}
    BY <1>1 DEF RateTypeOK
  <2>2. mine[c] \in Nat /\ sleep[c] \in Nat
    BY <2>1
  <2>3. CASE size[c] = 0
    BY <2>2, <2>3
  <2>4. CASE size[c] # 0
    <3>1. size[c] \in Sizes
      BY <2>1, <2>4
    <3>2. size[c] \in Nat
      BY <3>1, RateConstants
    <3> QED
      BY <2>2, <3>2
  <2> QED
    BY <2>3, <2>4
<1> QED
  BY <1>1, <1>2, <1>3, <1>4, <1>5, <1>6 DEF RateTypeOK, CountInv, Orderly

\* Nothing is in the window, nobody is anywhere.
LEMMA RateInitInv == RateInit => RateInv
<1> SUFFICES ASSUME RateInit PROVE RateInv
  OBVIOUS
<1>1. events = <<>> /\ counter = 0 /\ events \in Seq(Event) /\ Len(events) = 0
  BY EmptySeq DEF RateInit
<1>2. Orderly(events, counter)
  BY <1>1 DEF Orderly
<1>3. Owners = {} /\ Waiting = {} /\ Admitted = {}
  BY DEF RateInit, Owners, Waiting, Admitted
<1>4. \A c \in Client : at[c] = "idle" /\ mine[c] = 0 /\ size[c] = 0
  BY DEF RateInit
<1>5. RateTypeOK
  <2>1. cap \in 1..BaseCap
    BY RateConstants DEF RateInit
  <2>2. streak \in 0..RestoreAfter - 1
    BY RateConstants DEF RateInit
  <2>3. counter \in 0..MaxRequests /\ restarts \in 0..MaxRestarts
    BY RateConstants DEF RateInit
  <2>4. sleep \in [Client -> 0..Window] /\ mine \in [Client -> 0..MaxRequests]
    BY RateConstants DEF RateInit
  <2>5. size \in [Client -> Sizes \cup {0}]
    BY DEF RateInit
  <2>6. at \in [Client -> {"idle", "asking", "admitted", "active", "reported"}]
    BY DEF RateInit
  <2>7. active \subseteq 1..MaxRequests /\ inFlight \in Nat
    BY DEF RateInit
  <2> QED
    BY <1>1, <2>1, <2>2, <2>3, <2>4, <2>5, <2>6, <2>7 DEF RateTypeOK
<1>6. OwnersInv
  BY <1>1, <1>3, <1>4 DEF OwnersInv
<1>7. Cardinality({}) = 0
  BY FS_EmptySet
<1>8. CountInv
  <2>1. active = {} /\ inFlight = 0
    BY DEF RateInit
  <2> QED
    BY <1>1, <1>3, <1>7, <2>1, RateConstants DEF CountInv
<1>9. Total(Counts(events)) = 0 /\ Total(Weights(events, Owned)) = 0
  <2>1. PICK s : s = Counts(events)
    OBVIOUS
  <2>2. PICK t : t = Weights(events, Owned)
    OBVIOUS
  <2>3. s \in Seq(Nat) /\ Len(s) = 0 /\ t \in Seq(Nat) /\ Len(t) = 0
    BY <1>1, <2>1, <2>2, CountsFacts, WeightsFacts
  <2>4. Total(s) = 0 /\ Total(t) = 0
    BY <2>3, SumsStep
  <2> QED
    BY <2>1, <2>2, <2>4
<1>10. RequestsInv
  BY <1>3, <1>7, <1>9, RateConstants DEF RequestsInv
<1>11. TokensInv
  <2>1. PICK c \in Client : TRUE
    BY RateAssumption
  <2>2. Own(c) = 0 /\ Admitted \ {c} = {}
    BY <1>3, <1>4 DEF Own
  <2>3. Cardinality(Client) - 1 \in Nat
    BY RateConstants
  <2>4. PICK m \in Nat : m = Cardinality(Client) - 1
    BY <2>3
  <2>5. m * Fit \in Nat /\ Fit * 0 = 0
    BY FitFacts
  <2>6. PICK p \in Nat : p = m * Fit
    BY <2>5
  <2>7. 0 + 0 + 0 <= Tpm + p
    BY <2>6, RateConstants
  <2>8. Total(Weights(events, Owned)) + Own(c) + Fit * Cardinality(Admitted \ {c}) = 0 + 0 + 0
    BY <1>7, <1>9, <2>2, <2>5
  <2> QED
    BY <2>4, <2>6, <2>7, <2>8 DEF TokensInv
<1> QED
  BY <1>2, <1>5, <1>6, <1>8, <1>10, <1>11 DEF RateInv

\* A client asks.
LEMMA AcquireStep ==
    ASSUME RateInv, NEW c \in Client, NEW n \in Sizes, acquire(c, n)
    PROVE  RateInv'
<1>1. /\ at[c] = "idle"
      /\ counter + Cardinality({d \in Client : at[d] \in {"asking", "admitted"}}) < MaxRequests
      /\ at' = [at EXCEPT ![c] = "asking"]
      /\ size' = [size EXCEPT ![c] = n]
      /\ UNCHANGED <<events, active, inFlight, cap, streak, counter, sleep, mine, restarts>>
  BY DEF acquire, window, adaptive
<1>2. /\ at'[c] = "asking" /\ size'[c] = n
      /\ \A d \in Client : d # c => at'[d] = at[d] /\ size'[d] = size[d]
  BY <1>1, RateTypes
<1>3. Orderly(events, counter)' /\ RequestsInv' /\ TokensInv'
  <2>1. Later(events, events, Owned) /\ \A i, k \in 1..Len(events) : i < k => events[k].age <= events[i].age
    BY RateTypes, SelfLater
  <2>2. Admitted' \subseteq Admitted /\ \A d \in Admitted' : size'[d] = size[d]
    BY <1>2 DEF Admitted
  <2>3. \A d \in Client : mine'[d] = mine[d] \/ mine'[d] = 0
    BY <1>1
  <2> QED
    BY <1>1, <2>1, <2>2, <2>3, QuietStep
<1>4. OwnersInv'
  <2>1. OwnersInv
    BY DEF RateInv
  <2>2. ASSUME NEW d \in Client
        PROVE  /\ mine'[d] # 0 <=> d \in Owners'
               /\ mine'[d] <= counter'
               /\ at'[d] = "active" => mine'[d] \in active'
               /\ d \in Waiting' => size'[d] \in Sizes
               /\ at'[d] = "admitted" => size'[d] <= Tpm
    <3>1. CASE d = c
      <4>1. mine[c] = 0
        BY <1>1, <2>1 DEF OwnersInv, Owners
      <4> QED
        BY <1>1, <1>2, <2>1, <3>1, <4>1 DEF OwnersInv, Owners
    <3>2. CASE d # c
      BY <1>1, <1>2, <2>1, <3>2 DEF OwnersInv, Owners, Waiting
    <3> QED
      BY <3>1, <3>2
  <2>3. \A d, e \in Client : d # e /\ mine'[d] # 0 => mine'[d] # mine'[e]
    BY <1>1, <2>1 DEF OwnersInv
  <2> QED
    BY <2>2, <2>3 DEF OwnersInv
<1>5. CountInv'
  <2>1. Waiting' = Waiting \cup {c} /\ c \notin Waiting
    BY <1>1, <1>2 DEF Waiting
  <2>2. Waiting \in SUBSET Client
    BY DEF Waiting
  <2>3. IsFiniteSet(Waiting) /\ Cardinality(Waiting) \in Nat
    BY <2>2, ClientSets
  <2>4. PICK W : W = Waiting
    OBVIOUS
  <2>5. Cardinality(W \cup {c}) = Cardinality(W) + 1
    BY <2>1, <2>3, <2>4, FS_AddElement
  <2>6. counter + Cardinality(W) < MaxRequests
    BY <1>1, <2>4 DEF Waiting
  <2>7. counter + (Cardinality(W) + 1) <= MaxRequests
    BY <2>3, <2>4, <2>6, RateTypes, RateConstants
  <2>8. counter' + Cardinality(Waiting') <= MaxRequests
    BY <1>1, <2>1, <2>4, <2>5, <2>7
  <2> QED
    BY <1>1, <2>8, RateTypes DEF CountInv
<1>6. RateTypeOK'
  <2>1. at' \in [Client -> {"idle", "asking", "admitted", "active", "reported"}]
    BY <1>1, RateTypes
  <2>2. size' \in [Client -> Sizes \cup {0}]
    BY <1>1, RateTypes
  <2>3. RateTypeOK
    BY DEF RateInv
  <2> QED
    BY <1>1, <2>1, <2>2, <2>3 DEF RateTypeOK
<1> QED
  BY <1>3, <1>4, <1>5, <1>6 DEF RateInv

\* What a report or its end leaves of the owners.
LEMMA ReportStep ==
    ASSUME RateInv, NEW c \in Client, Reports(c),
           counter' = counter, size' = size, active' = active \/ active' = active \ {mine[c]}
    PROVE  /\ OwnersInv'
           /\ at' \in [Client -> {"idle", "asking", "admitted", "active", "reported"}]
           /\ mine' \in [Client -> 0..MaxRequests]
           /\ Admitted' = Admitted /\ Waiting' = Waiting
           /\ \A d \in Client : mine'[d] = mine[d] \/ mine'[d] = 0
<1>1. \/ at[c] = "active" /\ at' = [at EXCEPT ![c] = "reported"] /\ mine' = mine
      \/ at[c] = "reported" /\ at' = [at EXCEPT ![c] = "idle"] /\ mine' = [mine EXCEPT ![c] = 0]
  BY DEF Reports, Forgets
<1>2. /\ \/ at[c] = "active" /\ at'[c] = "reported" /\ mine'[c] = mine[c]
         \/ at[c] = "reported" /\ at'[c] = "idle" /\ mine'[c] = 0
      /\ \A d \in Client : d # c => at'[d] = at[d] /\ mine'[d] = mine[d]
  BY <1>1, RateTypes
<1>3. /\ at' \in [Client -> {"idle", "asking", "admitted", "active", "reported"}]
      /\ mine' \in [Client -> 0..MaxRequests]
  <2>1. 0 \in 0..MaxRequests
    BY RateConstants
  <2> QED
    BY <1>1, <2>1, RateTypes
<1>4. Admitted' = Admitted /\ Waiting' = Waiting
  <2>1. ASSUME NEW d \in Client
        PROVE  (at'[d] = "admitted" <=> at[d] = "admitted") /\ (at'[d] = "asking" <=> at[d] = "asking")
    BY <1>2
  <2> QED
    BY <2>1 DEF Admitted, Waiting
<1>5. OwnersInv
  BY DEF RateInv
<1>6. ASSUME NEW d \in Client
      PROVE  /\ mine'[d] # 0 <=> d \in Owners'
             /\ mine'[d] <= counter'
             /\ at'[d] = "active" => mine'[d] \in active'
             /\ d \in Waiting' => size'[d] \in Sizes
             /\ at'[d] = "admitted" => size'[d] <= Tpm
  <2>1. CASE d = c
    <3>1. mine[c] # 0 /\ mine[c] <= counter /\ 0 <= counter
      BY <1>1, <1>5, RateTypes DEF OwnersInv, Owners
    <3> QED
      BY <1>2, <2>1, <3>1 DEF Owners, Waiting
  <2>2. CASE d # c
    <3>1. at'[d] = at[d] /\ mine'[d] = mine[d]
      BY <1>2, <2>2
    <3>2. ASSUME at[d] = "active" PROVE mine[d] \in active'
      <4>1. mine[d] \in active /\ mine[d] # 0
        BY <1>5, <3>2 DEF OwnersInv, Owners
      <4>2. mine[d] # mine[c]
        BY <1>5, <2>2, <4>1 DEF OwnersInv
      <4> QED
        BY <4>1, <4>2
    <3> QED
      BY <1>5, <3>1, <3>2 DEF OwnersInv, Owners, Waiting
  <2> QED
    BY <2>1, <2>2
<1>7. ASSUME NEW d \in Client, NEW e \in Client, d # e, mine'[d] # 0 PROVE mine'[d] # mine'[e]
  <2>1. mine'[d] = mine[d] /\ (mine'[e] = mine[e] \/ mine'[e] = 0)
    BY <1>2, <1>7
  <2>2. mine[d] # mine[e]
    BY <1>5, <1>7, <2>1 DEF OwnersInv
  <2> QED
    BY <1>7, <2>1, <2>2
<1>8. OwnersInv'
  BY <1>6, <1>7 DEF OwnersInv
<1> QED
  BY <1>2, <1>3, <1>4, <1>8

\* A release takes one from the count if it takes one from the set.
LEMMA ReleaseStep ==
    ASSUME RateInv, NEW r, Release(r), counter' = counter
    PROVE  /\ active' = active \/ active' = active \ {r}
           /\ active' \subseteq 1..MaxRequests /\ inFlight' \in Nat
           /\ Waiting' = Waiting => CountInv'
<1>1. \/ r \in active /\ active' = active \ {r} /\ inFlight' = inFlight - 1
      \/ active' = active /\ inFlight' = inFlight
  BY DEF Release
<1>2. CountInv
  BY DEF RateInv
<1>3. active' = active \/ active' = active \ {r}
  BY <1>1
<1>4. inFlight' = Cardinality(active') /\ inFlight' \in Nat
  <2>1. CASE r \in active /\ active' = active \ {r} /\ inFlight' = inFlight - 1
    <3>1. PICK A : A = active
      OBVIOUS
    <3>2. IsFiniteSet(A) /\ Cardinality(A) = inFlight
      BY <3>1, RateTypes
    <3>3. IsFiniteSet(A \ {r}) /\ Cardinality(A \ {r}) = Cardinality(A) - 1
      BY <2>1, <3>1, <3>2, FS_RemoveElement
    <3>4. Cardinality(A \ {r}) \in Nat
      BY <3>3, FS_CardinalityType
    <3> QED
      BY <2>1, <3>1, <3>2, <3>3, <3>4
  <2>2. CASE active' = active /\ inFlight' = inFlight
    BY <2>2, RateTypes
  <2> QED
    BY <1>1, <2>1, <2>2
<1>5. active' \subseteq 1..MaxRequests /\ active' \subseteq 1..counter
  BY <1>3, RateTypes
<1>6. ASSUME Waiting' = Waiting PROVE CountInv'
  BY <1>2, <1>4, <1>5, <1>6 DEF CountInv
<1> QED
  BY <1>3, <1>4, <1>5, <1>6

\* A request was turned away.
LEMMA RateLimitStep ==
    ASSUME RateInv, NEW c \in Client, record_rate_limit(c)
    PROVE  RateInv'
<1>1. /\ Reports(c) /\ Release(mine[c])
      /\ cap' = (cap + 1) \div 2 /\ streak' = 0
      /\ UNCHANGED <<events, counter, size, sleep, restarts>>
  BY DEF record_rate_limit
<1>2. /\ active' = active \/ active' = active \ {mine[c]}
      /\ active' \subseteq 1..MaxRequests /\ inFlight' \in Nat
      /\ Waiting' = Waiting => CountInv'
  BY <1>1, ReleaseStep
<1>3. /\ OwnersInv'
      /\ at' \in [Client -> {"idle", "asking", "admitted", "active", "reported"}]
      /\ mine' \in [Client -> 0..MaxRequests]
      /\ Admitted' = Admitted /\ Waiting' = Waiting
      /\ \A d \in Client : mine'[d] = mine[d] \/ mine'[d] = 0
  BY <1>1, <1>2, ReportStep
<1>4. Orderly(events, counter)' /\ RequestsInv' /\ TokensInv'
  <2>1. Later(events, events, Owned) /\ \A i, k \in 1..Len(events) : i < k => events[k].age <= events[i].age
    BY RateTypes, SelfLater
  <2>2. \A d \in Admitted' : size'[d] = size[d]
    BY <1>1
  <2> QED
    BY <1>1, <1>3, <2>1, <2>2, QuietStep
<1>5. RateTypeOK'
  <2>1. cap' \in 1..BaseCap
    <3>1. cap \in Nat /\ cap >= 1 /\ cap <= BaseCap /\ BaseCap \in Nat
      BY RateTypes, RateConstants
    <3>2. (cap + 1) \div 2 \in Nat /\ (cap + 1) \div 2 >= 1 /\ (cap + 1) \div 2 <= cap
      BY <3>1
    <3> QED
      BY <1>1, <3>1, <3>2
  <2>2. streak' \in 0..RestoreAfter - 1
    BY <1>1, RateConstants
  <2>3. RateTypeOK
    BY DEF RateInv
  <2> QED
    BY <1>1, <1>2, <1>3, <2>1, <2>2, <2>3 DEF RateTypeOK
<1> QED
  BY <1>2, <1>3, <1>4, <1>5 DEF RateInv

\* A client forgets its reservation.
LEMMA ForgetStep ==
    ASSUME RateInv, NEW c \in Client, Forget(c)
    PROVE  RateInv'
<1>1. /\ Reports(c)
      /\ UNCHANGED <<events, active, inFlight, cap, streak, counter, size, sleep, restarts>>
  BY DEF Forget, Reports, window, adaptive
<1>2. /\ OwnersInv'
      /\ at' \in [Client -> {"idle", "asking", "admitted", "active", "reported"}]
      /\ mine' \in [Client -> 0..MaxRequests]
      /\ Admitted' = Admitted /\ Waiting' = Waiting
      /\ \A d \in Client : mine'[d] = mine[d] \/ mine'[d] = 0
  BY <1>1, ReportStep
<1>3. Orderly(events, counter)' /\ RequestsInv' /\ TokensInv'
  <2>1. Later(events, events, Owned) /\ \A i, k \in 1..Len(events) : i < k => events[k].age <= events[i].age
    BY RateTypes, SelfLater
  <2>2. \A d \in Admitted' : size'[d] = size[d]
    BY <1>1
  <2> QED
    BY <1>1, <1>2, <2>1, <2>2, QuietStep
<1>4. CountInv'
  BY <1>1, <1>2 DEF RateInv, CountInv
<1>5. RateTypeOK'
  BY <1>1, <1>2 DEF RateInv, RateTypeOK
<1> QED
  BY <1>2, <1>3, <1>4, <1>5 DEF RateInv

\* The other way to report a limit.
LEMMA OnRateLimitStep ==
    ASSUME RateInv, on_rate_limit
    PROVE  RateInv'
<1>1. /\ cap > 1 /\ cap' = cap - 1
      /\ UNCHANGED <<events, active, inFlight, streak, counter, at, size, sleep, mine, restarts>>
  BY DEF on_rate_limit, window
<1>2. cap' \in 1..BaseCap
  BY <1>1, RateTypes, RateConstants
<1>3. RateTypeOK'
  BY <1>1, <1>2 DEF RateInv, RateTypeOK
<1>4. OwnersInv' /\ CountInv'
  BY <1>1 DEF RateInv, OwnersInv, CountInv, Owners, Waiting
<1>5. Orderly(events, counter)' /\ RequestsInv' /\ TokensInv'
  BY <1>1 DEF RateInv, Orderly, RequestsInv, TokensInv, Own, Owned, Admitted
<1> QED
  BY <1>3, <1>4, <1>5 DEF RateInv

-----------------------------------------------------------------------------
\* A request has succeeded, and used what it has used.
LEMMA SuccessStep ==
    ASSUME RateInv, NEW c \in Client, record_success(c)
    PROVE  RateInv'
<1> DEFINE Corrected(x) == [n \in DOMAIN events |->
                              IF events[n].id = mine[c] THEN [events[n] EXCEPT !.tokens = x]
                                                        ELSE events[n]]
<1>1. /\ Reports(c) /\ Release(mine[c])
      /\ UNCHANGED <<counter, size, sleep, restarts>>
      /\ \/ cap' = cap /\ streak' = streak
         \/ cap # BaseCap /\ streak + 1 < RestoreAfter /\ streak' = streak + 1 /\ cap' = cap
         \/ cap # BaseCap /\ cap' = cap + 1 /\ streak' = 0
  BY DEF record_success, adaptive
<1>2. \E x \in Sizes : events' = Purged(Corrected(x))
  BY DEF record_success
<1>3. PICK x \in Sizes : events' = Purged(Corrected(x))
  BY <1>2
<1>4. PICK fs : fs = Corrected(x)
  OBVIOUS
<1>5. /\ active' = active \/ active' = active \ {mine[c]}
      /\ active' \subseteq 1..MaxRequests /\ inFlight' \in Nat
      /\ Waiting' = Waiting => CountInv'
  BY <1>1, ReleaseStep
<1>6. /\ OwnersInv'
      /\ at' \in [Client -> {"idle", "asking", "admitted", "active", "reported"}]
      /\ mine' \in [Client -> 0..MaxRequests]
      /\ Admitted' = Admitted /\ Waiting' = Waiting
      /\ \A d \in Client : mine'[d] = mine[d] \/ mine'[d] = 0
  BY <1>1, <1>5, ReportStep
<1>7. PICK l \in Nat : l = Len(events) /\ DOMAIN events = 1..l
  BY RateTypes, LenProperties
<1>8. \A n \in 1..l : fs[n] = IF events[n].id = mine[c] THEN [events[n] EXCEPT !.tokens = x] ELSE events[n]
  BY <1>4, <1>7
<1>9. ASSUME NEW n \in 1..l
      PROVE  /\ fs[n] \in Event
             /\ fs[n].id = events[n].id /\ fs[n].estimate = events[n].estimate
             /\ fs[n].age = events[n].age
             /\ fs[n].tokens = events[n].tokens \/ events[n].id = mine[c]
  <2>1. PICK e : e = events[n]
    OBVIOUS
  <2>2. e \in Event
    BY <1>7, <2>1, RateTypes, EventFacts
  <2>3. PICK g : g = [e EXCEPT !.tokens = x]
    OBVIOUS
  <2>4. g \in Event /\ g.id = e.id /\ g.estimate = e.estimate /\ g.age = e.age
    BY <2>2, <2>3 DEF Event
  <2>5. fs[n] = IF e.id = mine[c] THEN g ELSE e
    BY <1>8, <2>1, <2>3
  <2> QED
    BY <2>1, <2>2, <2>4, <2>5
<1>10. fs \in Seq(Event) /\ Len(fs) = l
  <2>1. DOMAIN fs = 1..l /\ fs = [n \in 1..l |-> fs[n]]
    BY <1>4, <1>7
  <2>2. fs \in [1..l -> Event]
    BY <1>9, <2>1
  <2> QED
    BY <2>2
<1>11. \A n \in 1..l : events[n].age \in Nat
  BY <1>7, RateTypes, EventFacts
<1>12. Later(events, fs, Owned)
  <2>1. mine[c] \in Owned
    BY DEF Owned
  <2>2. \A n \in 1..l : fs[n].age >= events[n].age
    BY <1>9, <1>11
  <2> QED
    BY <1>7, <1>9, <1>10, <2>1, <2>2 DEF Later
<1>13. \A i, k \in 1..Len(events) : i < k => fs[k].age <= fs[i].age
  <2>1. \A i, k \in 1..l : i < k => events[k].age <= events[i].age
    BY <1>7, RateTypes DEF Orderly
  <2> QED
    BY <1>7, <1>9, <2>1
<1>14. Orderly(events, counter)' /\ RequestsInv' /\ TokensInv'
  <2>1. \A d \in Admitted' : size'[d] = size[d]
    BY <1>1
  <2>2. events' = Purged(fs)
    BY <1>3, <1>4
  <2> QED
    BY <1>1, <1>6, <1>12, <1>13, <2>1, <2>2, QuietStep
<1>15. RateTypeOK'
  <2>1. cap \in Nat /\ cap >= 1 /\ cap <= BaseCap /\ streak \in Nat /\ streak <= RestoreAfter - 1
    BY RateTypes
  <2>2. cap' \in 1..BaseCap
    BY <1>1, <2>1, RateConstants
  <2>3. streak' \in 0..RestoreAfter - 1
    BY <1>1, <2>1, RateConstants
  <2>4. events' \in Seq(Event)
    BY <1>14 DEF Orderly
  <2>5. RateTypeOK
    BY DEF RateInv
  <2> QED
    BY <1>1, <1>5, <1>6, <2>2, <2>3, <2>4, <2>5 DEF RateTypeOK
<1> QED
  BY <1>5, <1>6, <1>14, <1>15 DEF RateInv

\* The state is saved and loaded; who had not reserved yet is gone.
LEMMA RestartStep ==
    ASSUME RateInv, Restart
    PROVE  RateInv'
<1>1. /\ restarts < MaxRestarts /\ restarts' = restarts + 1
      /\ events' = Purged(events)
      /\ sleep' = [c \in Client |-> 0]
      /\ size' = [c \in Client |-> 0]
      /\ UNCHANGED <<active, inFlight, cap, streak, counter>>
  BY DEF Restart, adaptive
<1>2. PICK back \in SUBSET {c \in Client : at[c] = "active"} :
           /\ at' = [c \in Client |-> IF c \in back THEN "active" ELSE "idle"]
           /\ mine' = [c \in Client |-> IF c \in back THEN mine[c] ELSE 0]
  BY DEF Restart
<1>3. \A c \in Client : \/ c \in back /\ at[c] = "active" /\ at'[c] = "active" /\ mine'[c] = mine[c]
                        \/ c \notin back /\ at'[c] = "idle" /\ mine'[c] = 0
  BY <1>2
<1>4. Admitted' = {} /\ Waiting' = {}
  <2>1. \A c \in Client : at'[c] # "admitted" /\ at'[c] # "asking"
    BY <1>3
  <2> QED
    BY <2>1 DEF Admitted, Waiting
<1>5. Orderly(events, counter)' /\ RequestsInv' /\ TokensInv'
  <2>1. Later(events, events, Owned) /\ \A i, k \in 1..Len(events) : i < k => events[k].age <= events[i].age
    BY RateTypes, SelfLater
  <2>2. Admitted' \subseteq Admitted /\ \A d \in Admitted' : size'[d] = size[d]
    BY <1>4
  <2>3. \A d \in Client : mine'[d] = mine[d] \/ mine'[d] = 0
    BY <1>3
  <2> QED
    BY <1>1, <2>1, <2>2, <2>3, QuietStep
<1>6. OwnersInv
  BY DEF RateInv
<1>7. OwnersInv'
  <2>1. ASSUME NEW d \in Client
        PROVE  /\ mine'[d] # 0 <=> d \in Owners'
               /\ mine'[d] <= counter'
               /\ at'[d] = "active" => mine'[d] \in active'
               /\ d \in Waiting' => size'[d] \in Sizes
               /\ at'[d] = "admitted" => size'[d] <= Tpm
    <3>1. CASE d \in back
      <4>1. at[d] = "active" /\ at'[d] = "active" /\ mine'[d] = mine[d]
        BY <1>3, <3>1
      <4> QED
        BY <1>1, <1>4, <1>6, <4>1 DEF OwnersInv, Owners
    <3>2. CASE d \notin back
      <4>1. at'[d] = "idle" /\ mine'[d] = 0 /\ 0 <= counter
        BY <1>3, <3>2, RateTypes
      <4> QED
        BY <1>1, <1>4, <4>1 DEF Owners
    <3> QED
      BY <3>1, <3>2
  <2>2. ASSUME NEW d \in Client, NEW e \in Client, d # e, mine'[d] # 0 PROVE mine'[d] # mine'[e]
    <3>1. mine'[d] = mine[d] /\ (mine'[e] = mine[e] \/ mine'[e] = 0)
      BY <1>3, <2>2
    <3>2. mine[d] # mine[e]
      BY <1>6, <2>2, <3>1 DEF OwnersInv
    <3> QED
      BY <2>2, <3>1, <3>2
  <2> QED
    BY <2>1, <2>2 DEF OwnersInv
<1>8. CountInv'
  <2>1. Cardinality(Waiting') = 0
    BY <1>4, FS_EmptySet
  <2>2. counter' + Cardinality(Waiting') <= MaxRequests
    BY <1>1, <2>1, RateTypes
  <2> QED
    BY <1>1, <2>2, RateTypes DEF CountInv
<1>9. RateTypeOK'
  <2>1. at' \in [Client -> {"idle", "asking", "admitted", "active", "reported"}]
    BY <1>2
  <2>2. mine' \in [Client -> 0..MaxRequests]
    <3>1. 0 \in 0..MaxRequests
      BY RateConstants
    <3> QED
      BY <1>2, <3>1, RateTypes
  <2>3. sleep' \in [Client -> 0..Window] /\ size' \in [Client -> Sizes \cup {0}]
    BY <1>1, RateConstants
  <2>4. restarts' \in 0..MaxRestarts
    <3>1. restarts \in 0..MaxRestarts
      BY RateTypes
    <3> QED
      BY <1>1, <3>1, RateConstants
  <2>5. events' \in Seq(Event)
    BY <1>5 DEF Orderly
  <2>6. RateTypeOK
    BY DEF RateInv
  <2> QED
    BY <1>1, <2>1, <2>2, <2>3, <2>4, <2>5, <2>6 DEF RateTypeOK
<1> QED
  BY <1>5, <1>7, <1>8, <1>9 DEF RateInv

\* Time passes.
LEMMA TickStep ==
    ASSUME RateInv, Tick
    PROVE  RateInv'
<1>1. /\ events' = [n \in DOMAIN events |->
                       [events[n] EXCEPT !.age = IF events[n].age < Window THEN events[n].age + 1 ELSE events[n].age]]
      /\ sleep' = [c \in Client |-> IF sleep[c] > 0 THEN sleep[c] - 1 ELSE 0]
      /\ UNCHANGED <<active, inFlight, cap, streak, counter, at, size, mine, restarts>>
  BY DEF Tick, adaptive
<1>2. PICK fs : fs = events'
  OBVIOUS
<1>3. PICK l \in Nat : l = Len(events) /\ DOMAIN events = 1..l
  BY RateTypes, LenProperties
<1>4. \A n \in 1..l : fs[n] = [events[n] EXCEPT !.age = IF events[n].age < Window THEN events[n].age + 1
                                                                                   ELSE events[n].age]
  BY <1>1, <1>2, <1>3
<1>5. ASSUME NEW n \in 1..l
      PROVE  /\ fs[n] \in Event
             /\ fs[n].id = events[n].id /\ fs[n].estimate = events[n].estimate
             /\ fs[n].tokens = events[n].tokens
             /\ events[n].age \in Nat
             /\ fs[n].age = IF events[n].age < Window THEN events[n].age + 1 ELSE events[n].age
  <2>1. PICK e : e = events[n]
    OBVIOUS
  <2>2. e \in Event /\ e.age \in 0..Window /\ e.age \in Nat
    BY <1>3, <2>1, RateTypes, EventFacts
  <2>3. PICK a : a = IF e.age < Window THEN e.age + 1 ELSE e.age
    OBVIOUS
  <2>4. a \in 0..Window
    BY <2>2, <2>3, RateConstants
  <2>5. PICK g : g = [e EXCEPT !.age = a]
    OBVIOUS
  <2>6. g \in Event /\ g.id = e.id /\ g.estimate = e.estimate /\ g.tokens = e.tokens /\ g.age = a
    BY <2>2, <2>4, <2>5 DEF Event
  <2>7. fs[n] = g
    BY <1>4, <2>1, <2>3, <2>5
  <2> QED
    BY <2>1, <2>2, <2>3, <2>6, <2>7
<1>6. fs \in Seq(Event) /\ Len(fs) = l
  <2>1. DOMAIN fs = 1..l /\ fs = [n \in 1..l |-> fs[n]]
    BY <1>1, <1>2, <1>3
  <2>2. fs \in [1..l -> Event]
    BY <1>5, <2>1
  <2> QED
    BY <2>2
<1>7. Later(events, fs, Owned)
  <2>1. \A n \in 1..l : fs[n].age >= events[n].age
    BY <1>5, RateConstants
  <2> QED
    BY <1>3, <1>5, <1>6, <2>1 DEF Later
<1>8. \A i, k \in 1..Len(events) : i < k => fs[k].age <= fs[i].age
  <2>1. \A i, k \in 1..l : i < k => events[k].age <= events[i].age
    BY <1>3, RateTypes DEF Orderly
  <2>2. ASSUME NEW i \in 1..l, NEW k \in 1..l, i < k PROVE fs[k].age <= fs[i].age
    <3>1. events[k].age <= events[i].age
      BY <2>1, <2>2
    <3>2. /\ fs[k].age = (IF events[k].age < Window THEN events[k].age + 1 ELSE events[k].age)
          /\ fs[i].age = (IF events[i].age < Window THEN events[i].age + 1 ELSE events[i].age)
          /\ events[k].age \in Nat /\ events[i].age \in 0..Window
      BY <1>3, <1>5, RateTypes, EventFacts
    <3> QED
      BY <3>1, <3>2, RateConstants
  <2> QED
    BY <1>3, <2>2
<1>9. Orderly(events, counter)' /\ RequestsInv' /\ TokensInv'
  <2>1. Admitted' \subseteq Admitted /\ \A d \in Admitted' : size'[d] = size[d]
    BY <1>1 DEF Admitted
  <2>2. \A d \in Client : mine'[d] = mine[d] \/ mine'[d] = 0
    BY <1>1
  <2> QED
    BY <1>1, <1>2, <1>7, <1>8, <2>1, <2>2, QuietStep
<1>10. OwnersInv' /\ CountInv'
  BY <1>1 DEF RateInv, OwnersInv, CountInv, Owners, Waiting
<1>11. RateTypeOK'
  <2>1. sleep' \in [Client -> 0..Window]
    <3>1. ASSUME NEW c \in Client PROVE (IF sleep[c] > 0 THEN sleep[c] - 1 ELSE 0) \in 0..Window
      <4>1. sleep[c] \in 0..Window
        BY RateTypes
      <4> QED
        BY <4>1, RateConstants
    <3> QED
      BY <1>1, <3>1
  <2>2. events' \in Seq(Event)
    BY <1>9 DEF Orderly
  <2>3. RateTypeOK
    BY DEF RateInv
  <2> QED
    BY <1>1, <2>1, <2>2, <2>3 DEF RateTypeOK
<1> QED
  BY <1>9, <1>10, <1>11 DEF RateInv

-----------------------------------------------------------------------------
\* A wait is within the window, and there is one unless the request fits.
LEMMA WaitFacts ==
    ASSUME NEW es \in Seq(Event), \A i \in 1..Len(es) : es[i].age < Window, NEW k \in Nat
    PROVE  /\ RequestWait(es) \in 0..Window /\ TokenWait(es, k) \in 0..Window
           /\ RequestWait(es) = 0 => Len(es) + 1 <= Rpm
           /\ TokenWait(es, k) = 0 => Tokens(es) + k <= Tpm
<1>1. PICK l \in Nat : l = Len(es) /\ DOMAIN es = 1..l
  BY LenProperties
<1>2. \A i \in 1..l : Window - es[i].age \in 0..Window /\ Window - es[i].age # 0
  <2> SUFFICES ASSUME NEW i \in 1..l PROVE Window - es[i].age \in 0..Window /\ Window - es[i].age # 0
    OBVIOUS
  <2>1. es[i].age \in Nat /\ es[i].age < Window
    BY <1>1, EventFacts
  <2> QED
    BY <2>1, RateConstants
<1>3. RequestWait(es) \in 0..Window /\ (RequestWait(es) = 0 => l + 1 <= Rpm)
  <2>1. CASE l + 1 > Rpm
    <3>1. RequestWait(es) = Window - es[1].age
      BY <1>1, <2>1 DEF RequestWait
    <3>2. 1 \in 1..l
      BY <2>1, RateConstants
    <3> QED
      BY <1>2, <3>1, <3>2
  <2>2. CASE ~(l + 1 > Rpm)
    <3>1. RequestWait(es) = 0
      BY <1>1, <2>2 DEF RequestWait
    <3> QED
      BY <2>2, <3>1, RateConstants
  <2> QED
    BY <2>1, <2>2
<1>4. TokenWait(es, k) \in 0..Window /\ (TokenWait(es, k) = 0 => Tokens(es) + k <= Tpm)
  <2>1. CASE Tokens(es) + k <= Tpm
    <3>1. TokenWait(es, k) = 0
      BY <2>1 DEF TokenWait
    <3> QED
      BY <2>1, <3>1, RateConstants
  <2>2. CASE ~(Tokens(es) + k <= Tpm)
    <3>1. PICK enough : enough = {n \in 1..l : Sums(Used(es))[n] >= Tokens(es) + k - Tpm}
      OBVIOUS
    <3>2. TokenWait(es, k) = IF enough = {} THEN Window ELSE Window - es[Min(enough)].age
      BY <1>1, <2>2, <3>1 DEF TokenWait
    <3>3. CASE enough = {}
      BY <3>2, <3>3, RateConstants
    <3>4. CASE enough # {}
      <4>1. enough \in SUBSET Nat
        BY <3>1
      <4>2. Min(enough) \in enough
        BY <3>4, <4>1, MinFacts
      <4>3. Min(enough) \in 1..l
        BY <3>1, <4>2
      <4> QED
        BY <1>2, <3>2, <3>4, <4>3
    <3> QED
      BY <3>3, <3>4
  <2> QED
    BY <2>1, <2>2
<1> QED
  BY <1>1, <1>3, <1>4

\* The largest of three waits.
LEMMA LargestWait ==
    ASSUME NEW a \in 0..Window, NEW b \in 0..Window, NEW x \in 0..Window
    PROVE  /\ Max({a, b, x}) \in 0..Window
           /\ Max({a, b, x}) = 0 => a = 0 /\ b = 0 /\ x = 0
<1>1. PICK T : T = {a, b, x}
  OBVIOUS
<1>2. T \in SUBSET (0..Window) /\ T # {} /\ a \in T /\ b \in T /\ x \in T
  BY <1>1
<1>3. Max(T) \in T /\ \A y \in T : Max(T) >= y
  BY <1>2, RateConstants, MaxFacts
<1>4. PICK m \in 0..Window : m = Max(T)
  BY <1>2, <1>3
<1>5. m >= a /\ m >= b /\ m >= x
  BY <1>2, <1>3, <1>4
<1> QED
  BY <1>1, <1>4, <1>5

\* A client looks, and waits or passes.
LEMMA CheckStep ==
    ASSUME RateInv, NEW c \in Client, Check(c)
    PROVE  RateInv'
<1>1. /\ at[c] = "asking" /\ sleep[c] = 0
      /\ events' = Purged(events)
      /\ UNCHANGED <<active, inFlight, cap, streak, counter, size, mine, restarts>>
  BY DEF Check, adaptive
<1>2. PICK live : live = Purged(events)
  OBVIOUS
<1>3. PICK wait : wait = Max({RequestWait(live), TokenWait(live, size[c]), ConcurrencyWait})
  OBVIOUS
<1>4. \/ wait = 0 /\ at' = [at EXCEPT ![c] = "admitted"] /\ sleep' = sleep
      \/ wait # 0 /\ sleep' = [sleep EXCEPT ![c] = wait] /\ at' = at
  <2>1. events' = live
    BY <1>1, <1>2
  <2> QED
    BY <1>3, <2>1 DEF Check
<1>5. /\ Orderly(live, counter) /\ live \in Seq(Event) /\ Len(live) \in Nat
      /\ \A i \in 1..Len(live) : live[i].age < Window
  <2>1. Orderly(live, counter) /\ \A i \in 1..Len(live) : live[i].age < Window
    BY <1>2, RateTypes, PurgedFacts
  <2>2. live \in Seq(Event)
    BY <2>1 DEF Orderly
  <2> QED
    BY <2>1, <2>2, LenProperties
<1>6. /\ RequestWait(live) \in 0..Window /\ TokenWait(live, size[c]) \in 0..Window
      /\ RequestWait(live) = 0 => Len(live) + 1 <= Rpm
      /\ TokenWait(live, size[c]) = 0 => Tokens(live) + size[c] <= Tpm
  BY <1>5, RateTypes, WaitFacts
<1>7. ConcurrencyWait \in 0..Window
  BY RateConstants DEF ConcurrencyWait
<1>8. /\ wait \in 0..Window
      /\ wait = 0 => Len(live) + 1 <= Rpm /\ Tokens(live) + size[c] <= Tpm
  BY <1>3, <1>6, <1>7, LargestWait
<1>9. CASE wait # 0
  <2>1. sleep' = [sleep EXCEPT ![c] = wait] /\ at' = at
    BY <1>4, <1>9
  <2>2. Orderly(events, counter)' /\ RequestsInv' /\ TokensInv'
    <3>1. Later(events, events, Owned) /\ \A i, k \in 1..Len(events) : i < k => events[k].age <= events[i].age
      BY RateTypes, SelfLater
    <3>2. Admitted' \subseteq Admitted /\ \A d \in Admitted' : size'[d] = size[d]
      BY <1>1, <2>1 DEF Admitted
    <3>3. \A d \in Client : mine'[d] = mine[d] \/ mine'[d] = 0
      BY <1>1
    <3> QED
      BY <1>1, <3>1, <3>2, <3>3, QuietStep
  <2>3. OwnersInv' /\ CountInv'
    BY <1>1, <2>1 DEF RateInv, OwnersInv, CountInv, Owners, Waiting
  <2>4. RateTypeOK'
    <3>1. sleep' \in [Client -> 0..Window]
      BY <1>8, <2>1, RateTypes
    <3>2. events' \in Seq(Event)
      BY <2>2 DEF Orderly
    <3>3. RateTypeOK
      BY DEF RateInv
    <3> QED
      BY <1>1, <2>1, <3>1, <3>2, <3>3 DEF RateTypeOK
  <2> QED
    BY <2>2, <2>3, <2>4 DEF RateInv
<1>10. CASE wait = 0
  <2>1. at' = [at EXCEPT ![c] = "admitted"] /\ sleep' = sleep
    BY <1>4, <1>10
  <2>2. at'[c] = "admitted" /\ \A d \in Client : d # c => at'[d] = at[d]
    BY <2>1, RateTypes
  <2>3. Len(live) + 1 <= Rpm /\ Tokens(live) + size[c] <= Tpm
    BY <1>8, <1>10
  <2>4. OwnersInv
    BY DEF RateInv
  <2>5. size[c] \in Nat /\ size[c] \in Sizes /\ size[c] <= Tpm /\ Tokens(live) \in Nat
    <3>1. size[c] \in Nat /\ Tokens(live) \in Nat
      BY <1>5, RateTypes, UsedFacts
    <3>2. size[c] \in Sizes
      BY <1>1, <2>4 DEF OwnersInv, Waiting
    <3> QED
      BY <2>3, <3>1, <3>2, RateConstants
  <2>6. Admitted' = Admitted \cup {c} /\ c \notin Admitted /\ c \notin Owners
    BY <1>1, <2>2 DEF Admitted, Owners
  <2>7. Owners' = Owners /\ Waiting' = Waiting /\ Owned' = Owned
    <3>1. \A d \in Client : /\ at'[d] \in {"active", "reported"} <=> at[d] \in {"active", "reported"}
                            /\ at'[d] \in {"asking", "admitted"} <=> at[d] \in {"asking", "admitted"}
      BY <1>1, <2>2
    <3> QED
      BY <1>1, <3>1 DEF Owners, Waiting, Owned
  <2>8. OwnersInv'
    <3>1. ASSUME NEW d \in Client
          PROVE  /\ mine'[d] # 0 <=> d \in Owners'
                 /\ mine'[d] <= counter'
                 /\ at'[d] = "active" => mine'[d] \in active'
                 /\ d \in Waiting' => size'[d] \in Sizes
                 /\ at'[d] = "admitted" => size'[d] <= Tpm
      <4>1. CASE d = c
        BY <1>1, <2>2, <2>4, <2>5, <2>7, <4>1 DEF OwnersInv
      <4>2. CASE d # c
        BY <1>1, <2>2, <2>4, <2>7, <4>2 DEF OwnersInv
      <4> QED
        BY <4>1, <4>2
    <3>2. \A d, e \in Client : d # e /\ mine'[d] # 0 => mine'[d] # mine'[e]
      BY <1>1, <2>4 DEF OwnersInv
    <3> QED
      BY <3>1, <3>2 DEF OwnersInv
  <2>9. CountInv'
    BY <1>1, <2>7 DEF RateInv, CountInv
  <2>10. Orderly(events, counter)'
    BY <1>1, <1>2, <1>5
  <2>11. RateTypeOK'
    <3>1. at' \in [Client -> {"idle", "asking", "admitted", "active", "reported"}]
      BY <2>1, RateTypes
    <3>2. events' \in Seq(Event)
      BY <1>1, <1>2, <1>5
    <3>3. RateTypeOK
      BY DEF RateInv
    <3> QED
      BY <1>1, <2>1, <3>1, <3>2, <3>3 DEF RateTypeOK
  <2>12. PICK B \in SUBSET Client : B = Admitted'
    BY DEF Admitted
  <2>13. PICK A \in SUBSET Client : A = Admitted
    BY DEF Admitted
  <2>14. PICK D \in SUBSET Client : D = Owners
    BY DEF Owners
  <2>15. RequestsInv'
    <3>1. Total(Counts(live)) = Len(live)
      BY <1>2, RateTypes, PurgedTotals
    <3>2. Cardinality(B) \in Nat /\ Cardinality(B) <= Cardinality(Client)
      BY ClientSets
    <3>3. Total(Counts(live)) + Cardinality(B) + 1 <= Rpm + Cardinality(Client)
      BY <1>5, <2>3, <3>1, <3>2, RateConstants
    <3> QED
      BY <1>1, <1>2, <2>12, <3>3 DEF RequestsInv
  <2>16. TokensInv'
    <3>1. PICK O : O = Owned
      OBVIOUS
    <3>2. \A i \in 1..Len(live) : live[i].id \in O => \E d \in D : mine[d] = live[i].id
      <4> SUFFICES ASSUME NEW i \in 1..Len(live), live[i].id \in O PROVE \E d \in D : mine[d] = live[i].id
        OBVIOUS
      <4>1. PICK d \in Client : mine[d] = live[i].id
        BY <3>1 DEF Owned
      <4>2. live[i].id \in 1..MaxRequests
        BY <1>5, EventFacts
      <4>3. mine[d] # 0
        BY <4>1, <4>2
      <4>4. d \in D
        BY <2>4, <2>14, <4>3 DEF OwnersInv
      <4> QED
        BY <4>1, <4>4
    <3>3. IsFiniteSet(D) /\ IsFiniteSet(A) /\ Cardinality(D) \in Nat /\ Cardinality(A) \in Nat
      BY ClientSets
    <3>4. Total(Weights(live, O)) <= Tokens(live) + Fit * Cardinality(D)
      <4>1. PICK m : m = mine
        OBVIOUS
      <4>2. \A i \in 1..Len(live) : live[i].id \in O => \E d \in D : m[d] = live[i].id
        BY <3>2, <4>1
      <4> QED
        BY <1>5, <3>3, <4>2, RateTypes, OwnedWeight
    <3>5. Cardinality(D) + Cardinality(A) <= Cardinality(Client) - 1
      <4>1. D \cap A = {} /\ D \cup A \in SUBSET (Client \ {c})
        BY <2>6, <2>13, <2>14 DEF Owners, Admitted
      <4>2. Cardinality(D \cup A) = Cardinality(D) + Cardinality(A)
        <5>1. Cardinality(D \cup A) = Cardinality(D) + Cardinality(A) - Cardinality(D \cap A)
          BY <3>3, FS_Union
        <5>2. Cardinality(D \cap A) = 0
          BY <4>1, FS_EmptySet
        <5> QED
          BY <3>3, <5>1, <5>2
      <4>3. IsFiniteSet(Client \ {c}) /\ Cardinality(Client \ {c}) = Cardinality(Client) - 1
        BY RateConstants, FS_RemoveElement
      <4>4. Cardinality(D \cup A) <= Cardinality(Client \ {c})
        BY <4>1, <4>3, FS_Subset
      <4> QED
        BY <4>2, <4>3, <4>4
    <3>6. PICK i \in Nat : i = Cardinality(D)
      BY <3>3
    <3>7. PICK k \in Nat : k = Cardinality(A)
      BY <3>3
    <3>8. PICK n \in Nat : n = Cardinality(Client) - 1
      BY RateConstants
    <3>9. i + k <= n
      BY <3>5, <3>6, <3>7, <3>8
    <3>10. Fit * (i + k) <= Fit * n /\ Fit * n \in Nat
      BY <3>9, FitFacts, TimesMono
    <3>11. Fit * (i + k) = Fit * i + Fit * k /\ Fit * n = n * Fit
      BY FitFacts
    <3>12. PICK p \in Nat : p = Fit * i
      BY FitFacts
    <3>13. PICK q \in Nat : q = Fit * k
      BY FitFacts
    <3>14. PICK r \in Nat : r = n * Fit
      BY <3>10, <3>11
    <3>15. p + q <= r
      BY <3>10, <3>11, <3>12, <3>13, <3>14
    <3>16. PICK x \in Nat : x = Total(Weights(live, O))
      BY <1>5, WeightsFacts, SumsStep
    <3>17. x <= Tokens(live) + p
      BY <3>4, <3>6, <3>12, <3>16
    <3>18. x + size[c] + q <= Tpm + r
      BY <2>3, <2>5, <3>15, <3>17, RateConstants
    <3>19. Own(c)' = size[c]
      BY <1>1, <2>2 DEF Own
    <3>20. Admitted' \ {c} = A
      BY <2>6, <2>13
    <3>21. Total(Weights(live, O)) + Own(c)' + Fit * Cardinality(Admitted' \ {c})
              <= Tpm + (Cardinality(Client) - 1) * Fit
      BY <3>7, <3>8, <3>13, <3>14, <3>16, <3>18, <3>19, <3>20
    <3>22. events' = live /\ Owned' = O
      BY <1>1, <1>2, <2>7, <3>1
    <3> QED
      BY <3>21, <3>22 DEF TokensInv
  <2> QED
    BY <2>8, <2>9, <2>10, <2>11, <2>15, <2>16 DEF RateInv
<1> QED
  BY <1>9, <1>10

\* Who passed reserves.
LEMMA ReserveStep ==
    ASSUME RateInv, NEW c \in Client, Reserve(c)
    PROVE  RateInv'
<1>1. /\ at[c] = "admitted" /\ at' = [at EXCEPT ![c] = "active"]
      /\ counter' = counter + 1
      /\ mine' = [mine EXCEPT ![c] = counter + 1]
      /\ active' = active \cup {counter + 1}
      /\ inFlight' = inFlight + 1
      /\ size' = [size EXCEPT ![c] = 0]
      /\ UNCHANGED <<cap, streak, sleep, restarts>>
  BY DEF Reserve, adaptive
<1>2. PICK e : e = [age |-> 0, tokens |-> size[c], estimate |-> size[c], id |-> counter + 1]
  OBVIOUS
<1>3. events' = Append(events, e)
  BY <1>1, <1>2 DEF Reserve
<1>4. OwnersInv /\ CountInv
  BY DEF RateInv
<1>5. PICK n \in Nat : n = counter
  BY RateTypes
<1>6. Waiting' = Waiting \ {c} /\ c \in Waiting /\ Admitted' = Admitted \ {c} /\ c \in Admitted
  <2>1. \A d \in Client : at'[d] = IF d = c THEN "active" ELSE at[d]
    BY <1>1, RateTypes
  <2> QED
    BY <1>1, <2>1 DEF Waiting, Admitted
<1>7. n + 1 + Cardinality(Waiting') <= MaxRequests /\ n + 1 \in 1..MaxRequests
  <2>1. PICK W \in SUBSET Client : W = Waiting
    BY DEF Waiting
  <2>2. IsFiniteSet(W) /\ Cardinality(W) \in Nat
    BY ClientSets
  <2>3. IsFiniteSet(W \ {c}) /\ Cardinality(W \ {c}) = Cardinality(W) - 1
    BY <1>6, <2>1, <2>2, FS_RemoveElement
  <2>4. Cardinality(W \ {c}) \in Nat
    BY <2>3, FS_CardinalityType
  <2>5. n + Cardinality(W) <= MaxRequests
    BY <1>4, <1>5, <2>1 DEF CountInv
  <2>6. n + 1 + Cardinality(W \ {c}) <= MaxRequests /\ n + 1 \in 1..MaxRequests
    BY <2>2, <2>3, <2>4, <2>5, RateConstants
  <2> QED
    BY <1>6, <2>1, <2>6
<1>8. size[c] \in Sizes /\ size[c] \in Nat /\ size[c] <= Tpm /\ size[c] <= Fit
  <2>1. size[c] \in Sizes /\ size[c] \in Nat /\ size[c] <= Tpm
    BY <1>1, <1>4, <1>6, RateTypes DEF OwnersInv
  <2> QED
    BY <2>1, FitFacts
<1>9. e \in Event /\ e.age = 0 /\ e.id = n + 1 /\ e.estimate = size[c] /\ e.estimate <= Tpm
  <2>1. 0 \in 0..Window
    BY RateConstants
  <2> QED
    BY <1>2, <1>5, <1>7, <1>8, <2>1 DEF Event
<1>10. \A d \in Client : /\ at'[d] = IF d = c THEN "active" ELSE at[d]
                         /\ mine'[d] = IF d = c THEN n + 1 ELSE mine[d]
                         /\ size'[d] = IF d = c THEN 0 ELSE size[d]
  BY <1>1, <1>5, RateTypes
<1>11. PICK es : es = events
  OBVIOUS
<1>12. PICK O : O = Owned
  OBVIOUS
<1>13. PICK P : P = Owned'
  OBVIOUS
<1>14. Orderly(es, n)
  BY <1>5, <1>11, RateTypes
<1>15. \A i \in 1..Len(es) : es[i].id \in P => es[i].id \in O
  <2> SUFFICES ASSUME NEW i \in 1..Len(es), es[i].id \in P PROVE es[i].id \in O
    OBVIOUS
  <2>1. PICK d \in Client : es[i].id = mine'[d]
    BY <1>13 DEF Owned
  <2>2. es[i].id \in Nat /\ es[i].id <= n
    BY <1>11, <1>14, RateTypes, EventFacts DEF Orderly
  <2>3. d # c
    BY <1>10, <2>1, <2>2
  <2>4. es[i].id = mine[d]
    BY <1>10, <2>1, <2>3
  <2> QED
    BY <1>12, <2>4 DEF Owned
<1>16. PICK gs : gs = Append(es, e)
  OBVIOUS
<1>17. /\ Orderly(gs, n + 1)
       /\ Total(Weights(gs, P)) <= Total(Weights(es, O)) + size[c]
       /\ Total(Counts(gs)) = Total(Counts(es)) + 1
  BY <1>9, <1>14, <1>15, <1>16, RequestTotals
<1>18. events' = gs /\ counter' = n + 1 /\ gs \in Seq(Event)
  <2>1. gs \in Seq(Event)
    BY <1>17 DEF Orderly
  <2> QED
    BY <1>1, <1>3, <1>5, <1>11, <1>16, <2>1
<1>19. Orderly(events, counter)'
  BY <1>17, <1>18
<1>20. PICK A \in SUBSET Client : A = Admitted
  BY DEF Admitted
<1>21. IsFiniteSet(A) /\ Cardinality(A) \in Nat /\ Cardinality(A \ {c}) = Cardinality(A) - 1
  <2>1. IsFiniteSet(A) /\ Cardinality(A) \in Nat
    BY ClientSets
  <2> QED
    BY <1>6, <1>20, <2>1, FS_RemoveElement
<1>22. RequestsInv'
  <2>1. Total(Counts(es)) + Cardinality(A) + 1 <= Rpm + Cardinality(Client)
    BY <1>11, <1>20 DEF RateInv, RequestsInv
  <2>2. Total(Counts(es)) \in Nat
    BY <1>11, RateTypes, CountsFacts, SumsStep
  <2>3. (Total(Counts(es)) + 1) + Cardinality(A \ {c}) + 1 <= Rpm + Cardinality(Client)
    BY <1>21, <2>1, <2>2, RateConstants
  <2>4. Admitted' = A \ {c}
    BY <1>6, <1>20
  <2> QED
    BY <1>17, <1>18, <2>3, <2>4 DEF RequestsInv
<1>23. TokensInv'
  <2>1. PICK x \in Nat : x = Total(Weights(es, O))
    BY <1>11, RateTypes, WeightsFacts, SumsStep
  <2>2. PICK y \in Nat : y = Total(Weights(gs, P))
    BY <1>18, WeightsFacts, SumsStep
  <2>3. y <= x + size[c]
    BY <1>17, <2>1, <2>2
  <2>4. PICK d \in Client : x + Own(d) + Fit * Cardinality(A \ {d}) <= Tpm + (Cardinality(Client) - 1) * Fit
    BY <1>11, <1>12, <1>20, <2>1 DEF RateInv, TokensInv
  <2>5. PICK z \in Int : z = Tpm + (Cardinality(Client) - 1) * Fit
    BY RateConstants, FitFacts
  <2>6. Admitted' \ {d} = (A \ {d}) \ {c}
    BY <1>6, <1>20
  <2>7. PICK k \in Nat : k = Cardinality(A \ {d})
    BY ClientSets
  <2>8. PICK p \in Nat : p = Fit * k
    BY FitFacts
  <2>9. x + Own(d) + p <= z
    BY <2>4, <2>5, <2>7, <2>8
  <2>10. CASE d = c
    <3>1. Own(d) = size[c] /\ Own(d)' = 0
      BY <1>1, <1>10, <2>10 DEF Own
    <3>2. Admitted' \ {d} = A \ {d}
      BY <2>6, <2>10
    <3>3. y + 0 + p <= z
      BY <1>8, <2>3, <2>9, <3>1
    <3>4. Total(Weights(gs, P)) + Own(d)' + Fit * Cardinality(Admitted' \ {d})
              <= Tpm + (Cardinality(Client) - 1) * Fit
      BY <2>2, <2>5, <2>7, <2>8, <3>1, <3>2, <3>3
    <3> QED
      BY <1>13, <1>18, <3>4 DEF TokensInv
  <2>11. CASE d # c
    <3>1. PICK o \in Nat : o = Own(d)
      BY RateTypes DEF Own
    <3>2. Own(d)' = o
      BY <1>10, <2>11, <3>1 DEF Own
    <3>3. PICK j \in Nat : j = Cardinality((A \ {d}) \ {c}) /\ k = j + 1
      <4>1. c \in A \ {d} /\ IsFiniteSet(A \ {d})
        BY <1>6, <1>20, <1>21, <2>11, FS_RemoveElement
      <4>2. IsFiniteSet((A \ {d}) \ {c}) /\ Cardinality((A \ {d}) \ {c}) = Cardinality(A \ {d}) - 1
        BY <4>1, FS_RemoveElement
      <4>3. Cardinality((A \ {d}) \ {c}) \in Nat
        BY <4>2, FS_CardinalityType
      <4> QED
        BY <2>7, <4>2, <4>3
    <3>4. Fit * k = Fit * j + Fit
      BY <3>3, FitFacts
    <3>5. PICK q \in Nat : q = Fit * j
      BY FitFacts
    <3>6. p = q + Fit
      BY <2>8, <3>4, <3>5
    <3>7. y + o + q <= z
      BY <1>8, <2>3, <2>9, <3>1, <3>6, FitFacts
    <3>8. Total(Weights(gs, P)) + Own(d)' + Fit * Cardinality(Admitted' \ {d})
              <= Tpm + (Cardinality(Client) - 1) * Fit
      BY <2>2, <2>5, <2>6, <3>2, <3>3, <3>5, <3>7
    <3> QED
      BY <1>13, <1>18, <3>8 DEF TokensInv
  <2> QED
    BY <2>10, <2>11
<1>24. OwnersInv'
  <2>1. \A d \in Client : mine[d] \in Nat /\ mine[d] <= n
    BY <1>4, <1>5, RateTypes DEF OwnersInv
  <2>2. ASSUME NEW d \in Client
        PROVE  /\ mine'[d] # 0 <=> d \in Owners'
               /\ mine'[d] <= counter'
               /\ at'[d] = "active" => mine'[d] \in active'
               /\ d \in Waiting' => size'[d] \in Sizes
               /\ at'[d] = "admitted" => size'[d] <= Tpm
    <3>1. CASE d = c
      <4>1. at'[d] = "active" /\ mine'[d] = n + 1 /\ n + 1 # 0 /\ n + 1 \in active' /\ d \notin Waiting'
        BY <1>1, <1>5, <1>6, <1>10, <3>1
      <4> QED
        BY <1>18, <4>1 DEF Owners
    <3>2. CASE d # c
      <4>1. at'[d] = at[d] /\ mine'[d] = mine[d] /\ size'[d] = size[d]
        BY <1>10, <3>2
      <4>2. mine[d] <= n + 1
        BY <2>1
      <4> QED
        BY <1>1, <1>4, <1>18, <4>1, <4>2 DEF OwnersInv, Owners, Waiting
    <3> QED
      BY <3>1, <3>2
  <2>3. ASSUME NEW d \in Client, NEW f \in Client, d # f, mine'[d] # 0 PROVE mine'[d] # mine'[f]
    <3>1. CASE d = c
      <4>1. mine'[d] = n + 1 /\ mine'[f] = mine[f]
        BY <1>10, <2>3, <3>1
      <4> QED
        BY <2>1, <4>1
    <3>2. CASE f = c
      <4>1. mine'[f] = n + 1 /\ mine'[d] = mine[d]
        BY <1>10, <2>3, <3>2
      <4> QED
        BY <2>1, <4>1
    <3>3. CASE d # c /\ f # c
      <4>1. mine'[d] = mine[d] /\ mine'[f] = mine[f]
        BY <1>10, <3>3
      <4> QED
        BY <1>4, <2>3, <4>1 DEF OwnersInv
    <3> QED
      BY <3>1, <3>2, <3>3
  <2> QED
    BY <2>2, <2>3 DEF OwnersInv
<1>25. active' \subseteq 1..(n + 1) /\ inFlight' = Cardinality(active') /\ inFlight' \in Nat
  <2>1. active \subseteq 1..n /\ IsFiniteSet(active) /\ inFlight = Cardinality(active) /\ inFlight \in Nat
    BY <1>5, RateTypes
  <2>2. PICK R : R = active
    OBVIOUS
  <2>3. n + 1 \notin R
    BY <2>1, <2>2
  <2>4. Cardinality(R \cup {n + 1}) = Cardinality(R) + 1
    BY <2>1, <2>2, <2>3, FS_AddElement
  <2>5. active' = R \cup {n + 1}
    BY <1>1, <1>5, <2>2
  <2>6. active' \subseteq 1..(n + 1)
    BY <2>1, <2>2, <2>5
  <2>7. inFlight' = Cardinality(active')
    BY <1>1, <2>1, <2>2, <2>4, <2>5
  <2>8. inFlight' \in Nat
    BY <1>1, <2>1
  <2> QED
    BY <2>6, <2>7, <2>8
<1>26. CountInv'
  BY <1>7, <1>18, <1>25 DEF CountInv
<1>27. RateTypeOK'
  <2>1. active' \subseteq 1..MaxRequests
    BY <1>7, <1>25, RateConstants
  <2>2. counter' \in 0..MaxRequests
    BY <1>7, <1>18, RateConstants
  <2>3. mine' \in [Client -> 0..MaxRequests]
    <3>1. n + 1 \in 0..MaxRequests
      BY <1>7
    <3> QED
      BY <1>1, <1>5, <3>1, RateTypes
  <2>4. at' \in [Client -> {"idle", "asking", "admitted", "active", "reported"}]
    BY <1>1, RateTypes
  <2>5. size' \in [Client -> Sizes \cup {0}]
    BY <1>1, RateTypes
  <2>6. RateTypeOK
    BY DEF RateInv
  <2> QED
    BY <1>1, <1>18, <1>25, <2>1, <2>2, <2>3, <2>4, <2>5, <2>6 DEF RateTypeOK
<1> QED
  BY <1>19, <1>22, <1>23, <1>24, <1>26, <1>27 DEF RateInv

-----------------------------------------------------------------------------
(* The theorems.                                                           *)

\* Every step keeps the invariant.
LEMMA RateInvHolds == RateSpec => []RateInv
<1>1. RateInit => RateInv
  BY RateInitInv
<1>2. RateInv /\ [RateNext]_rateVars => RateInv'
  <2> SUFFICES ASSUME RateInv, [RateNext]_rateVars PROVE RateInv'
    OBVIOUS
  <2>1. ASSUME NEW c \in Client, NEW n \in Sizes, acquire(c, n) PROVE RateInv'
    BY <2>1, AcquireStep
  <2>2. ASSUME NEW c \in Client, Check(c) PROVE RateInv'
    BY <2>2, CheckStep
  <2>3. ASSUME NEW c \in Client, Reserve(c) PROVE RateInv'
    BY <2>3, ReserveStep
  <2>4. ASSUME NEW c \in Client, record_success(c) PROVE RateInv'
    BY <2>4, SuccessStep
  <2>5. ASSUME NEW c \in Client, record_rate_limit(c) PROVE RateInv'
    BY <2>5, RateLimitStep
  <2>6. ASSUME NEW c \in Client, Forget(c) PROVE RateInv'
    BY <2>6, ForgetStep
  <2>7. CASE on_rate_limit
    BY <2>7, OnRateLimitStep
  <2>8. CASE Restart
    BY <2>8, RestartStep
  <2>9. CASE Tick
    BY <2>9, TickStep
  <2>10. CASE UNCHANGED rateVars
    <3>1. UNCHANGED <<events, active, inFlight, cap, streak, counter, at, size, sleep, mine, restarts>>
      BY <2>10 DEF rateVars, window, adaptive
    <3>2. RateTypeOK' /\ OwnersInv' /\ CountInv'
      BY <3>1 DEF RateInv, RateTypeOK, OwnersInv, CountInv, Owners, Waiting
    <3>3. Orderly(events, counter)' /\ RequestsInv' /\ TokensInv'
      BY <3>1 DEF RateInv, Orderly, RequestsInv, TokensInv, Own, Owned, Admitted
    <3> QED
      BY <3>2, <3>3 DEF RateInv
  <2> QED
    BY <2>1, <2>2, <2>3, <2>4, <2>5, <2>6, <2>7, <2>8, <2>9, <2>10 DEF RateNext
<1> QED
  BY <1>1, <1>2, PTL DEF RateSpec

\* The variables of the scheduler and its callers keep their types.
THEOREM RateTypeCorrect == RateSpec => []RateTypeOK
<1>1. RateInv => RateTypeOK
  BY DEF RateInv
<1> QED
  BY <1>1, RateInvHolds, PTL

\* in_flight is the number of active reservations, those of running requests
\* among them (_release_reservation, whatever is reported twice).
THEOREM InFlightIsExact == RateSpec => []InFlightExact
<1>1. RateInv => InFlightExact
  BY DEF RateInv, CountInv, OwnersInv, InFlightExact
<1> QED
  BY <1>1, RateInvHolds, PTL

\* The window stays within the limits, but for one request of every other
\* client (acquire checks and reserves in two steps without a lock).
THEOREM BudgetIsKept == RateSpec => []WithinBudget
<1>1. RateInv => WithinBudget
  <2> SUFFICES ASSUME RateInv PROVE WithinBudget
    OBVIOUS
  <2>1. PICK live : live = Purged(events)
    OBVIOUS
  <2>2. /\ Orderly(live, counter) /\ live \in Seq(Event)
        /\ \A i \in 1..Len(live) : live[i].age < Window
    <3>1. Orderly(live, counter) /\ \A i \in 1..Len(live) : live[i].age < Window
      BY <2>1, RateTypes, PurgedFacts
    <3> QED
      BY <3>1 DEF Orderly
  <2>3. PICK l \in Nat : l = Len(live) /\ DOMAIN live = 1..l
    BY <2>2, LenProperties
  <2>4. PICK O : O = Owned
    OBVIOUS
  <2>5. /\ Total(Weights(live, O)) = Total(Weights(events, O))
        /\ Total(Counts(events)) = l
    BY <2>1, <2>3, RateTypes, PurgedTotals
  <2>6. PICK A \in SUBSET Client : A = Admitted
    BY DEF Admitted
  <2>7. l + Cardinality(A) <= Rpm + (Cardinality(Client) - 1)
    <3>1. l + Cardinality(A) + 1 <= Rpm + Cardinality(Client)
      BY <2>5, <2>6 DEF RateInv, RequestsInv
    <3>2. Cardinality(A) \in Nat
      BY ClientSets
    <3> QED
      BY <3>1, <3>2, RateConstants
  <2>8. PICK t : t = [n \in DOMAIN live |-> Least(live[n].tokens, live[n].estimate)]
    OBVIOUS
  <2>9. PICK s : s = Weights(live, O)
    OBVIOUS
  <2>10. s \in Seq(Nat) /\ Len(s) = l /\ \A i \in 1..l : s[i] = Weight(live[i], O)
    BY <2>2, <2>3, <2>9, WeightsFacts
  <2>11. \A i \in 1..l : live[i].tokens \in Nat /\ live[i].estimate \in Nat
    BY <2>2, <2>3, EventFacts
  <2>12. t \in Seq(Nat) /\ Len(t) = l /\ \A i \in 1..l : t[i] = Least(live[i].tokens, live[i].estimate)
    <3>1. t = [n \in 1..l |-> Least(live[n].tokens, live[n].estimate)]
      BY <2>3, <2>8
    <3>2. t \in [1..l -> Nat]
      BY <2>11, <3>1 DEF Least
    <3>3. t \in Seq(Nat) /\ Len(t) = l
      BY <3>2
    <3> QED
      BY <3>1, <3>3
  <2>13. \A i \in 1..l : t[i] <= s[i]
    BY <2>2, <2>3, <2>10, <2>11, <2>12 DEF Weight, Least
  <2>14. Total(t) <= Total(s) /\ Total(t) \in Nat /\ Total(s) \in Nat
    BY <2>10, <2>12, <2>13, SumsMono, SumsStep
  <2>15. Total(t) <= Tpm + (Cardinality(Client) - 1) * Fit
    <3>1. PICK c \in Client : Total(s) + Own(c) + Fit * Cardinality(A \ {c}) <= Tpm + (Cardinality(Client) - 1) * Fit
      BY <2>4, <2>5, <2>6, <2>9 DEF RateInv, TokensInv
    <3>2. PICK o \in Nat : o = Own(c)
      BY RateTypes DEF Own
    <3>3. PICK k \in Nat : k = Cardinality(A \ {c})
      BY ClientSets
    <3>4. PICK p \in Nat : p = Fit * k
      BY FitFacts
    <3>5. PICK z \in Int : z = Tpm + (Cardinality(Client) - 1) * Fit
      BY RateConstants, FitFacts
    <3>6. Total(s) + o + p <= z
      BY <3>1, <3>2, <3>3, <3>4, <3>5
    <3>7. Total(t) <= z
      BY <2>14, <3>2, <3>4, <3>5, <3>6
    <3> QED
      BY <3>5, <3>7
  <2> QED
    BY <2>1, <2>3, <2>6, <2>7, <2>8, <2>15 DEF WithinBudget
<1> QED
  BY <1>1, RateInvHolds, PTL

\* What is used by the events that remain after w more.
LEMMA AfterTokens ==
    ASSUME NEW es \in Seq(Event), NEW w \in Nat, NEW m \in 1..Len(es),
           \A i, k \in 1..Len(es) : i < k => es[k].age <= es[i].age,
           NEW need \in Nat, need > 0, need <= Tokens(es),
           Sums(Used(es))[m] >= need, \A k \in 1..Len(es) : k < m => Sums(Used(es))[k] < need
    PROVE  /\ Tokens(After(es, w)) \in Nat
           /\ Tokens(es) - Tokens(After(es, w)) >= need <=> es[m].age + w >= Window
<1>1. PICK l \in Nat : l = Len(es)
  BY LenProperties
<1>2. PICK t : t = After(es, w)
  OBVIOUS
<1>3. PICK j \in 0..l : /\ \A i \in 1..j : es[i].age + w >= Window
                        /\ \A i \in (j + 1)..l : es[i].age + w < Window
                        /\ t \in Seq(Event) /\ Len(t) = l - j
                        /\ \A k \in 1..(l - j) : t[k] = es[k + j]
  BY <1>1, <1>2, AfterFacts
<1>4. PICK s : s = Used(es)
  OBVIOUS
<1>5. s \in Seq(Nat) /\ Len(s) = l /\ Tokens(es) = Total(s) /\ \A i \in 1..l : s[i] = es[i].tokens
  BY <1>1, <1>4, UsedFacts
<1>6. PICK u : u = Used(t)
  OBVIOUS
<1>7. u \in Seq(Nat) /\ Len(u) = l - j /\ Tokens(t) = Total(u) /\ \A i \in 1..(l - j) : u[i] = t[i].tokens
  BY <1>3, <1>6, UsedFacts
<1>8. Total(s) = Sums(s)[j] + Total(u)
  <2>1. \A k \in 1..Len(u) : u[k] = s[k + j]
    <3> SUFFICES ASSUME NEW k \in 1..(l - j) PROVE u[k] = s[k + j]
      BY <1>7
    <3>1. k + j \in 1..l
      OBVIOUS
    <3> QED
      BY <1>3, <1>5, <1>7, <3>1
  <2>2. j \in 0..Len(s) /\ Len(u) = Len(s) - j
    BY <1>5, <1>7
  <2> QED
    BY <1>5, <1>7, <2>1, <2>2, TailTotal
<1>9. /\ Total(s) \in Nat /\ Total(u) \in Nat /\ Sums(s)[0] = 0
      /\ \A k \in 0..l : Sums(s)[k] \in Nat
  BY <1>5, <1>7, SumsStep
<1>10. Sums(s)[j] >= need <=> j >= m
  <2>1. m \in 0..l /\ m \in 1..l
    BY <1>1
  <2>2. ASSUME j >= m PROVE Sums(s)[j] >= need
    <3>1. Sums(s)[m] <= Sums(s)[j]
      BY <1>5, <2>1, <2>2, SumsRise
    <3>2. Sums(s)[m] >= need
      BY <1>4
    <3> QED
      BY <1>9, <2>1, <3>1, <3>2
  <2>3. ASSUME ~(j >= m) PROVE ~(Sums(s)[j] >= need)
    <3>1. CASE j = 0
      BY <1>9, <3>1
    <3>2. CASE j # 0
      <4>1. j \in 1..Len(es) /\ j < m
        BY <1>1, <2>1, <2>3, <3>2
      <4>2. Sums(s)[j] < need
        BY <1>4, <4>1
      <4> QED
        BY <1>9, <4>2
    <3> QED
      BY <3>1, <3>2
  <2> QED
    BY <2>2, <2>3
<1>11. es[m].age + w >= Window <=> j >= m
  <2>1. es[m].age \in Nat /\ m \in 1..l
    BY <1>1, EventFacts
  <2>2. ASSUME j >= m PROVE es[m].age + w >= Window
    BY <1>3, <2>1, <2>2
  <2>3. ASSUME ~(j >= m) PROVE ~(es[m].age + w >= Window)
    <3>1. m \in (j + 1)..l
      BY <2>1, <2>3
    <3>2. es[m].age + w < Window
      BY <1>3, <3>1
    <3> QED
      BY <2>1, <3>2, RateConstants
  <2> QED
    BY <2>2, <2>3
<1>12. Tokens(es) - Tokens(t) = Sums(s)[j] /\ Tokens(t) \in Nat
  BY <1>5, <1>7, <1>8, <1>9
<1> QED
  BY <1>2, <1>10, <1>11, <1>12

\* A wait for tokens is as long as it has to be and no longer
\* (_compute_token_wait_seconds, against the window as it will be).
THEOREM WaitsAreLeast == RateSpec => []WaitIsLeast
<1>1. RateInv => WaitIsLeast
  <2> SUFFICES ASSUME RateInv PROVE WaitIsLeast
    OBVIOUS
  <2>1. PICK live : live = Purged(events)
    OBVIOUS
  <2>2. /\ live \in Seq(Event)
        /\ \A i, k \in 1..Len(live) : i < k => live[k].age <= live[i].age
        /\ \A i \in 1..Len(live) : live[i].age < Window
    <3>1. Orderly(live, counter) /\ \A i \in 1..Len(live) : live[i].age < Window
      BY <2>1, RateTypes, PurgedFacts
    <3> QED
      BY <3>1 DEF Orderly
  <2>3. PICK l \in Nat : l = Len(live) /\ DOMAIN live = 1..l
    BY <2>2, LenProperties
  <2> SUFFICES ASSUME NEW n \in Sizes, n <= Tpm
               PROVE  TokenWait(live, n) = Min({w \in 0..Window : Tokens(After(live, w)) + n <= Tpm})
    BY <2>1 DEF WaitIsLeast
  <2>4. n \in Nat /\ Tpm \in Nat /\ Window \in Nat
    BY RateConstants
  <2>5. PICK T : T = {w \in 0..Window : Tokens(After(live, w)) + n <= Tpm}
    OBVIOUS
  <2>6. T \in SUBSET Nat
    BY <2>5
  <2>7. PICK s : s = Used(live)
    OBVIOUS
  <2>8. s \in Seq(Nat) /\ Len(s) = l /\ Tokens(live) = Total(s) /\ Tokens(live) \in Nat
    BY <2>2, <2>3, <2>7, UsedFacts
  <2>9. CASE Tokens(live) + n <= Tpm
    <3>1. TokenWait(live, n) = 0
      BY <2>9 DEF TokenWait
    <3>2. After(live, 0) = live
      <4>1. PICK t : t = After(live, 0)
        OBVIOUS
      <4>2. PICK z \in Nat : z = 0
        OBVIOUS
      <4>3. PICK j \in 0..Len(live) :
              /\ \A i \in 1..j : live[i].age + z >= Window
              /\ \A i \in (j + 1)..Len(live) : live[i].age + z < Window
              /\ After(live, z) \in Seq(Event)
              /\ Len(After(live, z)) = Len(live) - j
              /\ \A k \in 1..(Len(live) - j) : After(live, z)[k] = live[k + j]
        BY <2>2, AfterFacts
      <4>4. j = 0
        <5> SUFFICES ASSUME j # 0 PROVE FALSE
          OBVIOUS
        <5>1. 1 \in 1..j /\ 1 \in 1..Len(live)
          BY <2>3
        <5>2. live[1].age \in Nat /\ live[1].age < Window
          BY <2>2, <5>1, EventFacts
        <5>3. live[1].age + z >= Window
          BY <4>3, <5>1
        <5> QED
          BY <2>4, <4>2, <5>2, <5>3
      <4>5. t \in Seq(Event) /\ Len(t) = l /\ \A k \in 1..l : t[k] = live[k + 0]
        BY <2>3, <4>1, <4>2, <4>3, <4>4
      <4>6. t = live
        BY <2>2, <2>3, <4>5, SeqEqual
      <4> QED
        BY <4>1, <4>6
    <3>3. 0 \in T
      BY <2>4, <2>5, <2>9, <3>2
    <3>4. \A y \in T : 0 <= y
      BY <2>6
    <3>5. Min(T) = 0
      BY <2>6, <3>3, <3>4, MinFacts
    <3> QED
      BY <2>5, <3>1, <3>5
  <2>10. CASE ~(Tokens(live) + n <= Tpm)
    <3>1. PICK need \in Nat : need = Tokens(live) + n - Tpm /\ need > 0 /\ need <= Tokens(live)
      BY <2>4, <2>8, <2>10
    <3>2. PICK enough : enough = {k \in 1..l : Sums(s)[k] >= need}
      OBVIOUS
    <3>3. TokenWait(live, n) = IF enough = {} THEN Window ELSE Window - live[Min(enough)].age
      BY <2>3, <2>7, <2>10, <3>1, <3>2 DEF TokenWait
    <3>4. Sums(s)[0] = 0 /\ Sums(s)[l] = Tokens(live) /\ \A k \in 0..l : Sums(s)[k] \in Nat
      BY <2>8, SumsStep
    <3>5. l \in enough
      <4>1. l # 0
        BY <3>1, <3>4
      <4>2. l \in 1..l
        BY <4>1
      <4> QED
        BY <3>1, <3>2, <3>4, <4>2
    <3>6. PICK m : m = Min(enough)
      OBVIOUS
    <3>7. m \in enough /\ \A y \in enough : m <= y
      <4>1. enough \in SUBSET Nat /\ enough # {}
        BY <3>2, <3>5
      <4> QED
        BY <3>6, <4>1, MinFacts
    <3>8. m \in 1..l /\ Sums(s)[m] >= need
      BY <3>2, <3>7
    <3>9. \A k \in 1..l : k < m => Sums(s)[k] < need
      <4> SUFFICES ASSUME NEW k \in 1..l, k < m PROVE Sums(s)[k] < need
        OBVIOUS
      <4>1. k \notin enough
        BY <3>7, <3>8
      <4>2. ~(Sums(s)[k] >= need)
        BY <3>2, <4>1
      <4>3. Sums(s)[k] \in Nat
        BY <3>4
      <4> QED
        BY <3>1, <4>2, <4>3
    <3>10. live[m].age \in Nat /\ live[m].age < Window
      BY <2>2, <2>3, <3>8, EventFacts
    <3>11. PICK v \in 0..Window : v = Window - live[m].age
      BY <2>4, <3>10
    <3>12. ASSUME NEW w \in 0..Window PROVE Tokens(After(live, w)) + n <= Tpm <=> v <= w
      <4>1. w \in Nat
        OBVIOUS
      <4>2. /\ Tokens(After(live, w)) \in Nat
            /\ Tokens(live) - Tokens(After(live, w)) >= need <=> live[m].age + w >= Window
        <5>1. Sums(Used(live))[m] >= need /\ \A k \in 1..Len(live) : k < m => Sums(Used(live))[k] < need
          BY <2>3, <2>7, <3>8, <3>9
        <5>2. m \in 1..Len(live)
          BY <2>3, <3>8
        <5> QED
          BY <2>2, <3>1, <4>1, <5>1, <5>2, AfterTokens
      <4>3. PICK a \in Nat : a = Tokens(After(live, w))
        BY <4>2
      <4>4. a + n <= Tpm <=> Tokens(live) - a >= need
        BY <2>4, <2>8, <3>1, <4>3
      <4>5. live[m].age + w >= Window <=> v <= w
        BY <2>4, <3>10, <3>11, <4>1
      <4> QED
        BY <4>2, <4>3, <4>4, <4>5
    <3>13. v \in T /\ \A y \in T : v <= y
      <4>1. v <= v
        OBVIOUS
      <4> QED
        BY <2>5, <3>12, <4>1
    <3>14. Min(T) = v
      BY <2>6, <3>13, MinFacts
    <3>15. TokenWait(live, n) = v
      BY <3>3, <3>5, <3>6, <3>11
    <3> QED
      BY <2>5, <3>14, <3>15
  <2> QED
    BY <2>9, <2>10
<1> QED
  BY <1>1, RateInvHolds, PTL
==============================================================================
