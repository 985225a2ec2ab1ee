-------------------------- MODULE DispatcherProofs --------------------------
(***************************************************************************)
(* The pool accounting of Dispatcher, its refinement of the promised       *)
(* schedule, and what a run reports and how it ends, for every graph,      *)
(* every number of nodes, workers and retries, with aborts and failing     *)
(* disks.                                                                  *)
(***************************************************************************)
EXTENDS Dispatcher, TaskDAGProofs, FiniteSetTheorems, TLAPS

\* The futures are the nodes in status RUNNING, until an exception leaves a
\* node RUNNING that has no future.
FuturesRun ==
    /\ inFlight \subseteq {n \in Node : status[n] = "running"}
    /\ main \notin {"unwind", "raised"} => inFlight = {n \in Node : status[n] = "running"}
    /\ Cardinality(inFlight) <= MaxWorkers

\* A live executor thread belongs to a future, holds a worker exactly between
\* acquire and release, and has an attempt left until then.
ThreadsHold ==
    /\ \A n \in Node : status[n] = "pending" => pc[n] = "idle"
    /\ \A n \in Node : pc[n] \notin {"idle", "finished"} => n \in inFlight
    /\ \A n \in Node : holds[n] # NoWorker <=> pc[n] \in Held
    /\ \A n \in Node : pc[n] \in Before => tries[n] < MaxTries

ControlInv == TypeOK /\ StartedInOrder(deps, status) /\ FuturesRun /\ ThreadsHold

-----------------------------------------------------------------------------
(* The control state: types, futures and threads.                          *)

LEMMA InitControl == Init => ControlInv
<1> SUFFICES ASSUME Init PROVE ControlInv
    OBVIOUS
<1>1. TypeOK
    BY DispatcherAssumption
       DEF Init, TypeOK, PoolInit, PoolTypeOK, TaskStatus, PCs, Before, Held
<1>2. FuturesRun
    BY MaxWorkersAssumption, FS_EmptySet DEF Init, FuturesRun
<1>3. ThreadsHold
    BY DispatcherAssumption DEF Init, ThreadsHold, Before, Held
<1>4. StartedInOrder(deps, status)
    BY DEF Init, StartedInOrder
<1> QED BY <1>1, <1>2, <1>3, <1>4 DEF ControlInv

LEMMA FewerFutures ==
    ASSUME TypeOK, FuturesRun, inFlight' \subseteq inFlight
    PROVE  Cardinality(inFlight') <= MaxWorkers
<1>1. IsFiniteSet(inFlight)
    BY NodeAssumption, FS_Subset DEF TypeOK
<1>2. IsFiniteSet(inFlight') /\ Cardinality(inFlight') <= Cardinality(inFlight)
    BY <1>1, FS_Subset
<1>3. Cardinality(inFlight) \in Nat /\ Cardinality(inFlight') \in Nat
    BY <1>1, <1>2, FS_CardinalityType
<1> QED BY <1>2, <1>3, MaxWorkersAssumption DEF FuturesRun

\* Launching and handling results: only run() touches statuses and futures.
LEMMA RunStepControl == ControlInv /\ RunStep => ControlInv'
<1> SUFFICES ASSUME ControlInv, RunStep PROVE ControlInv'
    OBVIOUS
<1> USE DEF ControlInv, graphVars, nodeVars, abortVars, poolVars
<1>1. ASSUME NEW n \in Node, Launch(n) PROVE ControlInv'
    <2>1. TypeOK'
        BY <1>1 DEF Launch, Launchable, TypeOK, PoolTypeOK, TaskStatus, PCs, Before
    <2>2. /\ status[n] = "pending" /\ pc[n] = "idle" /\ n \notin inFlight
          /\ status' = [status EXCEPT ![n] = "running"]
          /\ inFlight' = inFlight \cup {n}
          /\ main = "launch" /\ main' = "launch"
          /\ Cardinality(inFlight) < MaxWorkers
        BY <1>1 DEF Launch, Launchable, Runnable, FuturesRun, ThreadsHold
    <2>3. FuturesRun'
        <3>1. IsFiniteSet(inFlight)
            BY NodeAssumption, FS_Subset DEF TypeOK
        <3>2. Cardinality(inFlight') = Cardinality(inFlight) + 1 /\ Cardinality(inFlight) \in Nat
            BY <2>2, <3>1, FS_AddElement, FS_CardinalityType
        <3>3. inFlight' = {m \in Node : status'[m] = "running"}
            BY <2>2 DEF FuturesRun, TypeOK
        <3> QED BY <2>2, <3>2, <3>3, MaxWorkersAssumption DEF FuturesRun
    <2>4. ThreadsHold'
        BY <1>1, <2>2 DEF Launch, ThreadsHold, TypeOK, Before, Held
    <2>5. StartedInOrder(deps, status)'
        <3>1. n \in Runnable(deps, status) /\ deps' = deps
            BY <1>1 DEF Launch, Launchable
        <3> QED BY <2>2, <3>1, OrderIsKept DEF TypeOK
    <2> QED BY <2>1, <2>3, <2>4, <2>5
<1>2. ASSUME NEW n \in Node, LaunchRaises(n) PROVE ControlInv'
    <2>1. TypeOK'
        BY <1>2 DEF LaunchRaises, Launchable, TypeOK, PoolTypeOK, TaskStatus
    <2>2. FuturesRun' /\ ThreadsHold'
        BY <1>2 DEF LaunchRaises, Launchable, Runnable, FuturesRun, ThreadsHold, TypeOK
    <2>3. StartedInOrder(deps, status)'
        BY <1>2, OrderIsKept DEF LaunchRaises, Launchable, Runnable, TypeOK
    <2> QED BY <2>1, <2>2, <2>3
<1>3. ASSUME NEW n \in Node, HandleCompleted(n) PROVE ControlInv'
    <2>1. TypeOK'
        BY <1>3 DEF HandleCompleted, Popped, ContextAfter, TypeOK, PoolTypeOK, TaskStatus
    <2>2. /\ inFlight' = inFlight \ {n} /\ status' = [status EXCEPT ![n] = "completed"]
          /\ main = "wait" /\ pc[n] = "finished" /\ UNCHANGED nodeVars
        BY <1>3 DEF HandleCompleted, Popped
    <2>3. FuturesRun'
        BY <2>2, FewerFutures DEF FuturesRun, TypeOK
    <2>4. ThreadsHold'
        BY <2>2 DEF ThreadsHold, TypeOK
    <2>5. StartedInOrder(deps, status)'
        <3>1. status[n] = "running" /\ deps' = deps
            BY <1>3 DEF HandleCompleted, Popped, FuturesRun
        <3> QED BY <2>2, <3>1, OrderIsKept DEF TypeOK
    <2> QED BY <2>1, <2>3, <2>4, <2>5
<1>4. ASSUME NEW n \in Node, HandleFailed(n) PROVE ControlInv'
    <2> DEFINE failed == Failed(status, n)
               doomed == TransitiveDependents(deps, failed, n)
    <2>1. /\ failed \in [Node -> TaskStatus] /\ doomed \subseteq Node
          /\ Blocked(deps, failed, n) \in [Node -> TaskStatus]
        BY DEF TypeOK, TaskStatus, TransitiveDependents, Unfinished, Blocked, Failed
    <2>2. /\ inFlight' = inFlight \ {n}
          /\ status' \in {failed, Blocked(deps, failed, n)}
          /\ main = "wait" /\ pc[n] = "finished" /\ UNCHANGED <<deps, nodeVars>>
          /\ main' \in {"launch", "unwind"}
          /\ inFlight = {m \in Node : status[m] = "running"} /\ status[n] = "running"
        BY <1>4 DEF HandleFailed, Popped, FuturesRun
    <2>3. summary' \in [completed : SUBSET Node, failed : SUBSET Node, blocked : SUBSET Node]
        <3>1. \/ UNCHANGED summary
              \/ \E told \in SUBSET doomed :
                    summary' = [summary EXCEPT !.failed = @ \cup {n}, !.blocked = @ \cup told]
            BY <1>4 DEF HandleFailed, Popped
        <3>2. ASSUME NEW told \in SUBSET doomed
              PROVE  [summary EXCEPT !.failed = @ \cup {n}, !.blocked = @ \cup told]
                       \in [completed : SUBSET Node, failed : SUBSET Node, blocked : SUBSET Node]
            BY <2>1 DEF TypeOK
        <3> QED BY <3>1, <3>2 DEF TypeOK
    <2>4. TypeOK'
        BY <1>4, <2>1, <2>2, <2>3 DEF HandleFailed, Popped, TypeOK, PoolTypeOK
    \* A running node is not among the blocked: it keeps its future.
    <2>5. status' \in [Node -> TaskStatus] /\ \A m \in Node \ {n} :
              /\ status'[m] = status[m] \/ (status'[m] = "blocked" /\ status[m] = "pending")
        <3>1. CASE status' = failed
            BY <3>1, <2>1 DEF Failed, TypeOK
        <3>2. CASE status' = Blocked(deps, failed, n)
            BY <3>2, <2>1, <2>2, FailureSpreadsToPending DEF TypeOK
        <3> QED BY <2>2, <3>1, <3>2
    <2>6. status'[n] = "failed"
        <3>1. CASE status' = failed
            BY <3>1 DEF Failed, TypeOK
        <3>2. CASE status' = Blocked(deps, failed, n)
            BY <3>2, <2>2, FailureSpreadsToPending DEF TypeOK
        <3> QED BY <2>2, <3>1, <3>2
    <2>7. FuturesRun'
        <3>1. inFlight' = {m \in Node : status'[m] = "running"}
            BY <2>2, <2>5, <2>6
        <3> QED BY <2>2, <3>1, FewerFutures DEF FuturesRun
    <2>8. ThreadsHold'
        BY <2>2, <2>5, <2>6 DEF ThreadsHold
    <2>9. StartedInOrder(deps, status)'
        <3>1. deps' = deps
            BY <2>2
        <3>2. CASE status' = failed
            BY <3>1, <3>2, <2>2, OrderIsKept DEF TypeOK
        <3>3. CASE status' = Blocked(deps, failed, n)
            BY <3>1, <3>3, <2>2, OrderIsKept DEF TypeOK
        <3> QED BY <2>2, <3>2, <3>3
    <2> QED BY <2>4, <2>7, <2>8, <2>9
<1>5. ASSUME EndLaunching PROVE ControlInv'
    BY <1>5 DEF EndLaunching, TypeOK, PoolTypeOK, FuturesRun, ThreadsHold
<1>6. ASSUME Finish PROVE ControlInv'
    BY <1>6 DEF Finish, TypeOK, PoolTypeOK, FuturesRun, ThreadsHold
<1>7. ASSUME Unwind PROVE ControlInv'
    BY <1>7 DEF Unwind, TypeOK, PoolTypeOK, FuturesRun, ThreadsHold
<1> QED BY <1>1, <1>2, <1>3, <1>4, <1>5, <1>6, <1>7 DEF RunStep

\* Executor threads leave statuses and futures alone.
LEMMA RunVarsKept ==
    ASSUME ControlInv, UNCHANGED <<graphVars, runVars>>
    PROVE  FuturesRun' /\ StartedInOrder(deps, status)'
BY DEF ControlInv, FuturesRun, StartedInOrder, graphVars, runVars

\* Every step of a node's thread: its place, its worker and its attempts move
\* together.
LEMMA NodeStepControl ==
    ASSUME NEW n \in Node
    PROVE  ControlInv /\ NodeStep(n) => ControlInv'
<1> SUFFICES ASSUME ControlInv, NodeStep(n) PROVE ControlInv'
    OBVIOUS
<1>1. UNCHANGED <<graphVars, runVars>>
    BY DEF NodeStep, Arm, Check1, Preflight, Check2, Acquire, Spawn, Check3, Poll, Check4,
           WriteRecord, ReleaseWorker
<1>2. FuturesRun' /\ StartedInOrder(deps, status)'
    BY <1>1, RunVarsKept
<1>3. n \in inFlight /\ status[n] = "running" /\ pc[n] \notin {"idle", "finished"}
    BY DEF NodeStep, Arm, Check1, Preflight, Check2, Acquire, Spawn, Check3, Poll, Check4,
           WriteRecord, ReleaseWorker, ControlInv, ThreadsHold, FuturesRun
<1> DEFINE Local == /\ TypeOK'
                    /\ \A m \in Node \ {n} : pc'[m] = pc[m] /\ holds'[m] = holds[m] /\ tries'[m] = tries[m]
                    /\ pc'[n] # "idle"
                    /\ holds'[n] # NoWorker <=> pc'[n] \in Held
                    /\ pc'[n] \in Before => tries'[n] < MaxTries
<1>4. Local
    <2> USE DEF ControlInv, TypeOK, PoolTypeOK, ThreadsHold, PCs, Before, Held,
                graphVars, runVars, abortVars, poolVars
    <2>1. CASE Arm(n)
        BY <2>1 DEF Arm, Goto
    <2>2. CASE Check1(n)
        BY <2>2 DEF Check1, Check, Goto, GiveUp
    <2>3. CASE Preflight(n)
        BY <2>3 DEF Preflight, Goto, GiveUp
    <2>4. CASE Check2(n)
        BY <2>4 DEF Check2, Check, Goto, GiveUp
    <2>5. ASSUME pc[n] \in {"acquire", "spawn"}, TryAgain(n)
          PROVE  /\ tries' \in [Node -> 0..MaxTries] /\ pc' \in [Node -> PCs]
                 /\ result' \in [Node -> {"none", "failed", "recorded", "unrecorded"}]
                 /\ holds' = holds
                 /\ \A m \in Node \ {n} : pc'[m] = pc[m] /\ tries'[m] = tries[m]
                 /\ pc'[n] \in {"acquire", "finished"}
                 /\ pc'[n] \in Before => tries'[n] < MaxTries
        <3>1. holds[n] = NoWorker /\ tries[n] < MaxTries
            BY <2>5
        <3>2. tries[n] + 1 \in 0..MaxTries
            BY <3>1, DispatcherAssumption
        <3>3. tries' = [tries EXCEPT ![n] = @ + 1] /\ holds' = holds
            BY <2>5 DEF TryAgain
        <3>4. CASE tries'[n] = MaxTries
            BY <3>1, <3>2, <3>3, <3>4, <2>5 DEF TryAgain, GiveUp
        <3>5. CASE tries'[n] # MaxTries
            BY <3>1, <3>2, <3>3, <3>5, <2>5, DispatcherAssumption DEF TryAgain, Goto
        <3> QED BY <3>4, <3>5
    <2>6. CASE Acquire(n)
        <3>1. CASE TurnedAway /\ TryAgain(n)
            BY <3>1, <2>5, <2>6 DEF Acquire, TurnedAway
        <3>2. ASSUME NEW w \in idle[role[n]], TakeIdle(role[n], w),
                     holds' = [holds EXCEPT ![n] = w], Goto(n, "check3"), UNCHANGED tries
              PROVE  Local
            <4>1. w \in Worker /\ w # NoWorker
                BY <3>2, DispatcherAssumption
            <4> QED BY <3>2, <4>1, <2>6 DEF Acquire, TakeIdle, Goto
        <3>3. CASE GoSpawn(role[n]) /\ Goto(n, "spawn") /\ UNCHANGED <<holds, tries>>
            BY <3>3, <2>6 DEF Acquire, GoSpawn, Goto
        <3> QED BY <2>6, <3>1, <3>2, <3>3 DEF Acquire
    <2>7. CASE Spawn(n)
        <3>1. CASE DiscardSpawned /\ TryAgain(n)
            BY <3>1, <2>5, <2>7 DEF Spawn, DiscardSpawned
        <3>2. ASSUME NEW w \in Worker \ InUse, KeepSpawned,
                     holds' = [holds EXCEPT ![n] = w], Goto(n, "check3"), UNCHANGED tries
              PROVE  Local
            <4>1. w \in Worker /\ w # NoWorker
                BY <3>2, DispatcherAssumption
            <4> QED BY <3>2, <4>1, <2>7 DEF Spawn, KeepSpawned, Goto
        <3>3. CASE GiveUp(n) /\ UNCHANGED <<holds, tries, poolVars>>
            BY <3>3, <2>7 DEF Spawn, GiveUp
        <3> QED BY <2>7, <3>1, <3>2, <3>3 DEF Spawn
    <2>8. CASE Check3(n)
        BY <2>8 DEF Check3, Check, Goto, GiveUp
    <2>9. CASE Poll(n)
        BY <2>9 DEF Poll, Goto, GiveUp
    <2>10. CASE Check4(n)
        BY <2>10 DEF Check4, Check, Goto, GiveUp
    <2>11. CASE WriteRecord(n)
        BY <2>11 DEF WriteRecord
    <2>12. CASE ReleaseWorker(n)
        BY <2>12 DEF ReleaseWorker, Return, Goto
    <2> QED BY <2>1, <2>2, <2>3, <2>4, <2>6, <2>7, <2>8, <2>9, <2>10, <2>11, <2>12 DEF NodeStep
<1>5. ThreadsHold'
    BY <1>1, <1>3, <1>4 DEF ControlInv, ThreadsHold, runVars
<1> QED BY <1>2, <1>4, <1>5 DEF ControlInv

LEMMA OtherStepControl ==
    ASSUME NEW n \in Node
    PROVE  ControlInv /\ (InvocationReturns(n) \/ AbortStep(n)) => ControlInv'
<1> SUFFICES ASSUME ControlInv, InvocationReturns(n) \/ AbortStep(n) PROVE ControlInv'
    OBVIOUS
<1>1. UNCHANGED <<graphVars, runVars, pc, holds, tries>>
    BY DEF InvocationReturns, AbortStep, AbortSignal, AbortMiss, AbortPrearm, nodeVars
<1>2. TypeOK'
    <2> USE DEF ControlInv, TypeOK, PoolTypeOK, graphVars, runVars, nodeVars, poolVars
    <2>1. CASE InvocationReturns(n)
        BY <2>1 DEF InvocationReturns, abortVars
    <2>2. CASE AbortSignal(n)
        BY <2>2 DEF AbortSignal
    <2>3. CASE AbortMiss(n)
        BY <2>3 DEF AbortMiss
    <2>4. CASE AbortPrearm(n)
        BY <2>4 DEF AbortPrearm
    <2> QED BY <2>1, <2>2, <2>3, <2>4 DEF AbortStep
<1>3. ThreadsHold'
    BY <1>1 DEF ControlInv, ThreadsHold, runVars
<1> QED BY <1>1, <1>2, <1>3, RunVarsKept DEF ControlInv

LEMMA NextControl == ControlInv /\ [Next]_vars => ControlInv'
<1>1. ControlInv /\ UNCHANGED vars => ControlInv'
    BY DEF ControlInv, TypeOK, PoolTypeOK, StartedInOrder, FuturesRun, ThreadsHold,
           vars, graphVars, runVars, nodeVars, abortVars, poolVars
<1> QED BY <1>1, RunStepControl, NodeStepControl, OtherStepControl DEF Next

\* Every reachable state of the dispatcher has its variables in their types;
\* among them the bound on the attempts of _acquire_worker.
THEOREM DispatcherTypeCorrect == Spec => []TypeOK
<1>1. Spec => []ControlInv
    BY InitControl, NextControl, PTL DEF Spec
<1> QED BY <1>1, PTL DEF ControlInv

-----------------------------------------------------------------------------
(* The pool: who holds which worker, and the count.                        *)

PoolInv == WorkerHeldOnce /\ ActiveCountExact /\ NeverTurnedAway

\* The holders are futures' nodes, and a node that still asks for a worker is
\* one more: the count it meets is below MaxWorkers.
LEMMA RoomForOneMore ==
    ASSUME ControlInv, ActiveCountExact, NEW n \in Node, pc[n] \in {"acquire", "spawn"}
    PROVE  active < MaxWorkers
<1>1. IsFiniteSet(inFlight)
    BY NodeAssumption, FS_Subset DEF ControlInv, TypeOK
<1>2. n \in inFlight /\ n \notin Holders /\ Holders \subseteq inFlight
    BY DEF ControlInv, ThreadsHold, Holders, Held
<1>3. IsFiniteSet(Holders) /\ Cardinality(Holders) \in Nat /\ Cardinality(inFlight) \in Nat
    BY <1>1, <1>2, FS_Subset, FS_CardinalityType
<1>4. Cardinality(Holders \cup {n}) = Cardinality(Holders) + 1
    BY <1>2, <1>3, FS_AddElement
<1>5. Cardinality(Holders \cup {n}) <= Cardinality(inFlight)
    BY <1>1, <1>2, FS_Subset
<1> QED BY <1>3, <1>4, <1>5, MaxWorkersAssumption DEF ControlInv, FuturesRun, ActiveCountExact

LEMMA HoldersFinite == IsFiniteSet(Holders) /\ Cardinality(Holders) \in Nat
BY NodeAssumption, FS_Subset, FS_CardinalityType DEF Holders

LEMMA InitPool == Init => PoolInv
<1> SUFFICES ASSUME Init PROVE PoolInv
    OBVIOUS
<1>1. Holders = {}
    BY DEF Init, Holders
<1>2. ActiveCountExact
    BY <1>1, FS_EmptySet DEF Init, PoolInit, ActiveCountExact
<1>3. WorkerHeldOnce /\ NeverTurnedAway
    BY DEF Init, PoolInit, WorkerHeldOnce, NeverTurnedAway
<1> QED BY <1>2, <1>3 DEF PoolInv

LEMMA PoolUntouched ==
    ASSUME PoolInv, UNCHANGED <<poolVars, holds, tries>>
    PROVE  PoolInv'
BY DEF PoolInv, WorkerHeldOnce, ActiveCountExact, NeverTurnedAway, Holders, poolVars

\* A node that had no worker gets w, which nobody held.
LEMMA Gain ==
    ASSUME ControlInv, ActiveCountExact, NEW n \in Node, pc[n] \in {"acquire", "spawn"},
           NEW w \in Worker, holds' = [holds EXCEPT ![n] = w], active' = active + 1
    PROVE  ActiveCountExact'
<1>1. holds[n] = NoWorker /\ w # NoWorker
    BY DispatcherAssumption DEF ControlInv, ThreadsHold, Held
<1>2. Holders' = Holders \cup {n} /\ n \notin Holders
    BY <1>1 DEF Holders, ControlInv, TypeOK
<1> QED BY <1>2, HoldersFinite, FS_AddElement DEF ActiveCountExact

LEMMA AcquirePool ==
    ASSUME ControlInv, PoolInv, NEW n \in Node, Acquire(n)
    PROVE  PoolInv'
<1>1. pc[n] = "acquire" /\ holds[n] = NoWorker
    BY DEF Acquire, ControlInv, ThreadsHold, Held
<1>2. CASE TurnedAway /\ TryAgain(n)
    <2>1. ~(PoolSize >= MaxWorkers)
        BY <1>1, <1>2, RoomForOneMore, MaxWorkersAssumption, PoolAssumption
           DEF TurnedAway, AtCapacity, PoolInv, ActiveCountExact, ControlInv, TypeOK, PoolTypeOK
    <2>2. UNCHANGED <<poolVars, holds>>
        BY <1>2 DEF TurnedAway, TryAgain
    <2> QED BY <2>1, <2>2 DEF PoolInv, WorkerHeldOnce, ActiveCountExact, NeverTurnedAway, Holders,
                              poolVars
<1>3. ASSUME NEW w \in idle[role[n]], TakeIdle(role[n], w),
             holds' = [holds EXCEPT ![n] = w], UNCHANGED tries
      PROVE  PoolInv'
    <2>1. role[n] \in Role /\ w \in Worker /\ active' = active + 1
          /\ idle' = [idle EXCEPT ![role[n]] = @ \ {w}]
        BY <1>3 DEF ControlInv, TypeOK, PoolTypeOK, TakeIdle
    <2>2. ActiveCountExact'
        BY <1>1, <1>3, <2>1, Gain DEF PoolInv
    <2>3. WorkerHeldOnce'
        BY <1>3, <2>1, DispatcherAssumption DEF PoolInv, WorkerHeldOnce, ControlInv, TypeOK, PoolTypeOK
    <2>4. NeverTurnedAway'
        BY <1>3 DEF PoolInv, NeverTurnedAway
    <2> QED BY <2>2, <2>3, <2>4 DEF PoolInv
<1>4. CASE GoSpawn(role[n]) /\ UNCHANGED <<holds, tries>>
    BY <1>4, PoolUntouched DEF GoSpawn
<1> QED BY <1>2, <1>3, <1>4 DEF Acquire

LEMMA SpawnPool ==
    ASSUME ControlInv, PoolInv, NEW n \in Node, Spawn(n)
    PROVE  PoolInv'
<1>1. pc[n] = "spawn" /\ holds[n] = NoWorker
    BY DEF Spawn, ControlInv, ThreadsHold, Held
<1>2. CASE DiscardSpawned /\ TryAgain(n)
    <2>1. ~(PoolSize >= MaxWorkers)
        BY <1>1, <1>2, RoomForOneMore, MaxWorkersAssumption, PoolAssumption
           DEF DiscardSpawned, AtCapacity, PoolInv, ActiveCountExact, ControlInv, TypeOK, PoolTypeOK
    <2>2. UNCHANGED <<poolVars, holds>>
        BY <1>2 DEF DiscardSpawned, TryAgain
    <2> QED BY <2>1, <2>2 DEF PoolInv, WorkerHeldOnce, ActiveCountExact, NeverTurnedAway, Holders,
                              poolVars
<1>3. ASSUME NEW w \in Worker \ InUse, KeepSpawned,
             holds' = [holds EXCEPT ![n] = w], UNCHANGED tries
      PROVE  PoolInv'
    <2>1. /\ w \in Worker /\ w # NoWorker /\ active' = active + 1 /\ idle' = idle
          /\ \A r \in Role : w \notin idle[r]
          /\ \A m \in Node : holds[m] # w
        <3>1. \A r \in Role : idle[r] \subseteq InUse
            BY DEF InUse
        <3>2. \A m \in Node : holds[m] \in {holds[k] : k \in Node}
            OBVIOUS
        <3>3. {holds[k] : k \in Node} \subseteq InUse
            BY DEF InUse
        <3> QED BY <1>3, <3>1, <3>2, <3>3, DispatcherAssumption DEF KeepSpawned
    <2>2. ActiveCountExact'
        BY <1>1, <1>3, <2>1, Gain DEF PoolInv
    <2>3. WorkerHeldOnce'
        BY <1>3, <2>1 DEF PoolInv, WorkerHeldOnce, ControlInv, TypeOK
    <2>4. NeverTurnedAway'
        BY <1>3 DEF PoolInv, NeverTurnedAway
    <2> QED BY <2>2, <2>3, <2>4 DEF PoolInv
<1>4. CASE UNCHANGED <<holds, tries, poolVars>>
    BY <1>4, PoolUntouched
<1> QED BY <1>2, <1>3, <1>4 DEF Spawn

\* A release takes the node out of the holders and one off the count, which is
\* then above zero: max(0, ...) never hides a missing acquire.
LEMMA ReleasePool ==
    ASSUME ControlInv, PoolInv, NEW n \in Node, ReleaseWorker(n)
    PROVE  PoolInv'
<1>1. /\ pc[n] = "release" /\ holds[n] \in Worker /\ holds[n] # NoWorker /\ role[n] \in Role
      /\ holds' = [holds EXCEPT ![n] = NoWorker] /\ tries' = tries
      /\ idle' = [idle EXCEPT ![role[n]] = @ \cup {holds[n]}]
      /\ active' = IF active > 0 THEN active - 1 ELSE 0
    BY DEF ReleaseWorker, Return, ControlInv, ThreadsHold, Held, TypeOK
<1>2. Holders' = Holders \ {n} /\ n \in Holders
    BY <1>1 DEF Holders, ControlInv, TypeOK
<1>3. Cardinality(Holders') = Cardinality(Holders) - 1 /\ Cardinality(Holders') \in Nat
    BY <1>2, HoldersFinite, FS_RemoveElement, FS_CardinalityType
<1>4. ActiveCountExact'
    BY <1>1, <1>3, HoldersFinite DEF PoolInv, ActiveCountExact
<1>5. WorkerHeldOnce'
    BY <1>1, DispatcherAssumption DEF PoolInv, WorkerHeldOnce, ControlInv, TypeOK, PoolTypeOK
<1>6. NeverTurnedAway'
    BY <1>1 DEF PoolInv, NeverTurnedAway
<1> QED BY <1>4, <1>5, <1>6 DEF PoolInv

LEMMA NextPool == ControlInv /\ PoolInv /\ [Next]_vars => PoolInv'
<1> SUFFICES ASSUME ControlInv, PoolInv, [Next]_vars PROVE PoolInv'
    OBVIOUS
<1>1. CASE RunStep
    <2>1. UNCHANGED <<poolVars, holds, tries>>
        BY <1>1 DEF RunStep, Launch, LaunchRaises, HandleCompleted, HandleFailed, EndLaunching,
                    Finish, Unwind, nodeVars
    <2> QED BY <2>1, PoolUntouched
<1>2. ASSUME NEW n \in Node, NodeStep(n) PROVE PoolInv'
    <2>1. CASE Acquire(n)
        BY <2>1, AcquirePool
    <2>2. CASE Spawn(n)
        BY <2>2, SpawnPool
    <2>3. CASE ReleaseWorker(n)
        BY <2>3, ReleasePool
    <2>4. CASE \/ Arm(n) \/ Check1(n) \/ Preflight(n) \/ Check2(n) \/ Check3(n) \/ Poll(n)
               \/ Check4(n) \/ WriteRecord(n)
        <3>1. UNCHANGED <<poolVars, holds, tries>>
            BY <2>4 DEF Arm, Check1, Preflight, Check2, Check3, Poll, Check4, WriteRecord
        <3> QED BY <3>1, PoolUntouched
    <2> QED BY <1>2, <2>1, <2>2, <2>3, <2>4 DEF NodeStep
<1>3. ASSUME NEW n \in Node, InvocationReturns(n) \/ AbortStep(n) PROVE PoolInv'
    <2>1. UNCHANGED <<poolVars, holds, tries>>
        BY <1>3 DEF InvocationReturns, AbortStep, AbortSignal, AbortMiss, AbortPrearm, nodeVars
    <2> QED BY <2>1, PoolUntouched
<1>4. CASE UNCHANGED vars
    BY <1>4, PoolUntouched DEF vars, nodeVars
<1> QED BY <1>1, <1>2, <1>3, <1>4 DEF Next

LEMMA PoolInvariant == Spec => [](ControlInv /\ PoolInv)
BY InitControl, NextControl, InitPool, NextPool, PTL DEF Spec

\* The pool's count is exact on every path through _run_node.
THEOREM ActiveCountIsExact == Spec => []ActiveCountExact
BY PoolInvariant, PTL DEF PoolInv

\* No worker is given to two nodes, or both given and kept idle.
THEOREM WorkersAreHeldOnce == Spec => []WorkerHeldOnce
BY PoolInvariant, PTL DEF PoolInv

\* With a pool as large as the executor, acquire never returns None: the 300
\* attempts and their time-out are never needed.
THEOREM NobodyIsTurnedAway == Spec => []NeverTurnedAway
BY PoolInvariant, PTL DEF PoolInv

-----------------------------------------------------------------------------
(* The dispatcher implements the promised schedule.                        *)

\* The instance reads the same graph operators.
LEMMA SameGraphOperators ==
    ASSUME NEW g, NEW s, NEW f
    PROVE  /\ Schedule!Acyclic(g) = Acyclic(g)
           /\ Schedule!Runnable(g, s) = Runnable(g, s)
           /\ Schedule!Failed(s, f) = Failed(s, f)
           /\ Schedule!Blocked(g, s, f) = Blocked(g, s, f)
<1>1. Schedule!TransitiveDependents(g, s, f) = TransitiveDependents(g, s, f)
    BY DEF Schedule!TransitiveDependents, TransitiveDependents, Schedule!Unfinished, Unfinished,
           Schedule!ClosedUnder, ClosedUnder
<1> QED BY <1>1 DEF Schedule!Acyclic, Acyclic, Schedule!Runnable, Runnable, Schedule!Failed, Failed,
                    Schedule!Blocked, Blocked

LEMMA SameCardinality == \A S : Schedule!Cardinality(S) = Cardinality(S)
BY Zenon DEF Schedule!Cardinality, Cardinality, Schedule!IsFiniteSet, IsFiniteSet

LEMMA RunningAreFutures ==
    ASSUME ControlInv, main \notin {"unwind", "raised"}
    PROVE  Schedule!Running = inFlight
BY DEF ControlInv, FuturesRun, Schedule!Running

\* One iteration of run() is one step of the schedule, or none.
LEMMA RunStepRefines ==
    ASSUME ControlInv, RunStep
    PROVE  [Schedule!Next]_Schedule!vars
<1> DEFINE Cut == main' \in {"unwind", "raised"}
<1>1. ASSUME NEW n \in Node, Launch(n) PROVE Schedule!Next
    <2>1. Schedule!Start(n)
        <3>1. /\ main = "launch" /\ n \in Runnable(deps, status) /\ deps' = deps
              /\ Cardinality(inFlight) < MaxWorkers
              /\ status' = [status EXCEPT ![n] = "running"]
            BY <1>1 DEF Launch, Launchable, graphVars
        <3>2. Schedule!Running = inFlight /\ n \in Schedule!Runnable(deps, status)
            BY <3>1, RunningAreFutures, SameGraphOperators
        <3>3. main \notin {"unwind", "raised"} /\ Schedule!MayHalt
            BY <3>1 DEF Schedule!MayHalt
        <3>4. Schedule!Cardinality(Schedule!Running) < MaxWorkers
            BY <3>1, <3>2, SameCardinality
        <3> QED BY <3>1, <3>2, <3>3, <3>4 DEF Schedule!Start
    <2> QED BY <2>1 DEF Schedule!Next
<1>2. ASSUME NEW n \in Node, LaunchRaises(n) PROVE Schedule!Next
    <2>1. Schedule!Start(n)
        <3>1. /\ main = "launch" /\ n \in Runnable(deps, status) /\ deps' = deps
              /\ Cardinality(inFlight) < MaxWorkers
              /\ status' = [status EXCEPT ![n] = "running"]
            BY <1>2 DEF LaunchRaises, Launchable, graphVars
        <3>2. Schedule!Running = inFlight /\ n \in Schedule!Runnable(deps, status)
            BY <3>1, RunningAreFutures, SameGraphOperators
        <3>3. main \notin {"unwind", "raised"} /\ Schedule!MayHalt
            BY <3>1 DEF Schedule!MayHalt
        <3>4. Schedule!Cardinality(Schedule!Running) < MaxWorkers
            BY <3>1, <3>2, SameCardinality
        <3> QED BY <3>1, <3>2, <3>3, <3>4 DEF Schedule!Start
    <2> QED BY <2>1 DEF Schedule!Next
<1>3. ASSUME NEW n \in Node, HandleCompleted(n) PROVE Schedule!Next
    <2>1. Schedule!Complete(n)
        BY <1>3 DEF HandleCompleted, Popped, Schedule!Complete, Schedule!MayHalt, graphVars, ControlInv, FuturesRun
    <2> QED BY <2>1 DEF Schedule!Next
<1>4. ASSUME NEW n \in Node, HandleFailed(n) PROVE Schedule!Next
    <2>1. status[n] = "running" /\ deps' = deps /\ main = "wait"
        BY <1>4 DEF HandleFailed, Popped, graphVars, ControlInv, FuturesRun
    <2>2. CASE status' = Blocked(deps, Failed(status, n), n)
        <3>1. Schedule!Fail(n)
            BY <2>1, <2>2, SameGraphOperators DEF Schedule!Fail, Schedule!MayHalt
        <3> QED BY <3>1 DEF Schedule!Next
    <2>3. CASE status' = Failed(status, n) /\ main' = "unwind"
        <3>1. Schedule!FailUnpropagated(n)
            BY <2>1, <2>3, SameGraphOperators DEF Schedule!FailUnpropagated
        <3> QED BY <3>1 DEF Schedule!Next
    <2> QED BY <1>4, <2>2, <2>3 DEF HandleFailed, Popped
<1>5. ASSUME EndLaunching PROVE UNCHANGED Schedule!vars
    BY <1>5 DEF EndLaunching, Schedule!vars, graphVars
<1>6. ASSUME Finish PROVE [Schedule!Next]_Schedule!vars
    <2>1. CASE main' = "done"
        BY <1>6, <2>1 DEF Finish, Schedule!vars, graphVars
    <2>2. CASE main' = "raised"
        <3>1. Schedule!Halt
            BY <1>6, <2>2 DEF Finish, Schedule!Halt, graphVars
        <3> QED BY <3>1 DEF Schedule!Next
    <2> QED BY <1>6, <2>1, <2>2 DEF Finish
<1>7. ASSUME Unwind PROVE UNCHANGED Schedule!vars
    BY <1>7 DEF Unwind, Schedule!vars, graphVars
<1> QED BY <1>1, <1>2, <1>3, <1>4, <1>5, <1>6, <1>7 DEF RunStep

\* Refinement: dependency order, the ceiling and the propagation of failures
\* are those of DispatchSchedule, under any interleaving of executor threads,
\* invocations, aborts and disk errors.
THEOREM DispatcherRefinesSchedule == Spec => ImplementsSchedule
<1>1. Init => Schedule!Init
    BY SameGraphOperators DEF Init, Schedule!Init, Graph, Schedule!Graph
<1>2. ASSUME ControlInv, [Next]_vars PROVE [Schedule!Next]_Schedule!vars
    <2>1. CASE RunStep
        BY <1>2, <2>1, RunStepRefines
    <2>2. ASSUME NEW n \in Node, NodeStep(n) PROVE UNCHANGED Schedule!vars
        BY <2>2 DEF NodeStep, Arm, Check1, Preflight, Check2, Acquire, Spawn, Check3, Poll, Check4,
                    WriteRecord, ReleaseWorker, graphVars, runVars, Schedule!vars
    <2>3. ASSUME NEW n \in Node, InvocationReturns(n) \/ AbortStep(n) PROVE UNCHANGED Schedule!vars
        BY <2>3 DEF InvocationReturns, AbortStep, AbortSignal, AbortMiss, AbortPrearm,
                    graphVars, runVars, Schedule!vars
    <2>4. CASE UNCHANGED vars
        BY <2>4 DEF vars, graphVars, runVars, Schedule!vars
    <2> QED BY <1>2, <2>1, <2>2, <2>3, <2>4 DEF Next
<1>3. Spec => []ControlInv
    BY InitControl, NextControl, PTL DEF Spec
<1> QED BY <1>1, <1>2, <1>3, PTL DEF Spec, ImplementsSchedule, Schedule!Spec

-----------------------------------------------------------------------------
(* What the run reports: the summary, the context and the end.             *)

\* Only run() touches what these invariants speak of.
LEMMA OnlyRunSteps ==
    ASSUME [Next]_vars
    PROVE  RunStep \/ UNCHANGED <<graphVars, runVars>>
<1>1. ASSUME NEW n \in Node, NodeStep(n) PROVE UNCHANGED <<graphVars, runVars>>
    BY <1>1 DEF NodeStep, Arm, Check1, Preflight, Check2, Acquire, Spawn, Check3, Poll, Check4,
                WriteRecord, ReleaseWorker
<1>2. ASSUME NEW n \in Node, InvocationReturns(n) \/ AbortStep(n) PROVE UNCHANGED <<graphVars, runVars>>
    BY <1>2 DEF InvocationReturns, AbortStep, AbortSignal, AbortMiss, AbortPrearm
<1> QED BY <1>1, <1>2 DEF Next, vars

\* The result of a future makes its node COMPLETED, FAILED or, with an
\* exception, leaves the failure unpropagated; besides, it blocks pending nodes.
LEMMA FailureChanges ==
    ASSUME ControlInv, NEW n \in Node, HandleFailed(n)
    PROVE  LET doomed == TransitiveDependents(deps, Failed(status, n), n)
           IN  /\ status[n] = "running" /\ doomed \subseteq Node
               /\ \A m \in doomed : status[m] = "pending"
               /\ \/ status' = Failed(status, n)
                  \/ status' = [m \in Node |-> IF m \in doomed THEN "blocked" ELSE Failed(status, n)[m]]
               /\ main' = "launch" => status' = Blocked(deps, Failed(status, n), n)
<1> DEFINE failed == Failed(status, n)
           doomed == TransitiveDependents(deps, failed, n)
<1>1. status[n] = "running" /\ n \in inFlight
    BY DEF HandleFailed, Popped, ControlInv, FuturesRun
<1>2. deps \in Graph /\ status \in [Node -> TaskStatus] /\ StartedInOrder(deps, status)
    BY DEF ControlInv, TypeOK
<1>3. \A m \in doomed : status[m] = "pending"
    BY <1>1, <1>2, FailureSpreadsToPending
<1>4. doomed \subseteq Node
    BY DEF TransitiveDependents, Unfinished
<1>5. Blocked(deps, failed, n) = [m \in Node |-> IF m \in doomed THEN "blocked" ELSE failed[m]]
    BY DEF Blocked
<1>6. /\ status' = failed \/ status' = Blocked(deps, failed, n)
      /\ main' = "launch" => status' = Blocked(deps, failed, n)
    BY DEF HandleFailed
<1> QED BY <1>1, <1>3, <1>4, <1>5, <1>6

SummaryOf(st) == [completed |-> {n \in Node : st[n] = "completed"},
                  failed    |-> {n \in Node : st[n] = "failed"},
                  blocked   |-> {n \in Node : st[n] = "blocked"}]

SummaryInv == main \in {"launch", "wait", "exit", "done"} => summary = SummaryOf(status)

\* The summary always lists the nodes by their status, unless an exception
\* interrupted an iteration.
LEMMA NextSummary ==
    ASSUME ControlInv, SummaryInv, [Next]_vars
    PROVE  SummaryInv'
<1>1. CASE UNCHANGED <<graphVars, runVars>>
    BY <1>1 DEF SummaryInv, SummaryOf, runVars
<1>2. ASSUME NEW n \in Node, Launch(n) \/ LaunchRaises(n) PROVE SummaryInv'
    BY <1>2 DEF Launch, LaunchRaises, Launchable, Runnable, SummaryInv, SummaryOf, ControlInv, TypeOK
<1>3. ASSUME NEW n \in Node, HandleCompleted(n) PROVE SummaryInv'
    <2>1. /\ status[n] = "running" /\ summary = SummaryOf(status) /\ main' \in {"launch", "unwind"}
          /\ status' = [status EXCEPT ![n] = "completed"]
          /\ main' = "launch" => summary' = [summary EXCEPT !.completed = @ \cup {n}]
        BY <1>3 DEF HandleCompleted, Popped, ControlInv, FuturesRun, SummaryInv
    <2>2. /\ {m \in Node : status'[m] = "completed"} = {m \in Node : status[m] = "completed"} \cup {n}
          /\ {m \in Node : status'[m] = "failed"} = {m \in Node : status[m] = "failed"}
          /\ {m \in Node : status'[m] = "blocked"} = {m \in Node : status[m] = "blocked"}
        BY <2>1 DEF ControlInv, TypeOK
    <2> QED BY <2>1, <2>2 DEF SummaryInv, SummaryOf
<1>4. ASSUME NEW n \in Node, HandleFailed(n) PROVE SummaryInv'
    <2> DEFINE doomed == TransitiveDependents(deps, Failed(status, n), n)
    <2>1. /\ main' \in {"launch", "unwind"} /\ summary = SummaryOf(status)
          /\ main' = "launch" =>
                summary' = [summary EXCEPT !.failed = @ \cup {n}, !.blocked = @ \cup doomed]
        BY <1>4 DEF HandleFailed, SummaryInv
    <2> SUFFICES ASSUME main' = "launch" PROVE summary' = SummaryOf(status')
        BY <2>1 DEF SummaryInv, SummaryOf
    <2>2. /\ status' = [m \in Node |-> IF m \in doomed THEN "blocked" ELSE Failed(status, n)[m]]
          /\ status[n] = "running" /\ doomed \subseteq Node /\ \A m \in doomed : status[m] = "pending"
        BY <1>4, FailureChanges DEF Blocked
    <2> HIDE DEF doomed
    <2>3. /\ {m \in Node : status'[m] = "completed"} = {m \in Node : status[m] = "completed"}
          /\ {m \in Node : status'[m] = "failed"} = {m \in Node : status[m] = "failed"} \cup {n}
          /\ {m \in Node : status'[m] = "blocked"} = {m \in Node : status[m] = "blocked"} \cup doomed
        BY <2>2 DEF ControlInv, TypeOK, Failed
    <2> QED BY <2>1, <2>3 DEF SummaryOf
<1>5. CASE EndLaunching \/ Finish \/ Unwind
    BY <1>5 DEF EndLaunching, Finish, Unwind, SummaryInv, SummaryOf
<1> QED BY OnlyRunSteps, <1>1, <1>2, <1>3, <1>4, <1>5 DEF RunStep

\* Between two iterations, and when the run returns, the summary and the
\* futures say of each node what its status says.
THEOREM SummaryIsTrue == Spec => []SummaryAgrees
<1>1. Init => SummaryInv
    BY DEF Init, SummaryInv, SummaryOf
<1>2. ControlInv /\ SummaryInv => SummaryAgrees
    BY DEF SummaryInv, SummaryOf, SummaryAgrees, ControlInv, FuturesRun
<1>3. ControlInv /\ SummaryInv /\ [Next]_vars => SummaryInv'
    BY NextSummary
<1> QED BY <1>1, <1>2, <1>3, InitControl, NextControl, PTL DEF Spec

-----------------------------------------------------------------------------
\* Before a node starts, it already has the records of all its dependencies
\* that wrote one so far; a dependency that completes later still finds it
\* pending, for nodes start after their dependencies.
ContextInv == /\ ContextComplete
              /\ main \notin {"unwind", "raised"} =>
                     \A n \in Node : status[n] = "pending" => contextIn[n] = deps[n] \cap recorded

LEMMA NextContext ==
    ASSUME ControlInv, ContextInv, [Next]_vars
    PROVE  ContextInv'
<1> USE DEF ContextInv, ContextComplete
<1>1. CASE UNCHANGED <<graphVars, runVars>>
    BY <1>1 DEF graphVars, runVars
<1>2. ASSUME NEW n \in Node, Launch(n) \/ LaunchRaises(n) PROVE ContextInv'
    <2>1. /\ UNCHANGED <<deps, contextIn, recorded>> /\ status[n] = "pending"
          /\ status' = [status EXCEPT ![n] = "running"] /\ main = "launch"
        BY <1>2 DEF Launch, LaunchRaises, Launchable, Runnable, graphVars
    <2> QED BY <2>1 DEF ControlInv, TypeOK
<1>3. ASSUME NEW n \in Node, HandleCompleted(n) PROVE ContextInv'
    <2>1. /\ status[n] = "running" /\ status' = [status EXCEPT ![n] = "completed"]
          /\ main = "wait" /\ main' \in {"launch", "unwind"} /\ deps' = deps
          /\ recorded' \in {recorded, recorded \cup {n}}
        BY <1>3 DEF HandleCompleted, Popped, graphVars, ControlInv, FuturesRun
    \* Who has started does not depend on n, which still ran.
    <2>2. \A m \in Node : status[m] \in {"running", "completed", "failed"} => n \notin deps[m]
        BY <2>1 DEF ControlInv, StartedInOrder
    <2>3. ASSUME NEW m \in Node, status'[m] \in {"running", "completed", "failed"}
          PROVE  contextIn'[m] = deps'[m] \cap recorded'
        <3>1. status[m] \in {"running", "completed", "failed"}
            BY <2>1, <2>3 DEF ControlInv, TypeOK
        <3>2. contextIn'[m] = contextIn[m]
            BY <1>3, <3>1 DEF HandleCompleted, ContextAfter
        <3> QED BY <2>1, <2>2, <3>1, <3>2
    <2>4. ASSUME main' = "launch", NEW m \in Node, status'[m] = "pending"
          PROVE  contextIn'[m] = deps'[m] \cap recorded'
        <3>1. status[m] = "pending" /\ contextIn[m] = deps[m] \cap recorded
            BY <2>1, <2>4 DEF ControlInv, TypeOK
        <3>2. CASE recorded' = recorded \cup {n} /\ contextIn' = [k \in Node |-> ContextAfter(k, n)]
            BY <2>1, <3>1, <3>2 DEF ContextAfter
        <3>3. CASE recorded' = recorded /\ contextIn' = contextIn
            BY <2>1, <3>1, <3>3
        <3> QED BY <1>3, <2>4, <3>2, <3>3 DEF HandleCompleted
    <2> QED BY <2>1, <2>3, <2>4
<1>4. ASSUME NEW n \in Node, HandleFailed(n) PROVE ContextInv'
    <2>1. /\ UNCHANGED <<deps, contextIn, recorded>> /\ main = "wait"
          /\ main' \in {"launch", "unwind"}
        BY <1>4 DEF HandleFailed, graphVars
    <2>2. ASSUME NEW m \in Node
          PROVE  /\ status'[m] \in {"running", "completed", "failed"} =>
                       status[m] \in {"running", "completed", "failed"}
                 /\ status'[m] = "pending" => status[m] = "pending"
        <3> DEFINE doomed == TransitiveDependents(deps, Failed(status, n), n)
        <3>1. /\ status[n] = "running"
              /\ \/ status' = Failed(status, n)
                 \/ status' = [k \in Node |-> IF k \in doomed THEN "blocked" ELSE Failed(status, n)[k]]
            BY <1>4, FailureChanges
        <3>2. Failed(status, n)[m] \in {"failed", status[m]} /\ (m # n => Failed(status, n)[m] = status[m])
            BY DEF Failed, ControlInv, TypeOK
        <3> HIDE DEF doomed
        <3> QED BY <3>1, <3>2
    <2> QED BY <2>1, <2>2
<1>5. CASE EndLaunching \/ Finish \/ Unwind
    BY <1>5 DEF EndLaunching, Finish, Unwind, graphVars
<1> QED BY OnlyRunSteps, <1>1, <1>2, <1>3, <1>4, <1>5 DEF RunStep

\* REQ-327: a node that was started was told the record of every dependency
\* that wrote one, in whatever order they completed.
THEOREM ContextIsComplete == Spec => []ContextComplete
<1>1. Init => ContextInv
    BY DEF Init, ContextInv, ContextComplete
<1>2. ControlInv /\ ContextInv /\ [Next]_vars => ContextInv'
    BY NextContext
<1>3. ContextInv => ContextComplete
    BY DEF ContextInv
<1> QED BY <1>1, <1>2, <1>3, InitControl, NextControl, PTL DEF Spec

-----------------------------------------------------------------------------
\* In an acyclic graph whose failures are propagated, a pending node is
\* runnable or waits, in the end, for a running one.
LEMMA NothingLeft ==
    ASSUME NEW g \in Graph, NEW st \in [Node -> TaskStatus], Acyclic(g), BlockedIfDoomed(g, st),
           Runnable(g, st) = {}, \A n \in Node : st[n] # "running"
    PROVE  AllTerminal(st)
<1> DEFINE P == {n \in Node : st[n] = "pending"}
<1>1. SUFFICES ASSUME P # {} PROVE FALSE
    BY DEF AllTerminal, Terminal, TaskStatus
<1>2. PICK n \in P : g[n] \cap P = {}
    BY <1>1 DEF Acyclic
<1>3. \A d \in g[n] : d \in Node /\ st[d] \in {"completed", "failed", "blocked"}
    BY <1>2 DEF Graph, TaskStatus
<1>4. \A d \in g[n] : st[d] \notin {"failed", "blocked"}
    BY <1>2 DEF BlockedIfDoomed
<1>5. n \in Runnable(g, st)
    BY <1>2, <1>3, <1>4 DEF Runnable
<1> QED BY <1>5

SettledInv ==
    /\ Acyclic(deps)
    /\ main \notin {"unwind", "raised"} => BlockedIfDoomed(deps, status)
    /\ main \in {"exit", "done"} => AllTerminal(status) /\ inFlight = {}
    /\ Over => ThreadsEnded

\* The loop is left with every node settled, although it is left as soon as no
\* future is in flight.
LEMMA RunStepSettles ==
    ASSUME ControlInv, SettledInv, RunStep
    PROVE  SettledInv'
<1>0. deps \in Graph /\ status \in [Node -> TaskStatus] /\ StartedInOrder(deps, status)
    BY DEF ControlInv, TypeOK
<1>1. ASSUME NEW n \in Node, Launch(n) \/ LaunchRaises(n) PROVE SettledInv'
    <2>1. /\ main = "launch" /\ main' \in {"launch", "unwind"} /\ deps' = deps
          /\ n \in Runnable(deps, status) /\ status' = [status EXCEPT ![n] = "running"]
        BY <1>1 DEF Launch, LaunchRaises, Launchable, graphVars
    <2>2. BlockedIfDoomed(deps', status')
        BY <1>0, <2>1, DoomIsKept DEF SettledInv
    <2> QED BY <2>1, <2>2 DEF SettledInv, Over
<1>2. ASSUME NEW n \in Node, HandleCompleted(n) PROVE SettledInv'
    <2>1. /\ main = "wait" /\ main' \in {"launch", "unwind"} /\ deps' = deps
          /\ status[n] = "running" /\ status' = [status EXCEPT ![n] = "completed"]
        BY <1>2 DEF HandleCompleted, Popped, graphVars, ControlInv, FuturesRun
    <2>2. BlockedIfDoomed(deps', status')
        BY <1>0, <2>1, DoomIsKept DEF SettledInv
    <2> QED BY <2>1, <2>2 DEF SettledInv, Over
<1>3. ASSUME NEW n \in Node, HandleFailed(n) PROVE SettledInv'
    <2>1. /\ main = "wait" /\ main' \in {"launch", "unwind"} /\ deps' = deps
          /\ status[n] = "running"
          /\ main' = "launch" => status' = Blocked(deps, Failed(status, n), n)
        BY <1>3 DEF HandleFailed, Popped, graphVars, ControlInv, FuturesRun
    <2>2. main' = "launch" => BlockedIfDoomed(deps', status')
        BY <1>0, <2>1, DoomIsKept DEF SettledInv
    <2> QED BY <2>1, <2>2 DEF SettledInv, Over
<1>4. CASE EndLaunching
    <2>1. /\ main = "launch" /\ UNCHANGED <<deps, status, inFlight>> /\ LaunchedAll
          /\ main' = IF AllTerminal(status) \/ inFlight = {} THEN "exit" ELSE "wait"
          /\ inFlight = {n \in Node : status[n] = "running"}
        BY <1>4 DEF EndLaunching, graphVars, ControlInv, FuturesRun
    <2>2. CASE AllTerminal(status)
        BY <2>1, <2>2 DEF AllTerminal, Terminal, SettledInv, Over
    <2>3. CASE inFlight = {}
        <3>1. Runnable(deps, status) = {}
            BY <2>1, <2>3, FS_EmptySet, MaxWorkersAssumption DEF LaunchedAll
        <3>2. AllTerminal(status)
            BY <1>0, <2>1, <2>3, <3>1, NothingLeft DEF SettledInv
        <3> QED BY <2>1, <2>3, <3>2 DEF SettledInv, Over
    <2>4. CASE ~AllTerminal(status) /\ inFlight # {}
        BY <2>1, <2>4 DEF SettledInv, Over
    <2> QED BY <2>2, <2>3, <2>4
<1>5. CASE Finish \/ Unwind
    <2>1. /\ UNCHANGED <<deps, status, inFlight, pc>> /\ ThreadsEnded
          /\ \/ main = "exit" /\ main' \in {"done", "raised"}
             \/ main = "unwind" /\ main' = "raised"
        BY <1>5 DEF Finish, Unwind, graphVars, nodeVars
    <2> QED BY <2>1 DEF SettledInv, Over, ThreadsEnded
<1> QED BY <1>1, <1>2, <1>3, <1>4, <1>5 DEF RunStep

LEMMA NextSettled ==
    ASSUME ControlInv, SettledInv, [Next]_vars
    PROVE  SettledInv'
<1>1. CASE RunStep
    BY <1>1, RunStepSettles
<1>2. CASE ~RunStep
    <2>1. UNCHANGED <<deps, status, main, inFlight>>
        BY <1>2, OnlyRunSteps DEF graphVars, runVars
    <2>2. ASSUME Over, ThreadsEnded PROVE pc' = pc
        <3>1. ASSUME NEW n \in Node, NodeStep(n) PROVE FALSE
            BY <2>2, <3>1 DEF ThreadsEnded, NodeStep, Arm, Check1, Preflight, Check2, Acquire, Spawn,
                              Check3, Poll, Check4, WriteRecord, ReleaseWorker
        <3>2. ASSUME NEW n \in Node, InvocationReturns(n) \/ AbortStep(n) PROVE pc' = pc
            BY <3>2 DEF InvocationReturns, AbortStep, AbortSignal, AbortMiss, AbortPrearm, nodeVars
        <3> QED BY <1>2, <3>1, <3>2 DEF Next, vars, nodeVars
    <2> QED BY <2>1, <2>2 DEF SettledInv, Over, ThreadsEnded
<1> QED BY <1>1, <1>2

\* A run that returned has settled every node, and however it ended no thread
\* is left and every worker is back in the pool.
THEOREM RunsEndSettled == Spec => []EndsSettled
<1>1. Init => SettledInv
    <2> SUFFICES ASSUME Init PROVE SettledInv
        OBVIOUS
    <2>1. BlockedIfDoomed(deps, status)
        BY DEF Init, BlockedIfDoomed, Graph
    <2> QED BY <2>1 DEF Init, SettledInv, Over
<1>2. ControlInv /\ SettledInv /\ [Next]_vars => SettledInv'
    BY NextSettled
<1>3. ControlInv /\ PoolInv /\ SettledInv => EndsSettled
    <2> SUFFICES ASSUME ControlInv, PoolInv, SettledInv PROVE EndsSettled
        OBVIOUS
    <2>1. Over => Holders = {}
        BY DEF SettledInv, ThreadsEnded, ControlInv, ThreadsHold, Held, Holders
    <2>2. Over => active = 0
        BY <2>1, FS_EmptySet DEF PoolInv, ActiveCountExact
    <2> QED BY <2>1, <2>2 DEF EndsSettled, DoneMeansSettled, AllReleased, SettledInv
<1> QED BY <1>1, <1>2, <1>3, InitControl, NextControl, PoolInvariant, PTL DEF Spec

-----------------------------------------------------------------------------
(* The workers of a role: idle, held or being constructed.                 *)

Served(r) == {n \in Node : role[n] = r /\ (holds[n] # NoWorker \/ pc[n] = "spawn")}

RoleInv == \A r \in Role : IsFiniteSet(idle[r]) /\ RoleWorkers(r) <= MaxWorkers

LEMMA ServedAreFew ==
    ASSUME ControlInv, NEW r \in Role
    PROVE  /\ Served(r) \subseteq inFlight /\ IsFiniteSet(Served(r))
           /\ Cardinality(Served(r)) \in Nat /\ Cardinality(Served(r)) <= MaxWorkers
<1>1. IsFiniteSet(inFlight) /\ Cardinality(inFlight) <= MaxWorkers
    BY NodeAssumption, FS_Subset DEF ControlInv, TypeOK, FuturesRun
<1>2. Served(r) \subseteq inFlight
    BY DEF Served, ControlInv, ThreadsHold, Held
<1>3. IsFiniteSet(Served(r)) /\ Cardinality(Served(r)) <= Cardinality(inFlight)
    BY <1>1, <1>2, FS_Subset
<1>4. Cardinality(Served(r)) \in Nat /\ Cardinality(inFlight) \in Nat
    BY <1>1, <1>3, FS_CardinalityType
<1> QED BY <1>1, <1>2, <1>3, <1>4, MaxWorkersAssumption

\* A worker that is constructed is the first of its role, one per future at
\* most; afterwards it only changes hands.
LEMMA AcquireRole ==
    ASSUME ControlInv, RoleInv, NEW n \in Node, Acquire(n)
    PROVE  RoleInv'
<1>1. pc[n] = "acquire" /\ holds[n] = NoWorker /\ role' = role /\ role[n] \in Role
    BY DEF Acquire, ControlInv, ThreadsHold, Held, TypeOK, graphVars
<1>2. CASE TurnedAway /\ TryAgain(n)
    <2>1. /\ idle' = idle /\ holds' = holds /\ \A m \in Node : pc'[m] = "spawn" <=> pc[m] = "spawn"
        BY <1>1, <1>2 DEF TurnedAway, TryAgain, GiveUp, Goto, poolVars, ControlInv, TypeOK
    <2> QED BY <1>1, <2>1 DEF RoleInv, RoleWorkers
<1>3. ASSUME NEW w \in idle[role[n]], TakeIdle(role[n], w),
             holds' = [holds EXCEPT ![n] = w], Goto(n, "check3")
      PROVE  RoleInv'
    <2>1. /\ w \in Worker /\ w # NoWorker /\ pc' = [pc EXCEPT ![n] = "check3"]
          /\ idle' = [idle EXCEPT ![role[n]] = @ \ {w}]
        BY <1>1, <1>3, DispatcherAssumption DEF ControlInv, TypeOK, PoolTypeOK, TakeIdle, Goto
    <2> SUFFICES ASSUME NEW r \in Role PROVE IsFiniteSet(idle'[r]) /\ RoleWorkers(r)' <= MaxWorkers
        BY DEF RoleInv
    <2>2. CASE r = role[n]
        <3>1. Served(r)' = Served(r) \cup {n} /\ n \notin Served(r)
            BY <1>1, <1>3, <2>1, <2>2 DEF Served, ControlInv, TypeOK
        <3>2. Cardinality(Served(r)') = Cardinality(Served(r)) + 1
            BY <3>1, ServedAreFew, FS_AddElement
        <3>3. idle'[r] = idle[r] \ {w} /\ w \in idle[r] /\ IsFiniteSet(idle[r])
            BY <1>3, <2>1, <2>2 DEF RoleInv, ControlInv, TypeOK, PoolTypeOK
        <3>4. IsFiniteSet(idle'[r]) /\ Cardinality(idle'[r]) = Cardinality(idle[r]) - 1
              /\ Cardinality(idle[r]) \in Nat
            BY <3>3, FS_RemoveElement, FS_CardinalityType
        <3> QED BY <3>2, <3>4, ServedAreFew, MaxWorkersAssumption DEF RoleInv, RoleWorkers, Served
    <2>3. CASE r # role[n]
        <3>1. Served(r)' = Served(r) /\ idle'[r] = idle[r]
            BY <1>1, <1>3, <2>1, <2>3 DEF Served, ControlInv, TypeOK, PoolTypeOK
        <3> QED BY <3>1 DEF RoleInv, RoleWorkers, Served
    <2> QED BY <2>2, <2>3
<1>4. CASE GoSpawn(role[n]) /\ Goto(n, "spawn") /\ UNCHANGED <<holds, tries>>
    <2>1. /\ idle[role[n]] = {} /\ idle' = idle /\ holds' = holds /\ pc' = [pc EXCEPT ![n] = "spawn"]
        BY <1>4 DEF GoSpawn, Goto, poolVars
    <2>2. ControlInv'
        BY NodeStepControl DEF NodeStep
    <2> SUFFICES ASSUME NEW r \in Role PROVE IsFiniteSet(idle'[r]) /\ RoleWorkers(r)' <= MaxWorkers
        BY DEF RoleInv
    <2>3. CASE r = role[n]
        <3>1. idle'[r] = {} /\ Cardinality({}) = 0 /\ IsFiniteSet({})
            BY <2>1, <2>3, FS_EmptySet
        <3>2. Cardinality(Served(r)') \in Nat /\ Cardinality(Served(r)') <= MaxWorkers
            <4>1. Served(r)' \subseteq inFlight'
                BY <2>2 DEF Served, ControlInv, ThreadsHold, Held
            <4>2. IsFiniteSet(inFlight') /\ Cardinality(inFlight') <= MaxWorkers
                BY <2>2, NodeAssumption, FS_Subset DEF ControlInv, TypeOK, FuturesRun
            <4>3. IsFiniteSet(Served(r)') /\ Cardinality(Served(r)') <= Cardinality(inFlight')
                BY <4>1, <4>2, FS_Subset
            <4>4. Cardinality(Served(r)') \in Nat /\ Cardinality(inFlight') \in Nat
                BY <4>2, <4>3, FS_CardinalityType
            <4> QED BY <4>2, <4>3, <4>4, MaxWorkersAssumption
        <3> QED BY <3>1, <3>2, MaxWorkersAssumption DEF RoleWorkers, Served
    <2>4. CASE r # role[n]
        <3>1. Served(r)' = Served(r) /\ idle'[r] = idle[r]
            BY <1>1, <2>1, <2>4 DEF Served, ControlInv, TypeOK, PoolTypeOK
        <3> QED BY <3>1 DEF RoleInv, RoleWorkers, Served
    <2> QED BY <2>3, <2>4
<1> QED BY <1>2, <1>3, <1>4 DEF Acquire

LEMMA SpawnRole ==
    ASSUME ControlInv, RoleInv, NEW n \in Node, Spawn(n)
    PROVE  RoleInv'
<1>1. pc[n] = "spawn" /\ holds[n] = NoWorker /\ role' = role /\ idle' = idle
    BY DEF Spawn, ControlInv, ThreadsHold, Held, graphVars, KeepSpawned, DiscardSpawned, poolVars
<1>2. /\ \A m \in Node \ {n} : holds'[m] = holds[m] /\ pc'[m] = pc[m]
    BY DEF Spawn, TryAgain, GiveUp, Goto, ControlInv, TypeOK
<1> SUFFICES ASSUME NEW r \in Role PROVE RoleWorkers(r)' <= MaxWorkers
    BY <1>1 DEF RoleInv
<1>3. n \in Served(r) <=> role[n] = r
    BY <1>1 DEF Served
<1>4. Served(r)' \subseteq Served(r)
    BY <1>1, <1>2, <1>3 DEF Served
<1>5. Cardinality(Served(r)') \in Nat /\ Cardinality(Served(r)') <= Cardinality(Served(r))
    BY <1>4, ServedAreFew, FS_Subset, FS_CardinalityType
<1>6. Cardinality(idle[r]) \in Nat
    BY FS_CardinalityType DEF RoleInv
<1>7. /\ RoleWorkers(r) = Cardinality(idle[r]) + Cardinality(Served(r))
      /\ RoleWorkers(r)' = Cardinality(idle[r]) + Cardinality(Served(r)')
    BY <1>1 DEF RoleWorkers, Served
<1>8. RoleWorkers(r) <= MaxWorkers /\ Cardinality(Served(r)) \in Nat
    BY ServedAreFew DEF RoleInv
<1> QED BY <1>5, <1>6, <1>7, <1>8, MaxWorkersAssumption

LEMMA ReleaseRole ==
    ASSUME ControlInv, PoolInv, RoleInv, NEW n \in Node, ReleaseWorker(n)
    PROVE  RoleInv'
<1>1. /\ pc[n] = "release" /\ holds[n] \in Worker /\ holds[n] # NoWorker /\ role[n] \in Role
      /\ role' = role /\ holds' = [holds EXCEPT ![n] = NoWorker]
      /\ pc' = [pc EXCEPT ![n] = "finished"]
      /\ idle' = [idle EXCEPT ![role[n]] = @ \cup {holds[n]}]
    BY DEF ReleaseWorker, Return, Goto, ControlInv, ThreadsHold, Held, TypeOK, graphVars
<1> SUFFICES ASSUME NEW r \in Role PROVE IsFiniteSet(idle'[r]) /\ RoleWorkers(r)' <= MaxWorkers
    BY DEF RoleInv
<1>2. CASE r = role[n]
    <2>1. Served(r)' = Served(r) \ {n} /\ n \in Served(r)
        BY <1>1, <1>2 DEF Served, ControlInv, TypeOK
    <2>2. Cardinality(Served(r)') = Cardinality(Served(r)) - 1
        BY <2>1, ServedAreFew, FS_RemoveElement
    <2>3. idle'[r] = idle[r] \cup {holds[n]} /\ holds[n] \notin idle[r] /\ IsFiniteSet(idle[r])
        BY <1>1, <1>2 DEF RoleInv, PoolInv, WorkerHeldOnce, ControlInv, TypeOK, PoolTypeOK
    <2>4. IsFiniteSet(idle'[r]) /\ Cardinality(idle'[r]) = Cardinality(idle[r]) + 1
          /\ Cardinality(idle[r]) \in Nat
        BY <2>3, FS_AddElement, FS_CardinalityType
    <2>5. /\ RoleWorkers(r) = Cardinality(idle[r]) + Cardinality(Served(r))
          /\ RoleWorkers(r)' = Cardinality(idle'[r]) + Cardinality(Served(r)')
        BY DEF RoleWorkers, Served
    <2>6. RoleWorkers(r) <= MaxWorkers /\ Cardinality(Served(r)) \in Nat
        BY ServedAreFew DEF RoleInv
    <2> QED BY <2>2, <2>4, <2>5, <2>6, MaxWorkersAssumption
<1>3. CASE r # role[n]
    <2>1. Served(r)' = Served(r) /\ idle'[r] = idle[r]
        BY <1>1, <1>3 DEF Served, ControlInv, TypeOK, PoolTypeOK
    <2> QED BY <2>1 DEF RoleInv, RoleWorkers, Served
<1> QED BY <1>2, <1>3

LEMMA NextRole ==
    ASSUME ControlInv, PoolInv, RoleInv, [Next]_vars
    PROVE  RoleInv'
<1>a. ASSUME UNCHANGED <<role, idle, holds>>,
             \A n \in Node : pc'[n] = "spawn" <=> pc[n] = "spawn"
      PROVE  RoleInv'
    <2>1. \A r \in Role : Served(r)' = Served(r)
        BY <1>a DEF Served
    <2> QED BY <1>a, <2>1 DEF RoleInv, RoleWorkers, Served
<1>1. CASE RunStep
    <2>1. UNCHANGED <<role, idle, holds>>
        BY <1>1 DEF RunStep, Launch, LaunchRaises, HandleCompleted, HandleFailed, EndLaunching,
                    Finish, Unwind, graphVars, nodeVars, poolVars
    <2>2. ASSUME NEW n \in Node, Launch(n)
          PROVE  \A m \in Node : pc'[m] = "spawn" <=> pc[m] = "spawn"
        <3>1. pc' = [pc EXCEPT ![n] = "queued"] /\ pc[n] = "idle"
            BY <2>2 DEF Launch, Launchable, Runnable, ControlInv, ThreadsHold
        <3> QED BY <3>1 DEF ControlInv, TypeOK
    <2>3. (\E n \in Node : Launch(n)) \/ pc' = pc
        BY <1>1 DEF RunStep, LaunchRaises, HandleCompleted, HandleFailed, EndLaunching,
                    Finish, Unwind, nodeVars
    <2> QED BY <1>a, <2>1, <2>2, <2>3
<1>2. ASSUME NEW n \in Node, NodeStep(n) PROVE RoleInv'
    <2>1. CASE Acquire(n)
        BY <2>1, AcquireRole
    <2>2. CASE Spawn(n)
        BY <2>2, SpawnRole
    <2>3. CASE ReleaseWorker(n)
        BY <2>3, ReleaseRole
    <2>4. CASE \/ Arm(n) \/ Check1(n) \/ Preflight(n) \/ Check2(n) \/ Check3(n) \/ Poll(n)
               \/ Check4(n) \/ WriteRecord(n)
        <3>1. /\ UNCHANGED <<role, idle, holds>> /\ pc[n] # "spawn" /\ pc' \in [Node -> PCs]
              /\ \A m \in Node \ {n} : pc'[m] = pc[m]
              /\ pc'[n] # "spawn"
            BY <2>4 DEF Arm, Check1, Preflight, Check2, Check3, Poll, Check4, WriteRecord, Check,
                        Goto, GiveUp, graphVars, poolVars, ControlInv, TypeOK, PCs, Before, Held
        <3>2. \A m \in Node : pc'[m] = "spawn" <=> pc[m] = "spawn"
            BY <3>1
        <3> QED BY <1>a, <3>1, <3>2
    <2> QED BY <1>2, <2>1, <2>2, <2>3, <2>4 DEF NodeStep
<1>3. ASSUME NEW n \in Node, InvocationReturns(n) \/ AbortStep(n) PROVE RoleInv'
    <2>1. UNCHANGED <<role, idle, holds, pc>>
        BY <1>3 DEF InvocationReturns, AbortStep, AbortSignal, AbortMiss, AbortPrearm, graphVars,
                    nodeVars, poolVars
    <2> QED BY <1>a, <2>1
<1>4. CASE UNCHANGED vars
    BY <1>a, <1>4 DEF vars, graphVars, nodeVars, poolVars
<1> QED BY <1>1, <1>2, <1>3, <1>4 DEF Next

\* REQ-326: reuse bounds the workers of a role by the size of the executor,
\* although construction happens outside the pool's lock.
THEOREM WorkersAreBounded == Spec => []WorkersBounded
<1>1. Init => RoleInv
    <2> SUFFICES ASSUME Init, NEW r \in Role PROVE IsFiniteSet(idle[r]) /\ RoleWorkers(r) <= MaxWorkers
        BY DEF RoleInv
    <2>1. idle[r] = {} /\ Served(r) = {}
        BY DEF Init, PoolInit, Served
    <2> QED BY <2>1, FS_EmptySet, MaxWorkersAssumption DEF RoleWorkers, Served
<1>2. ControlInv /\ PoolInv /\ RoleInv /\ [Next]_vars => RoleInv'
    BY NextRole
<1>3. RoleInv => WorkersBounded
    BY DEF RoleInv, WorkersBounded
<1> QED BY <1>1, <1>2, <1>3, PoolInvariant, PTL DEF Spec
=============================================================================
