----------------------------- MODULE Dispatcher -----------------------------
(***************************************************************************)
(* AgentDispatcher of agent/dispatch/dispatcher.py: the thread that runs   *)
(* run(), one executor thread per submitted node in _run_node, one daemon  *)
(* thread per LLM invocation, and the HTTP threads that call abort_node.   *)
(*                                                                         *)
(* Only run() writes the node statuses, the futures and the summary, so    *)
(* one iteration of its loops is one action.  The executor threads share   *)
(* the pool and the abort events, so _run_node is cut at each of their     *)
(* uses.  The order in which run() visits runnable nodes and futures is    *)
(* left open.                                                              *)
(***************************************************************************)
EXTENDS DispatchLimit, AgentPool

CONSTANTS MaxTries,     \* attempts of _acquire_worker (300 in the code)
          Abortable,    \* nodes somebody may call abort_node for
          DiskMayFail,  \* whether emit() may raise while appending the event
          NoWorker

ASSUME DispatcherAssumption ==
    /\ MaxTries \in Nat \ {0}
    /\ Abortable \subseteq Node
    /\ DiskMayFail \in BOOLEAN
    /\ NoWorker \notin Worker

VARIABLES
    deps, role,          \* the planner's graph; constant during the run
    status,              \* TaskNode.status
    contextIn,           \* TaskNode.context_in: predecessors whose record it names
    recorded,            \* nodes whose context_out is a record id
    main,                \* where run() is
    inFlight,            \* keys of the futures dict
    summary,             \* DispatchSummary
    pc, result,          \* per node: where _run_node is, and the DispatchResult
    holds, tries,        \* its local worker and its failed attempts to acquire one
    invoking,            \* the worker the node's invocation thread is using
    entry,               \* _abort_flags[n]: absent, the runner's event, a pre-set one
    polled,              \* the event _run_node took from _abort_flags
    signalled,           \* nodes whose runner event is set
    missed               \* abort_node calls that found no event and will pre-arm one

graphVars == <<deps, role>>
runVars   == <<status, contextIn, recorded, main, inFlight, summary>>
abortVars == <<entry, signalled, missed>>
nodeVars  == <<pc, result, holds, tries, invoking, polled>>
vars == <<graphVars, runVars, nodeVars, abortVars, poolVars>>

Before == {"idle", "queued", "check1", "preflight", "check2", "acquire", "spawn"}
Held   == {"check3", "invoke", "check4", "write", "release"}
PCs    == Before \cup Held \cup {"finished"}

TypeOK ==
    /\ PoolTypeOK
    /\ deps \in Graph
    /\ role \in [Node -> Role]
    /\ status \in [Node -> TaskStatus]
    /\ contextIn \in [Node -> SUBSET Node]
    /\ recorded \subseteq Node
    /\ main \in {"launch", "wait", "exit", "unwind", "done", "raised"}
    /\ inFlight \subseteq Node
    /\ summary \in [completed : SUBSET Node, failed : SUBSET Node, blocked : SUBSET Node]
    /\ pc \in [Node -> PCs]
    /\ result \in [Node -> {"none", "failed", "recorded", "unrecorded"}]
    /\ holds \in [Node -> Worker \cup {NoWorker}]
    /\ tries \in [Node -> 0..MaxTries]
    /\ invoking \in [Node -> Worker \cup {NoWorker}]
    /\ entry \in [Node -> {"absent", "runner", "preset"}]
    /\ polled \in [Node -> {"absent", "runner", "preset"}]
    /\ signalled \subseteq Node
    /\ missed \subseteq Abortable

Init ==
    /\ PoolInit
    /\ deps \in {g \in Graph : Acyclic(g)}
    /\ role \in [Node -> Role]
    /\ status = [n \in Node |-> "pending"]
    /\ contextIn = [n \in Node |-> {}]
    /\ recorded = {}
    /\ main = "launch"
    /\ inFlight = {}
    /\ summary = [completed |-> {}, failed |-> {}, blocked |-> {}]
    /\ pc = [n \in Node |-> "idle"]
    /\ result = [n \in Node |-> "none"]
    /\ holds = [n \in Node |-> NoWorker]
    /\ tries = [n \in Node |-> 0]
    /\ invoking = [n \in Node |-> NoWorker]
    /\ entry = [n \in Node |-> "absent"]
    /\ polled = [n \in Node |-> "absent"]
    /\ signalled = {}
    /\ missed = {}

-----------------------------------------------------------------------------
(* run(): the loop of the dispatching thread.                              *)

\* Faulty: the futures are not counted.
LaunchableAnyway(n) == /\ main = "launch"
                       /\ n \in Runnable(deps, status)
                       /\ status' = [status EXCEPT ![n] = "running"]

Launchable(n) == /\ main = "launch"
                 /\ n \in Runnable(deps, status)
                 /\ Cardinality(inFlight) < MaxWorkers
                 /\ status' = [status EXCEPT ![n] = "running"]

Launch(n) == /\ Launchable(n)
             /\ inFlight' = inFlight \cup {n}
             /\ pc' = [pc EXCEPT ![n] = "queued"]
             /\ UNCHANGED <<graphVars, contextIn, recorded, main, summary, result, holds,
                            tries, invoking, polled, abortVars, poolVars>>

\* node_started raises: the node is RUNNING and was never submitted.
LaunchRaises(n) == /\ DiskMayFail
                   /\ Launchable(n)
                   /\ main' = "unwind"
                   /\ UNCHANGED <<graphVars, contextIn, recorded, inFlight, summary,
                                  nodeVars, abortVars, poolVars>>

LaunchedAll == Runnable(deps, status) = {} \/ Cardinality(inFlight) >= MaxWorkers

\* Nothing more to launch: wait for a future, or leave the loop when every
\* node is terminal or nothing is in flight.
EndLaunching == /\ main = "launch"
                /\ LaunchedAll
                /\ main' = IF AllTerminal(status) \/ inFlight = {} THEN "exit" ELSE "wait"
                /\ UNCHANGED <<graphVars, status, contextIn, recorded, inFlight, summary,
                               nodeVars, abortVars, poolVars>>

\* Faulty: the new record id replaces the earlier ones.
LatestContext(n, done) ==
    IF done \in deps[n] /\ status[n] = "pending" THEN {done} ELSE contextIn[n]

\* _propagate_context: the record id goes to the PENDING successors.
ContextAfter(n, done) ==
    IF done \in deps[n] /\ status[n] = "pending" THEN contextIn[n] \cup {done} ELSE contextIn[n]

\* Faulty: the future is read and stays in the dict.
NotPopped(n) == n \in inFlight /\ UNCHANGED inFlight

\* futures.pop(done).
Popped(n) == n \in inFlight /\ inFlight' = inFlight \ {n}

HandleCompleted(n) ==
    /\ main = "wait"
    /\ Popped(n) /\ pc[n] = "finished"
    /\ result[n] \in {"recorded", "unrecorded"}
    /\ status' = [status EXCEPT ![n] = "completed"]
    /\ recorded' = IF result[n] = "recorded" THEN recorded \cup {n} ELSE recorded
    /\ \/ /\ main' = "launch"
          /\ summary' = [summary EXCEPT !.completed = @ \cup {n}]
          /\ contextIn' = IF result[n] = "recorded"
                          THEN [m \in Node |-> ContextAfter(m, n)] ELSE contextIn
       \/ /\ DiskMayFail             \* node_completed raises
          /\ main' = "unwind"
          /\ UNCHANGED <<summary, contextIn>>
    /\ UNCHANGED <<graphVars, nodeVars, abortVars, poolVars>>

HandleFailed(n) ==
    /\ main = "wait"
    /\ Popped(n) /\ pc[n] = "finished"
    /\ result[n] = "failed"
    /\ LET failed == Failed(status, n)
           doomed == TransitiveDependents(deps, failed, n)
       IN \/ /\ main' = "launch"
             /\ status' = Blocked(deps, failed, n)
             /\ summary' = [summary EXCEPT !.failed = @ \cup {n}, !.blocked = @ \cup doomed]
          \/ /\ DiskMayFail          \* node_failed raises
             /\ main' = "unwind"
             /\ status' = failed
             /\ UNCHANGED summary
          \/ /\ DiskMayFail          \* node_blocked raises, some already in the summary
             /\ main' = "unwind"
             /\ status' = Blocked(deps, failed, n)
             /\ \E told \in SUBSET doomed :
                   /\ told # doomed
                   /\ summary' = [summary EXCEPT !.failed = @ \cup {n}, !.blocked = @ \cup told]
    /\ UNCHANGED <<graphVars, contextIn, recorded, nodeVars, abortVars, poolVars>>

\* Leaving the executor's with-block waits for its threads.
ThreadsEnded == \A n \in Node : pc[n] \in {"idle", "finished"}

\* dag_done, the ledger entry (best effort) and the return of the summary.
Finish == /\ main = "exit"
          /\ ThreadsEnded
          /\ main' \in IF DiskMayFail THEN {"done", "raised"} ELSE {"done"}
          /\ UNCHANGED <<graphVars, status, contextIn, recorded, inFlight, summary,
                         nodeVars, abortVars, poolVars>>

Unwind == /\ main = "unwind"
          /\ ThreadsEnded
          /\ main' = "raised"
          /\ UNCHANGED <<graphVars, status, contextIn, recorded, inFlight, summary,
                         nodeVars, abortVars, poolVars>>

-----------------------------------------------------------------------------
(* _run_node: the executor thread of node n.                               *)

\* The event _run_node polls is set.
Aborted(n) == \/ polled[n] = "preset"
              \/ polled[n] = "runner" /\ n \in signalled

Goto(n, place) == pc' = [pc EXCEPT ![n] = place] /\ UNCHANGED result

\* An exception: FAILED, and the finally clause if a worker is held.
GiveUp(n) == /\ pc' = [pc EXCEPT ![n] = IF holds[n] = NoWorker THEN "finished" ELSE "release"]
             /\ result' = [result EXCEPT ![n] = "failed"]

\* An abort check: leave for good, or go on to the next place.
Check(n, next) == IF Aborted(n) THEN GiveUp(n) ELSE Goto(n, next)

\* setdefault(node.id, Event()).
Arm(n) == /\ pc[n] = "queued"
          /\ entry' = IF entry[n] = "absent" THEN [entry EXCEPT ![n] = "runner"] ELSE entry
          /\ polled' = [polled EXCEPT ![n] = entry'[n]]
          /\ Goto(n, "check1")
          /\ UNCHANGED <<graphVars, runVars, holds, tries, invoking, signalled, missed, poolVars>>

Check1(n) == /\ pc[n] = "check1"
             /\ Check(n, "preflight")
             /\ UNCHANGED <<graphVars, runVars, holds, tries, invoking, polled, abortVars, poolVars>>

\* Governance accepts (an error counts as accepted) or blocks the node.
Preflight(n) == /\ pc[n] = "preflight"
                /\ Goto(n, "check2") \/ GiveUp(n)
                /\ UNCHANGED <<graphVars, runVars, holds, tries, invoking, polled, abortVars, poolVars>>

Check2(n) == /\ pc[n] = "check2"
             /\ Check(n, "acquire")
             /\ UNCHANGED <<graphVars, runVars, holds, tries, invoking, polled, abortVars, poolVars>>

\* _acquire_worker got None: sleep and try again, or time out.
TryAgain(n) == /\ tries' = [tries EXCEPT ![n] = @ + 1]
               /\ IF tries'[n] = MaxTries THEN GiveUp(n) ELSE Goto(n, "acquire")
               /\ UNCHANGED holds

Acquire(n) ==
    /\ pc[n] = "acquire"
    /\ \/ TurnedAway /\ TryAgain(n)
       \/ \E w \in idle[role[n]] :
             /\ TakeIdle(role[n], w)
             /\ holds' = [holds EXCEPT ![n] = w]
             /\ Goto(n, "check3") /\ UNCHANGED tries
       \/ /\ GoSpawn(role[n])
          /\ Goto(n, "spawn") /\ UNCHANGED <<holds, tries>>
    /\ UNCHANGED <<graphVars, runVars, invoking, polled, abortVars>>

\* Workers that exist: idle or held.  Any other identity is a new object.
InUse == (UNION {idle[r] : r \in Role}) \cup {holds[n] : n \in Node}

Spawn(n) ==
    /\ pc[n] = "spawn"
    /\ \/ \E w \in Worker \ InUse :
             /\ KeepSpawned
             /\ holds' = [holds EXCEPT ![n] = w]
             /\ Goto(n, "check3") /\ UNCHANGED tries
       \/ DiscardSpawned /\ TryAgain(n)
       \/ /\ GiveUp(n)               \* the spawner raises
          /\ UNCHANGED <<holds, tries, poolVars>>
    /\ UNCHANGED <<graphVars, runVars, invoking, polled, abortVars>>

\* Check 3, the context prompt (ESDB reads are best effort) and the start of
\* the invocation thread.
Check3(n) == /\ pc[n] = "check3"
             /\ Check(n, "invoke")
             /\ invoking' = IF Aborted(n) THEN invoking ELSE [invoking EXCEPT ![n] = holds[n]]
             /\ UNCHANGED <<graphVars, runVars, holds, tries, polled, abortVars, poolVars>>

\* The invocation thread ends, with an answer or an error; both count as a
\* result.  Nobody may be waiting for it any more.
InvocationReturns(n) ==
    /\ invoking[n] # NoWorker
    /\ invoking' = [invoking EXCEPT ![n] = NoWorker]
    /\ UNCHANGED <<graphVars, runVars, pc, result, holds, tries, polled, abortVars, poolVars>>

\* Faulty: the loop waits for the LLM call without looking at the event.
PollBlindly(n) ==
    /\ pc[n] = "invoke"
    /\ invoking[n] = NoWorker
    /\ Goto(n, "check4")
    /\ UNCHANGED <<graphVars, runVars, holds, tries, invoking, polled, abortVars, poolVars>>

\* The poll loop of _invoke_worker_monitored.
Poll(n) == /\ pc[n] = "invoke"
           /\ \/ invoking[n] = NoWorker /\ Goto(n, "check4")
              \/ invoking[n] # NoWorker /\ Aborted(n) /\ GiveUp(n)
           /\ UNCHANGED <<graphVars, runVars, holds, tries, invoking, polled, abortVars, poolVars>>

Check4(n) == /\ pc[n] = "check4"
             /\ Check(n, "write")
             /\ UNCHANGED <<graphVars, runVars, holds, tries, invoking, polled, abortVars, poolVars>>

\* _write_esdb_record returns an id, or None after an error.
WriteRecord(n) ==
    /\ pc[n] = "write"
    /\ pc' = [pc EXCEPT ![n] = "release"]
    /\ \E res \in {"recorded", "unrecorded"} : result' = [result EXCEPT ![n] = res]
    /\ UNCHANGED <<graphVars, runVars, holds, tries, invoking, polled, abortVars, poolVars>>

\* Faulty: the worker is only put back after a success.
LeakOnFailure(n) ==
    /\ pc[n] = "release"
    /\ IF result[n] = "failed" THEN UNCHANGED poolVars ELSE Return(role[n], holds[n])
    /\ holds' = [holds EXCEPT ![n] = NoWorker]
    /\ Goto(n, "finished")
    /\ UNCHANGED <<graphVars, runVars, tries, invoking, polled, abortVars>>

ReleaseWorker(n) ==
    /\ pc[n] = "release"
    /\ Return(role[n], holds[n])
    /\ holds' = [holds EXCEPT ![n] = NoWorker]
    /\ Goto(n, "finished")
    /\ UNCHANGED <<graphVars, runVars, tries, invoking, polled, abortVars>>

-----------------------------------------------------------------------------
(* abort_node(n), called from an HTTP thread while the run is registered.  *)

Registered == main \notin {"done", "raised"}

\* get() returns an event: set it and return True.
AbortSignal(n) ==
    /\ Registered
    /\ n \in Abortable \ missed
    /\ entry[n] # "absent"
    /\ signalled' = IF entry[n] = "runner" THEN signalled \cup {n} ELSE signalled
    /\ UNCHANGED <<graphVars, runVars, nodeVars, entry, missed, poolVars>>

\* get() returns None ...
AbortMiss(n) ==
    /\ Registered
    /\ n \in Abortable \ missed
    /\ entry[n] = "absent"
    /\ missed' = missed \cup {n}
    /\ UNCHANGED <<graphVars, runVars, nodeVars, entry, signalled, poolVars>>

\* ... and the call stores a pre-set event and returns True, whatever
\* _run_node has done in between.
AbortPrearm(n) ==
    /\ n \in missed
    /\ missed' = missed \ {n}
    /\ entry' = [entry EXCEPT ![n] = "preset"]
    /\ UNCHANGED <<graphVars, runVars, nodeVars, signalled, poolVars>>

-----------------------------------------------------------------------------
RunStep == \/ \E n \in Node : Launch(n) \/ LaunchRaises(n) \/ HandleCompleted(n) \/ HandleFailed(n)
           \/ EndLaunching \/ Finish \/ Unwind

NodeStep(n) == \/ Arm(n) \/ Check1(n) \/ Preflight(n) \/ Check2(n) \/ Acquire(n) \/ Spawn(n)
               \/ Check3(n) \/ Poll(n) \/ Check4(n) \/ WriteRecord(n) \/ ReleaseWorker(n)

AbortStep(n) == AbortSignal(n) \/ AbortMiss(n) \/ AbortPrearm(n)

Next == \/ RunStep
        \/ \E n \in Node : NodeStep(n) \/ InvocationReturns(n) \/ AbortStep(n)

Spec == Init /\ [][Next]_vars

\* run() and the executor threads are scheduled; an LLM call need never
\* return and nobody need call abort_node.
Fairness == WF_vars(RunStep) /\ \A n \in Node : WF_vars(NodeStep(n))

FairSpec == Spec /\ Fairness

-----------------------------------------------------------------------------
(* Properties.                                                             *)

\* AbortSignal is enabled for ever: a run has stopped when it is over and no
\* thread has anything left to do.
Over == main \in {"done", "raised"}

\* No two nodes are given the same worker, a held worker is not in an idle
\* list, and no worker is idle under two roles.
WorkerHeldOnce ==
    /\ \A m, n \in Node : m # n /\ holds[m] # NoWorker => holds[m] # holds[n]
    /\ \A n \in Node : \A r \in Role : holds[n] \notin idle[r]
    /\ \A r, s \in Role : r # s => idle[r] \cap idle[s] = {}

\* The pool's count is the number of nodes that hold a worker, on every path
\* out of _run_node (REQ-326: the pool tracks active workers).
Holders == {n \in Node : holds[n] # NoWorker}

ActiveCountExact == active = Cardinality(Holders)

\* REQ-326: workers are reused rather than spawned without bound.  Idle, held
\* and being constructed, a role never has more than MaxWorkers.
RoleWorkers(r) == Cardinality(idle[r])
                  + Cardinality({n \in Node : role[n] = r /\ (holds[n] # NoWorker \/ pc[n] = "spawn")})

WorkersBounded == \A r \in Role : RoleWorkers(r) <= MaxWorkers

\* When the pool is as large as the executor, as every caller makes it, no
\* node is ever turned away: the retries and the time-out cannot happen.
NeverTurnedAway == PoolSize >= MaxWorkers => \A n \in Node : tries[n] = 0

\* A node that was started has the record id of exactly those dependencies
\* that wrote one (REQ-327), whichever finished first.
ContextComplete ==
    \A n \in Node : status[n] \in {"running", "completed", "failed"} =>
        contextIn[n] = deps[n] \cap recorded

\* Between two iterations of the loop, the summary lists each node once,
\* under its status, and the futures dict holds the running nodes.
SummaryAgrees ==
    main \in {"launch", "wait", "exit", "done"} =>
        /\ summary.completed = {n \in Node : status[n] = "completed"}
        /\ summary.failed = {n \in Node : status[n] = "failed"}
        /\ summary.blocked = {n \in Node : status[n] = "blocked"}
        /\ inFlight = {n \in Node : status[n] = "running"}

\* The run returns only when every node of the graph has an outcome and no
\* executor thread is left.
DoneMeansSettled == main = "done" => AllTerminal(status) /\ inFlight = {}

\* However the run ends, every worker has been given back to the pool.
AllReleased == Over => active = 0 /\ Holders = {}

\* A run never ends with work left: run() joins its threads and returns what
\* became of every node, whatever was aborted, raised or timed out before.
EndsSettled == DoneMeansSettled /\ AllReleased

\* The dispatcher implements the schedule its callers are promised.
Schedule == INSTANCE DispatchSchedule WITH halted <- main \in {"unwind", "raised"}

ImplementsSchedule == Schedule!Spec

\* If every LLM call returns or is aborted, the run ends.
RunEnds == (\A n \in Node : []<>(pc[n] # "invoke")) => <>Over

\* Places from which an abort can still stop the node.
Abortables == {"queued", "check1", "preflight", "check2", "acquire", "spawn",
               "check3", "invoke", "check4"}

\* An abort that reaches the event _run_node polls before the last check ends
\* the node as FAILED, even if its LLM call never returns.
SeenAbortFails ==
    \A n \in Node : (pc[n] \in Abortables /\ Aborted(n)) ~> (status[n] = "failed" \/ main = "raised")

\* What abort_node promises when it returns True: the node ends FAILED, or
\* BLOCKED by a dependency.  The code does not keep this: the event may be
\* replaced under it.
AcceptedAbortFails ==
    \A n \in Node : (pc[n] \in Abortables \cup {"idle"} /\ entry[n] = "preset") ~>
                        (status[n] \in {"failed", "blocked"} \/ main = "raised")
=============================================================================
