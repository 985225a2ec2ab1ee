-------------------------- MODULE DispatchService --------------------------
(***************************************************************************)
(* The run and retry handlers of serve.py, the registries of live runs     *)
(* that the event-stream and abort handlers look into, and the event file  *)
(* of each dag_id, across server restarts.                                 *)
(*                                                                         *)
(* One node is followed.  Its first run has dag_id 0; retrying dag_id k    *)
(* runs it under dag_id k + 1 ("<dag_id>-retry-<node_id>"), and the client *)
(* may retry that one in turn.  Every request has a thread of its own; the *)
(* registries are plain dicts.  Dispatcher.tla is what happens inside a    *)
(* run, DispatchEvents.tla what a client of one run sees.                  *)
(***************************************************************************)
EXTENDS Naturals

CONSTANTS Run,         \* AgentDispatcher instances, each with its emitter
          Request,     \* retry requests
          MaxDepth,    \* bound on retries of retries
          NoRun

ASSUME ServiceAssumption == MaxDepth \in Nat /\ NoRun \notin Run

DagId == 0..MaxDepth

VARIABLES
    phase,        \* per run; "ended" once run() was left, "unlisted" without its emitter
    key,          \* per run: its dag_id
    last,         \* per dag_id: the last event of the node in events.jsonl
    emitters,     \* _dispatch_emitters
    dispatchers,  \* _dispatch_instances
    request,      \* per request: unsent, let through, or answered
    target,       \* per request: the dag_id it retries
    repeated      \* the node was started after it had completed under some dag_id

vars == <<phase, key, last, emitters, dispatchers, request, target, repeated>>

Phases == {"unused", "ready", "running", "ended", "unlisted", "over"}

TypeOK == /\ phase \in [Run -> Phases]
          /\ key \in [Run -> DagId]
          /\ last \in [DagId -> {"none", "started", "completed", "failed"}]
          /\ emitters \in [DagId -> Run \cup {NoRun}]
          /\ dispatchers \in [DagId -> Run \cup {NoRun}]
          /\ request \in [Request -> {"unsent", "through", "answered"}]
          /\ target \in [Request -> DagId]
          /\ repeated \in BOOLEAN

Init == /\ phase = [i \in Run |-> "unused"]
        /\ key = [i \in Run |-> 0]
        /\ last = [d \in DagId |-> "none"]
        /\ emitters = [d \in DagId |-> NoRun]
        /\ dispatchers = [d \in DagId |-> NoRun]
        /\ request = [q \in Request |-> "unsent"]
        /\ target = [q \in Request |-> 0]
        /\ repeated = FALSE

Live(i) == phase[i] \notin {"unused", "over"}

-----------------------------------------------------------------------------
\* _dispatch_run, once: a fresh dag_id, both registries, a thread.
RunRequest(i) ==
    /\ phase[i] = "unused"
    /\ \A j \in Run : phase[j] # "unused" => key[j] # 0
    /\ phase' = [phase EXCEPT ![i] = "ready"]
    /\ key' = [key EXCEPT ![i] = 0]
    /\ emitters' = [emitters EXCEPT ![0] = i]
    /\ dispatchers' = [dispatchers EXCEPT ![0] = i]
    /\ UNCHANGED <<last, request, target, repeated>>

\* _dispatch_retry replays the events of dag_id d and refuses a node whose
\* last event there is node_completed ...
RetryCheck(q, d) ==
    /\ request[q] = "unsent"
    /\ d < MaxDepth
    /\ request' = [request EXCEPT ![q] = IF last[d] = "completed" THEN "answered" ELSE "through"]
    /\ target' = [target EXCEPT ![q] = d]
    /\ UNCHANGED <<phase, key, last, emitters, dispatchers, repeated>>

\* Faulty: the retry is registered under the dag_id it retries.
RetryInPlace(q, i) ==
    /\ request[q] = "through"
    /\ phase[i] = "unused"
    /\ phase' = [phase EXCEPT ![i] = "ready"]
    /\ key' = [key EXCEPT ![i] = target[q]]
    /\ emitters' = [emitters EXCEPT ![target[q]] = i]
    /\ request' = [request EXCEPT ![q] = "answered"]
    /\ UNCHANGED <<last, dispatchers, target, repeated>>

\* ... then starts a run under the dag_id derived from d.
RetryStart(q, i) ==
    /\ request[q] = "through"
    /\ phase[i] = "unused"
    /\ phase' = [phase EXCEPT ![i] = "ready"]
    /\ key' = [key EXCEPT ![i] = target[q] + 1]
    /\ emitters' = [emitters EXCEPT ![target[q] + 1] = i]
    /\ request' = [request EXCEPT ![q] = "answered"]
    /\ UNCHANGED <<last, dispatchers, target, repeated>>

\* The run's node starts, and ends; its events go to the file of its dag_id.
NodeStarts(i) ==
    /\ phase[i] = "ready"
    /\ phase' = [phase EXCEPT ![i] = "running"]
    /\ repeated' = (repeated \/ \E d \in DagId : last[d] = "completed")
    /\ last' = [last EXCEPT ![key[i]] = "started"]
    /\ UNCHANGED <<key, emitters, dispatchers, request, target>>

NodeEnds(i) ==
    /\ phase[i] = "running"
    /\ phase' = [phase EXCEPT ![i] = "ended"]
    /\ \E event \in {"completed", "failed"} : last' = [last EXCEPT ![key[i]] = event]
    /\ UNCHANGED <<key, emitters, dispatchers, request, target, repeated>>

\* Emitting the node's event raises: run() is left without it.
NodeRaises(i) ==
    /\ phase[i] \in {"ready", "running"}
    /\ phase' = [phase EXCEPT ![i] = "ended"]
    /\ UNCHANGED <<key, last, emitters, dispatchers, request, target, repeated>>

\* Faulty: only a run that returned is taken off the registry.
PopOnSuccess(i) ==
    /\ phase[i] = "ended"
    /\ phase' = [phase EXCEPT ![i] = "unlisted"]
    /\ emitters' = IF last[key[i]] = "started" THEN emitters ELSE [emitters EXCEPT ![key[i]] = NoRun]
    /\ UNCHANGED <<key, last, dispatchers, request, target, repeated>>

\* The finally clause of _bg: pop by dag_id, the emitter first, then (for the
\* first run) the dispatcher.
PopEmitter(i) ==
    /\ phase[i] = "ended"
    /\ phase' = [phase EXCEPT ![i] = "unlisted"]
    /\ emitters' = [emitters EXCEPT ![key[i]] = NoRun]
    /\ UNCHANGED <<key, last, dispatchers, request, target, repeated>>

PopDispatcher(i) ==
    /\ phase[i] = "unlisted"
    /\ phase' = [phase EXCEPT ![i] = "over"]
    /\ dispatchers' = IF key[i] = 0 THEN [dispatchers EXCEPT ![0] = NoRun] ELSE dispatchers
    /\ UNCHANGED <<key, last, emitters, request, target, repeated>>

\* The server stops and is started again: only the files remain.
Restart ==
    /\ \E i \in Run : Live(i)
    /\ phase' = [i \in Run |-> IF Live(i) THEN "over" ELSE phase[i]]
    /\ emitters' = [d \in DagId |-> NoRun]
    /\ dispatchers' = [d \in DagId |-> NoRun]
    /\ request' = [q \in Request |-> IF request[q] = "through" THEN "answered" ELSE request[q]]
    /\ UNCHANGED <<key, last, target, repeated>>

RunStep(i) == \/ NodeStarts(i) \/ NodeEnds(i) \/ NodeRaises(i)
              \/ PopEmitter(i) \/ PopDispatcher(i)

Next == \/ \E i \in Run : RunRequest(i) \/ RunStep(i)
        \/ \E q \in Request : (\E d \in DagId : RetryCheck(q, d)) \/ (\E i \in Run : RetryStart(q, i))
        \/ Restart

Spec == Init /\ [][Next]_vars

-----------------------------------------------------------------------------
\* A registry never lists a run that is over, however runs that share a
\* dag_id interleave: looking one up gives a run whose thread still exists.
NoDeadEntries ==
    \A d \in DagId :
        /\ emitters[d] # NoRun => key[emitters[d]] = d /\ phase[emitters[d]] \in {"ready", "running", "ended"}
        /\ dispatchers[d] # NoRun => key[dispatchers[d]] = d /\ Live(dispatchers[d])

\* Retries, also of retries, never make the first run unreachable: while its
\* node runs, clients can follow and abort it.
FirstRunReachable ==
    \A i \in Run : phase[i] \in {"ready", "running"} /\ key[i] = 0 =>
        emitters[0] = i /\ dispatchers[0] = i

\* The registries tell which runs there are.
RegistriesTell == NoDeadEntries /\ FirstRunReachable

\* REQ-330: a COMPLETED node is not executed again.  The code does not keep
\* this: a second retry does not see the first one's log.
CompletedNotRepeated == ~repeated
=============================================================================
