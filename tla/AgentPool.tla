----------------------------- MODULE AgentPool -----------------------------
(***************************************************************************)
(* AgentPool of agent/dispatch/dispatcher.py: one list of idle workers per *)
(* role and a count of active ones, each method body under one lock.  The  *)
(* actions are the critical sections; Dispatcher.tla gives them the        *)
(* threads that run them.                                                  *)
(*                                                                         *)
(* idle[r] is a list in the code; which of its workers pop() returns is    *)
(* left open.  acquire() has two critical sections with the construction   *)
(* of a worker between them, outside the lock.                             *)
(***************************************************************************)
EXTENDS Naturals, FiniteSets

CONSTANTS Role,      \* keys of ROLE_TOOLS
          Worker,    \* identities of ConversableAgent instances
          PoolSize   \* max_workers of the pool

ASSUME PoolAssumption == PoolSize \in Nat

VARIABLES idle,      \* _idle: role -> idle workers
          active     \* _active_count

poolVars == <<idle, active>>

PoolTypeOK == /\ idle \in [Role -> SUBSET Worker]
              /\ active \in Nat

PoolInit == /\ idle = [r \in Role |-> {}]
            /\ active = 0

AtCapacity == active >= PoolSize

\* Faulty: idle workers are not looked for.
SpawnAnyway(r) == ~AtCapacity /\ UNCHANGED poolVars

\* First critical section of acquire, one operator per way out of it:
\* return None,
TurnedAway == AtCapacity /\ UNCHANGED poolVars

\* pop an idle worker of the role,
TakeIdle(r, w) == /\ ~AtCapacity
                  /\ w \in idle[r]
                  /\ idle' = [idle EXCEPT ![r] = @ \ {w}]
                  /\ active' = active + 1

\* or leave the lock to construct one.
GoSpawn(r) == /\ ~AtCapacity
              /\ idle[r] = {}
              /\ UNCHANGED poolVars

\* Second critical section: keep the new worker ...
KeepSpawned == /\ ~AtCapacity
               /\ active' = active + 1
               /\ UNCHANGED idle

\* ... or discard it, because others filled the pool meanwhile.
DiscardSpawned == AtCapacity /\ UNCHANGED poolVars

\* Faulty: the worker comes back but the count is not lowered.
ReturnUncounted(r, w) == /\ idle' = [idle EXCEPT ![r] = @ \cup {w}]
                         /\ UNCHANGED active

\* release(role, worker).
Return(r, w) == /\ idle' = [idle EXCEPT ![r] = @ \cup {w}]
                /\ active' = IF active > 0 THEN active - 1 ELSE 0
=============================================================================
