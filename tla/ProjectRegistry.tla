-------------------------- MODULE ProjectRegistry ---------------------------
(***************************************************************************)
(* The registry of projects of mcp_server.py, a file in the user's home    *)
(* that every `specsmith` process may change: each change holds            *)
(* _registry_mutation_lock, a second file that is created exclusively and  *)
(* that others may remove when it is over a minute old.                    *)
(*                                                                         *)
(* A Proc is a thread that has its process's own lock.  The list is a set; *)
(* its file is replaced at once, from a temporary file of one's own.       *)
(***************************************************************************)
EXTENDS Naturals

CONSTANTS Proc, Project,
          Transient,     \* paths that an earlier version let in (_is_temp_path)
          MaxChanges     \* bound on the changes begun

Nobody == "nobody"

ASSUME RegistryAssumption == /\ Transient \subseteq Project
                            /\ MaxChanges \in Nat
                            /\ Nobody \notin Proc

VARIABLES
    registry,    \* mcp-projects.json
    present,     \* projects whose directory exists
    lock,        \* the lock file: who made it, and whether it is old
    doing,       \* where each process is
    changes,     \* changes begun
    expected,    \* history: the registry if each change had been made at once
    contested    \* history: two reclaimed at once, or one a lock that was in use

vars == <<registry, present, lock, doing, changes, expected, contested>>

NoLock == [by |-> Nobody, old |-> FALSE]
Idle == [at |-> "idle"]

Init == /\ present = Project \ Transient
        /\ registry \in SUBSET Project
        /\ lock = NoLock
        /\ doing = [p \in Proc |-> Idle]
        /\ changes = 0
        /\ expected = registry
        /\ contested = FALSE

-----------------------------------------------------------------------------
(* What the changes make of the list they loaded.                          *)

_repair_registry_entries(listed) == listed \ Transient

Changed(change, listed) ==
    LET repaired == _repair_registry_entries(listed)
    IN CASE change.op = "read" -> repaired
         [] change.op = "prune" -> IF repaired \subseteq present /\ repaired = listed THEN listed
                                   ELSE repaired \cap present
         [] change.op = "register" -> IF change.project \in repaired THEN listed
                                      ELSE repaired \cup {change.project}
         [] change.op = "unregister" -> repaired \ {change.project}

Begins(p, change) == /\ doing[p] = Idle
                     /\ changes < MaxChanges
                     /\ changes' = changes + 1
                     /\ doing' = [doing EXCEPT ![p] = [at |-> "trying", change |-> change]]
                     /\ UNCHANGED <<registry, present, lock, expected, contested>>

\* The path is validated before the lock is taken.
register_project(p, d) ==
    d \in present \ Transient /\ Begins(p, [op |-> "register", project |-> d])

unregister_project(p, d) == Begins(p, [op |-> "unregister", project |-> d])

prune_registry(p) == Begins(p, [op |-> "prune"])

\* It takes the lock only when what it read needs repair.
read_registry(p) ==
    _repair_registry_entries(registry) # registry /\ Begins(p, [op |-> "read"])

-----------------------------------------------------------------------------
(* _registry_mutation_lock().                                              *)

Goes(p, at) == doing' = [doing EXCEPT ![p].at = at]

CreateLock(p) ==
    /\ doing[p].at = "trying"
    /\ IF lock = NoLock
       THEN lock' = [by |-> p, old |-> FALSE] /\ Goes(p, "locked")
       ELSE UNCHANGED lock /\ Goes(p, "refused")
    /\ UNCHANGED <<registry, present, changes, expected, contested>>

Reclaiming == {p \in Proc : doing[p].at = "reclaiming"}
Within == {p \in Proc : doing[p].at \in {"locked", "loaded", "saved"}}

\* stat() of a lock that is gone raises, and creating it is tried again.
FindGone(p) == /\ doing[p].at = "refused"
               /\ lock = NoLock
               /\ Goes(p, "trying")
               /\ UNCHANGED <<registry, present, lock, changes, expected, contested>>

FindOld(p) ==
    /\ doing[p].at = "refused"
    /\ lock.old
    /\ Goes(p, "reclaiming")
    /\ contested' = (contested \/ Reclaiming # {} \/ lock.by \in Within)
    /\ UNCHANGED <<registry, present, lock, changes, expected>>

\* Sleep and try again, or raise TimeoutError.
FindInUse(p) ==
    /\ doing[p].at = "refused"
    /\ lock # NoLock /\ ~lock.old
    /\ Goes(p, "trying") \/ doing' = [doing EXCEPT ![p] = Idle]
    /\ UNCHANGED <<registry, present, lock, changes, expected, contested>>

\* Faulty: the old lock is taken over as it is.
TakeOver(p) == /\ doing[p].at = "reclaiming"
               /\ Goes(p, "locked")
               /\ UNCHANGED <<registry, present, lock, changes, expected, contested>>

\* unlink(missing_ok=True), whatever lock is there now.
Reclaim(p) == /\ doing[p].at = "reclaiming"
              /\ lock' = NoLock
              /\ Goes(p, "trying")
              /\ UNCHANGED <<registry, present, changes, expected, contested>>

Release(p) == /\ doing[p].at \in {"loaded", "saved"}
              /\ lock' = NoLock
              /\ doing' = [doing EXCEPT ![p] = Idle]
              /\ UNCHANGED <<registry, present, changes, expected, contested>>

-----------------------------------------------------------------------------
(* Within the lock.                                                        *)

\* Faulty: the list was read before the lock was taken.
LoadEarly(p) ==
    /\ doing[p].at \in {"trying", "locked"}
    /\ IF doing[p].at = "locked"
       THEN doing' = [doing EXCEPT ![p] = [at |-> "loaded", change |-> @.change,
                                           listed |-> IF "listed" \in DOMAIN @ THEN @.listed ELSE registry]]
       ELSE doing' = [doing EXCEPT ![p] = [at |-> "trying", change |-> @.change, listed |-> registry]]
    /\ UNCHANGED <<registry, present, lock, changes, expected, contested>>

Load(p) ==
    /\ doing[p].at = "locked"
    /\ doing' = [doing EXCEPT ![p] = [at |-> "loaded", change |-> @.change, listed |-> registry]]
    /\ UNCHANGED <<registry, present, lock, changes, expected, contested>>

\* _save_registry(), if there is something to save.
Save(p) ==
    /\ doing[p].at = "loaded"
    /\ Changed(doing[p].change, doing[p].listed) # doing[p].listed
    /\ registry' = Changed(doing[p].change, doing[p].listed)
    /\ expected' = Changed(doing[p].change, expected)
    /\ Goes(p, "saved")
    /\ UNCHANGED <<present, lock, changes, contested>>

-----------------------------------------------------------------------------
\* A process dies; its lock stays.
Dies(p) == /\ doing[p] # Idle
           /\ doing' = [doing EXCEPT ![p] = Idle]
           /\ UNCHANGED <<registry, present, lock, changes, expected, contested>>

LockAges == /\ lock # NoLock
            /\ lock' = [lock EXCEPT !.old = TRUE]
            /\ UNCHANGED <<registry, present, doing, changes, expected, contested>>

DirectoryGoes(d) == /\ present' = present \ {d}
                    /\ UNCHANGED <<registry, lock, doing, changes, expected, contested>>

Next == \/ \E p \in Proc : \/ \E d \in Project : register_project(p, d) \/ unregister_project(p, d)
                           \/ prune_registry(p) \/ read_registry(p)
                           \/ CreateLock(p) \/ FindGone(p) \/ FindOld(p) \/ FindInUse(p)
                           \/ Reclaim(p) \/ Release(p) \/ Load(p) \/ Save(p) \/ Dies(p)
        \/ LockAges
        \/ \E d \in Project : DirectoryGoes(d)

Spec == Init /\ [][Next]_vars

-----------------------------------------------------------------------------
TypeOK == /\ registry \subseteq Project
          /\ present \subseteq Project
          /\ lock \in [by : Proc \cup {Nobody}, old : BOOLEAN]
          /\ DOMAIN doing = Proc
          /\ changes \in 0..MaxChanges
          /\ expected \subseteq Project
          /\ contested \in BOOLEAN

\* Changes are made one after the other, also when processes die in the middle
\* of one and their locks are removed by others: two overlap only if two found
\* one lock old at the same time, or one took over a minute.
ChangesExclude ==
    ~contested => \A p, q \in Within : p = q

\* The registry is what these changes, each made at once, make of it: no
\* registration is lost to another process, to a crash or to a repair.
RegistryExact == ~contested => registry = expected

\* A lock is reclaimed without the "removal of an active short-lived mutation":
\* whoever holds it for less than a minute keeps it.
ActiveLockKept ==
    [][\A p \in Within : lock.by = p /\ ~lock.old /\ p \in Within' => lock'.by = p]_vars
=============================================================================
