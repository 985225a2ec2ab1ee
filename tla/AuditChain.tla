----------------------------- MODULE AuditChain -----------------------------
(***************************************************************************)
(* The audit log of the SQLite store: append_audit_event and               *)
(* verify_audit_chain of esdb/sqlite_store.py.                             *)
(*                                                                         *)
(* A hash is the number of the event that has it: the material that is     *)
(* hashed contains a fresh event id, so no two are the same, and 0 stands  *)
(* for the 64 zeros.  Looking up the previous hash and inserting the event *)
(* are two statements; the transaction begins with the second, so that     *)
(* another process may append in between.                                  *)
(***************************************************************************)
EXTENDS Naturals, Sequences, FiniteSetsExt

CONSTANTS Proc,        \* processes with a connection of their own
          Branch,
          MaxEvents    \* bound on the events in the log

ASSUME AuditAssumption == MaxEvents \in Nat

VARIABLES events,      \* audit_events in rowid order
          job,         \* what each process is in the middle of
          crossed      \* history: branches on which two appends overlapped

auditVars == <<events, job, crossed>>

Event == [branch : Branch, prev : Nat]

Idle == [at |-> "idle"]
LinkJob(b) == [at |-> "link", branch |-> b]
InsertJob(b, n) == [at |-> "insert", branch |-> b, prev |-> n]

AuditInit == /\ events = <<>>
             /\ job = [p \in Proc |-> Idle]
             /\ crossed = {}

On(b) == {n \in DOMAIN events : events[n].branch = b}

\* Faulty: the previous event of any branch.
LastOfAll(b) == Len(events)

\* Faulty: without DESC.
FirstOn(b) == IF On(b) = {} THEN 0 ELSE Min(On(b))

\* SELECT current_hash ... WHERE branch = ? ORDER BY rowid DESC LIMIT 1
LastOn(b) == IF On(b) = {} THEN 0 ELSE Max(On(b))

Inserting(b) == {p \in Proc : job[p].at = "insert" /\ job[p].branch = b}

FindPrevious(p) ==
    /\ job[p].at = "link"
    /\ Len(events) < MaxEvents
    /\ LET b == job[p].branch IN
           /\ job' = [job EXCEPT ![p] = InsertJob(b, LastOn(b))]
           /\ crossed' = IF Inserting(b) = {} THEN crossed ELSE crossed \cup {b}
    /\ UNCHANGED events

InsertEvent(p) ==
    /\ job[p].at = "insert"
    /\ Len(events) < MaxEvents
    /\ events' = Append(events, [branch |-> job[p].branch, prev |-> job[p].prev])
    /\ job' = [job EXCEPT ![p] = Idle]
    /\ UNCHANGED crossed

\* The process dies, or a statement raises: what is not committed is gone.
Dies(p) == /\ job[p] # Idle
           /\ job' = [job EXCEPT ![p] = Idle]
           /\ UNCHANGED <<events, crossed>>

-----------------------------------------------------------------------------
(* verify_audit_chain() follows the rows of all branches in one line.      *)

Mismatches == {n \in DOMAIN events : events[n].prev # n - 1}

chain_valid == Mismatches = {}

Forks(b) == {n \in On(b) : \E m \in On(b) : m # n /\ events[m].prev = events[n].prev}

\* A branch's events link to one another in one line, unless two appends to
\* that branch overlapped: whatever happens on other branches, and however
\* often a process dies between the lookup and the insert.
ForkNeedsOverlap == \A b \in Branch \ crossed : Forks(b) = {}

\* What an auditor learns from chain_valid(): it is true exactly when all
\* events are on one branch and none of them forks.  (It is false for an
\* untouched log as soon as a second branch has an event.)
ValidMeansOneLine ==
    chain_valid <=> /\ \A b \in Branch : Forks(b) = {}
                    /\ \A m, n \in DOMAIN events : events[m].branch = events[n].branch
=============================================================================
