----------------------------- MODULE TraceVault -----------------------------
(***************************************************************************)
(* The vault of trace.py: seals are records of the SQLite store, numbered  *)
(* by how many there are and each with the hash of the one before.         *)
(*                                                                         *)
(* A hash is the number of the seal() that made it: the material that is   *)
(* hashed has a time stamp.  seal() loads, in one connection, and writes   *)
(* in another.  A load that fails is an empty vault, a write that fails    *)
(* raises.  The load asks for seals of every branch, so that the branch    *)
(* operations of EsdbStore matter, although a seal is written to Main.     *)
(***************************************************************************)
EXTENDS EsdbStore, SequencesExt

CONSTANT Main        \* the branch records are written to by default

ASSUME VaultAssumption == /\ Main \in Branch
                          /\ Id = 1..MaxOps
                          /\ Data = [hash : 1..MaxOps, prev : 0..MaxOps]

VARIABLES sealed,      \* history: the hashes of the seals that were written
          disturbed    \* history: the vault was changed otherwise, misread, or read by two

vaultVars == <<sealed, disturbed>>

VaultInit == sealed = <<>> /\ disturbed = FALSE

Rows == {r \in Branch \X Id : rows[r[1]][r[2]].live}
Seal(r) == rows[r[1]][r[2]].data

\* The last of the list, which is sorted by number; of one number on several
\* branches any may be the last.
LastSeals == {Seal(r) : r \in {q \in Rows : \A o \in Rows : o[2] <= q[2]}}

\* What seal() goes by: how many seals there are and the hash of the last.
Views == IF Rows = {} THEN {[count |-> 0, last |-> 0]}
         ELSE {[count |-> Cardinality(Rows), last |-> s.hash] : s \in LastSeals}

Misread == [count |-> 0, last |-> 0]

Sealing == {p \in Proc : job[p].at = "sealing"}

\* Faulty: the first seal is the last when the list is reversed.
NumberOfLast(view) == IF view.count = 0 THEN 1 ELSE view.count

NextNumber(view) == view.count + 1

SealLoad(p) ==
    /\ Begin(p)
    /\ \E view \in Views \cup {Misread} :
           /\ job' = [job EXCEPT ![p] = [at |-> "sealing", view |-> view, hash |-> begun']]
           /\ disturbed' = (disturbed \/ Sealing # {} \/ view \notin Views)
    /\ UNCHANGED <<events, crossed, rows, sealed>>

SealWrite(p) ==
    /\ job[p].at = "sealing"
    /\ NextNumber(job[p].view) \in Id
    /\ rows' = [rows EXCEPT ![Main][NextNumber(job[p].view)] =
                   [data |-> [hash |-> job[p].hash, prev |-> job[p].view.last], live |-> TRUE]]
    /\ job' = [job EXCEPT ![p] = Idle]
    /\ sealed' = Append(sealed, job[p].hash)
    /\ UNCHANGED <<events, crossed, begun, disturbed>>

\* What else is done to the store.
Otherwise(p, ids) == /\ StoreStep(p, ids)
                     /\ disturbed' = (disturbed \/ rows' # rows)
                     /\ UNCHANGED sealed

-----------------------------------------------------------------------------
(* verify(): every seal has the hash of the one before it in the list.     *)

Before(r) == {q \in Rows : q[2] < r[2]}
Twins(r) == {q \in Rows \ {r} : q[2] = r[2]}

verify == \A r \in Rows :
              /\ Twins(r) = {}
              /\ Seal(r).prev = IF Before(r) = {} THEN 0
                                ELSE Seal(CHOOSE q \in Before(r) : \A o \in Before(r) : o[2] <= q[2]).hash

\* A record only changes under its own upsert, seal or delete, under the deletion
\* of its branch, and under a source_wins merge that listed it as a conflict.
OnlyOnPurpose(b, i) ==
    \/ \E p \in Proc : job[p] = Idle
                       /\ begun' # begun
                       /\ (\A c \in Branch \ {b} : rows'[c] = rows[c])
    \/ \E p \in Sealing : b = Main /\ i = NextNumber(job[p].view)
    \/ \E p \in Proc : /\ job[p].at = "merge"
                       /\ job[p].branch = b
                       /\ job[p].strategy = "source_wins"
                       /\ i \in DOMAIN job[p].conflicts

LiveRowsStay == \A b \in Branch, i \in Id :
                    rows[b][i].live /\ rows'[b][i] # rows[b][i] => OnlyOnPurpose(b, i)

\* Nobody's branch operation takes a record away that is live.  Creating a
\* branch under a name that is in use, and merging while others write between
\* the detection and the commit, change nothing that is there.
LiveRowsKept == [][LiveRowsStay]_storeVars

\* The vault has exactly the seals that were written, numbered and linked in
\* the order of their writing, and verify() accepts it: however often a
\* process dies in seal(), unless two sealed at once, a load failed, or seals
\* were deleted, copied or merged.
VaultIsWhole ==
    ~disturbed => /\ Rows = {Main} \X (1..Len(sealed))
                  /\ \A n \in 1..Len(sealed) : Seal(<<Main, n>>).hash = sealed[n]
                  /\ verify
=============================================================================
