----------------------------- MODULE ChronoLog -----------------------------
(***************************************************************************)
(* The ChronoMemory engine of crates/chronomemory: an Esdb handle with its *)
(* write-ahead log (wal.rs), the materialized records and dependency graph *)
(* rebuilt from it (replay.rs, store.rs, dependency.rs) and the cascade of *)
(* a rollback (rollback.rs), across writes that fail part-way, processes   *)
(* that die, and handles opened again.                                     *)
(*                                                                         *)
(* SHA-256 is injective: the hash of (prev_hash, payload) is prev_hash with*)
(* payload appended.  log holds the entries that were written completely   *)
(* and tail says how they can be read: "length" when up to three bytes of  *)
(* an entry's length follow them, "garbled" when bytes that do not decode  *)
(* follow, or are in between.                                              *)
(***************************************************************************)
EXTENDS Naturals, Sequences, FiniteSets

CONSTANTS Id,          \* records
          EdgeType,    \* types of dependency edges
          Cascading,   \* DependsOn, Assumes and DerivedFrom: the types a rollback follows
          MaxEntries,  \* bound on the entries appended
          MaxFaults    \* bound on the writes that are cut short

ASSUME LogAssumption == /\ IsFiniteSet(Id)
                        /\ Cascading \subseteq EdgeType
                        /\ MaxEntries \in Nat
                        /\ MaxFaults \in Nat

VARIABLES
    log, tail,       \* events.wal
    open,            \* there is a handle; the rest of it is below
    seq, prevHash,   \* WalWriter
    store,           \* the status of each of Store.records
    edges,           \* DepGraph
    pending,         \* entries the rollback under way has still to append
    cutRollback,     \* a rollback of this handle was given up
    faults

vars == <<log, tail, open, seq, prevHash, store, edges, pending, cutRollback, faults>>

Genesis == <<>>
Payload == Seq(Id \cup EdgeType)
Event == {"Insert", "AddEdge", "Rollback", "Invalidate", "RecordMetric"}
Entry == [seq : Nat, event : Event, id : Id, payload : Payload,
          prev : Seq(Payload), hash : Seq(Payload)]
Tails == {"absent", "header", "whole", "length", "garbled"}

LoggedEdges == {log[i].payload : i \in {j \in DOMAIN log : log[j].event = "AddEdge"}}
Link == Id \X Id \X EdgeType

TypeOK == /\ log \in Seq(Entry)
          /\ LoggedEdges \subseteq Link
          /\ tail \in Tails
          /\ open \in BOOLEAN
          /\ seq \in Nat
          /\ prevHash \in Seq(Payload)
          /\ store \in [Id -> {"absent", "active", "invalidated"}]
          /\ edges \subseteq Link
          /\ pending \in Seq([event : {"Rollback", "Invalidate"}, id : Id, payload : Payload])
          /\ cutRollback \in BOOLEAN
          /\ faults \in Nat

\* Without a handle nothing is in memory.
Forgotten == /\ open' = FALSE
             /\ seq' = 0
             /\ prevHash' = Genesis
             /\ store' = [r \in Id |-> "absent"]
             /\ edges' = {}
             /\ pending' = <<>>
             /\ cutRollback' = FALSE

Init == /\ log = <<>>
        /\ tail = "absent"
        /\ open = FALSE
        /\ seq = 0
        /\ prevHash = Genesis
        /\ store = [r \in Id |-> "absent"]
        /\ edges = {}
        /\ pending = <<>>
        /\ cutRollback = FALSE
        /\ faults = 0

-----------------------------------------------------------------------------
\* WalReader::read_all stops at an incomplete length and fails on anything
\* else that is not an entry.
Readable == tail \in {"whole", "length"}

\* replay_full.  No Insert is applied: bincode cannot decode the JSON value of
\* a Record, and an entry that does not decode is passed over.  An Invalidate
\* finds no record.
ReplayedStore == [r \in Id |-> "absent"]

ReplayedEdges == LoggedEdges

\* WalWriter::open goes on from the last entry read.
LastSeq == IF log = <<>> THEN 0 ELSE log[Len(log)].seq
LastHash == IF log = <<>> THEN Genesis ELSE log[Len(log)].hash

\* Esdb::open on a directory without a log: the header is written ...
Create ==
    /\ tail = "absent"
    /\ tail' = "whole"
    /\ open' = TRUE
    /\ UNCHANGED <<log, seq, prevHash, store, edges, pending, cutRollback, faults>>

\* ... or is cut short.
CreateCut ==
    /\ tail = "absent"
    /\ faults < MaxFaults
    /\ tail' = "header"
    /\ faults' = faults + 1
    /\ UNCHANGED <<log, open, seq, prevHash, store, edges, pending, cutRollback>>

\* Esdb::open on a log: replay, then the writer.
Reopen ==
    /\ ~open
    /\ Readable
    /\ open' = TRUE
    /\ seq' = LastSeq
    /\ prevHash' = LastHash
    /\ store' = ReplayedStore
    /\ edges' = ReplayedEdges
    /\ UNCHANGED <<log, tail, pending, cutRollback, faults>>

\* The handle is dropped, or its process dies between two writes.
Close == /\ open
         /\ Forgotten
         /\ UNCHANGED <<log, tail, faults>>

-----------------------------------------------------------------------------
Hash(prev, payload) == Append(prev, payload)

\* A complete entry behind part of a length is taken for the rest of it.
TailAfterEntry == IF tail = "whole" THEN "whole" ELSE "garbled"

\* WalWriter::append: the entry is written ...
Write(event, id, payload) ==
    /\ Len(log) < MaxEntries
    /\ log' = Append(log, [seq |-> seq + 1, event |-> event, id |-> id, payload |-> payload,
                           prev |-> prevHash, hash |-> Hash(prevHash, payload)])
    /\ tail' = TailAfterEntry
    /\ seq' = seq + 1
    /\ prevHash' = Hash(prevHash, payload)

\* ... or the write is cut short: before the first byte, within the length,
\* or within the body.
CutTails == {tail} \cup (IF tail \in {"whole", "length"} THEN {"length", "garbled"} ELSE {})

CutWrite == /\ faults < MaxFaults
            /\ faults' = faults + 1
            /\ tail' \in CutTails

\* Faulty: the hash is remembered before the entry is in the file.
WriteFailsHashed(payload) ==
    /\ CutWrite
    /\ seq' = seq + 1
    /\ prevHash' = Hash(prevHash, payload)
    /\ UNCHANGED log

\* The write returns an error; seq was counted up before, prev_hash is kept.
WriteFails(payload) ==
    /\ CutWrite
    /\ seq' = seq + 1
    /\ UNCHANGED <<log, prevHash>>

\* The process dies in the write.
DieWriting ==
    /\ open
    /\ Len(log) < MaxEntries
    /\ CutWrite
    /\ Forgotten
    /\ UNCHANGED log

Idle == open /\ pending = <<>>

-----------------------------------------------------------------------------
\* Store::upsert.
Upserted(r) == store' = [store EXCEPT ![r] = "active"]

\* Esdb::commit.
Commit(r) ==
    /\ Idle
    /\ Write("Insert", r, <<r>>)
    /\ Upserted(r)
    /\ UNCHANGED <<open, edges, pending, cutRollback, faults>>

CommitFails(r) ==
    /\ Idle
    /\ WriteFails(<<r>>)
    /\ UNCHANGED <<open, store, edges, pending, cutRollback>>

\* Esdb::add_edge.
AddEdge(from, to, type) ==
    /\ Idle
    /\ Write("AddEdge", from, <<from, to, type>>)
    /\ edges' = edges \cup {<<from, to, type>>}
    /\ UNCHANGED <<open, store, pending, cutRollback, faults>>

\* Faulty: the edge is in the graph even if it could not be logged.
LinkedAnyway(from, to, type) ==
    /\ Idle
    /\ WriteFails(<<from, to, type>>)
    /\ edges' = edges \cup {<<from, to, type>>}
    /\ UNCHANGED <<open, store, pending, cutRollback>>

AddEdgeFails(from, to, type) ==
    /\ Idle
    /\ WriteFails(<<from, to, type>>)
    /\ UNCHANGED <<open, store, edges, pending, cutRollback>>

\* Esdb::record_metric; the aggregates are left out.
RecordMetric(r) ==
    /\ Idle
    /\ Write("RecordMetric", r, <<r>>)
    /\ UNCHANGED <<open, store, edges, pending, cutRollback, faults>>

RecordMetricFails(r) ==
    /\ Idle
    /\ WriteFails(<<r>>)
    /\ UNCHANGED <<open, store, edges, pending, cutRollback>>

-----------------------------------------------------------------------------
\* DepGraph::transitive_dependents: the least set around r that holds, with a
\* record, every record that depends on it; r itself is taken out.
DependsOn(a, b) == \E type \in Cascading : <<a, b, type>> \in edges

TransitiveDependents(r) ==
    {d \in Id \ {r} : \A S \in SUBSET Id :
        (r \in S /\ \A a, b \in Id : b \in S /\ DependsOn(a, b) => a \in S) => d \in S}

\* The orders in which a rollback of r may list the set S: r first, then the
\* others as the hash set gives them.
Orders(r, S) == {order \in [1..Cardinality(S) -> S] :
                    /\ \A i, j \in DOMAIN order : order[i] = order[j] => i = j
                    /\ r \in S => order[1] = r}

\* Faulty: only the dependents get an entry of their own.
RollbackEntriesOfDependents(r, order) ==
    <<[event |-> "Rollback", id |-> r, payload |-> order]>> \o
    [i \in 1..(Len(order) - 1) |-> [event |-> "Invalidate", id |-> order[i + 1], payload |-> <<>>]]

RollbackEntries(r, order) ==
    <<[event |-> "Rollback", id |-> r, payload |-> order]>> \o
    [i \in 1..Len(order) |-> [event |-> "Invalidate", id |-> order[i], payload |-> <<>>]]

\* Esdb::rollback: the records are invalidated in memory first ...
Rollback(r) ==
    /\ Idle
    /\ Len(log) < MaxEntries
    /\ LET hit == {d \in TransitiveDependents(r) \cup {r} : store[d] # "absent"}
       IN  /\ store' = [d \in Id |-> IF d \in hit THEN "invalidated" ELSE store[d]]
           /\ \E order \in Orders(r, hit) : pending' = RollbackEntries(r, order)
    /\ UNCHANGED <<log, tail, open, seq, prevHash, edges, cutRollback, faults>>

\* ... and logged one entry after the other ...
RollbackLogs ==
    /\ open
    /\ pending # <<>>
    /\ Write(pending[1].event, pending[1].id, pending[1].payload)
    /\ pending' = Tail(pending)
    /\ UNCHANGED <<open, store, edges, cutRollback, faults>>

\* ... until one append fails and the rest is given up.
RollbackFails ==
    /\ open
    /\ pending # <<>>
    /\ WriteFails(pending[1].payload)
    /\ pending' = <<>>
    /\ cutRollback' = TRUE
    /\ UNCHANGED <<open, store, edges>>

-----------------------------------------------------------------------------
Next == \/ Create \/ CreateCut \/ Reopen \/ Close \/ DieWriting
        \/ \E r \in Id : \/ Commit(r) \/ CommitFails(r)
                         \/ RecordMetric(r) \/ RecordMetricFails(r)
                         \/ Rollback(r)
        \/ \E from, to \in Id, type \in EdgeType :
               AddEdge(from, to, type) \/ AddEdgeFails(from, to, type)
        \/ RollbackLogs \/ RollbackFails

Spec == Init /\ [][Next]_vars

-----------------------------------------------------------------------------
\* WalReader::verify_chain.
VerifyChain ==
    \A i \in DOMAIN log :
        /\ log[i].prev = IF i = 1 THEN Genesis ELSE log[i - 1].hash
        /\ log[i].hash = Hash(log[i].prev, log[i].payload)

\* Whatever writes fail and however often the log is opened again, the entries
\* in the file form one hash chain from the genesis hash.
ChainHolds == VerifyChain

\* Sequence numbers may skip the appends that failed but are never given twice.
SeqsIncrease == \A i, j \in DOMAIN log : i < j => log[i].seq < log[j].seq

\* Through failed appends and reopening, the graph in memory is the graph of
\* the edges in the log.
GraphIsLogged == open => edges = LoggedEdges

\* The status the log gives a record: that of its last entry.
LoggedStatus(r) ==
    LET own == {i \in DOMAIN log : log[i].id = r /\ log[i].event \in {"Insert", "Invalidate"}}
        last == CHOOSE i \in own : \A j \in own : j <= i
    IN  IF own = {} THEN "absent"
        ELSE IF log[last].event = "Insert" THEN "active" ELSE "invalidated"

\* A record in memory has the status the log gives it, or its Invalidate entry
\* is still to come; only a rollback that was given up breaks this.
StatusIsLogged ==
    \A r \in Id :
        /\ store[r] = "active" => LoggedStatus(r) = "active"
        /\ store[r] = "invalidated" => \/ LoggedStatus(r) = "invalidated"
                                       \/ cutRollback
                                       \/ \E i \in DOMAIN pending :
                                             pending[i].event = "Invalidate" /\ pending[i].id = r

\* A commit that returned the id of its record can be replayed.  The code does
\* not keep this behind an entry that was cut short.
CommitReplayable ==
    [][\A r \in Id : store[r] = "absent" /\ store'[r] = "active" => Readable']_vars
=============================================================================
