-------------------------- MODULE ChronoLogProofs --------------------------
(***************************************************************************)
(* What the write-ahead log of ChronoLog.tla keeps, for any number of      *)
(* records, appends, failed writes and reopened handles.                   *)
(*                                                                         *)
(* The chain and the numbering are not inductive by themselves: an append  *)
(* continues them only because an open handle remembers the hash of the    *)
(* last entry and a number no entry exceeds (WriterAgrees).  The status of *)
(* a record follows its last entry because what a rollback has still to    *)
(* log is invalidated in memory already (PendingIsDone).                   *)
(***************************************************************************)
EXTENDS ChronoLog, FiniteSetTheorems, TLAPS

WriterAgrees == open => /\ prevHash = LastHash
                        /\ \A i \in DOMAIN log : log[i].seq <= seq

NoFile == tail = "absent" => log = <<>> /\ ~open /\ prevHash = Genesis

LogInv == ChainHolds /\ SeqsIncrease /\ WriterAgrees /\ NoFile

-----------------------------------------------------------------------------
\* The empty sequence has every type of sequence.
LEMMA EmptySequence == \A S : <<>> \in Seq(S) /\ DOMAIN <<>> = {}
OBVIOUS

\* The entries a rollback has to append are well formed.
LEMMA RollbackEntriesType ==
    ASSUME NEW r \in Id, NEW S \in SUBSET Id, NEW order \in Orders(r, S)
    PROVE  RollbackEntries(r, order) \in Seq([event : {"Rollback", "Invalidate"}, id : Id, payload : Payload])
<1> DEFINE Item == [event : {"Rollback", "Invalidate"}, id : Id, payload : Payload]
           rest == [i \in 1..Len(order) |-> [event |-> "Invalidate", id |-> order[i], payload |-> <<>>]]
           first == [event |-> "Rollback", id |-> r, payload |-> order]
<1>1. Cardinality(S) \in Nat
  BY FS_Subset, FS_CardinalityType, LogAssumption
<1>2. order \in Seq(Id)
  BY <1>1 DEF Orders
<1>3. order \in Payload /\ <<>> \in Payload
  BY <1>2 DEF Payload
<1>4. first \in Item
  BY <1>3 DEF Event
<1>5. ASSUME NEW i \in 1..Len(order) PROVE rest[i] \in Item
  BY <1>2, <1>3 DEF Event
<1>6. rest \in Seq(Item)
  BY <1>2, <1>5
<1>7. <<first>> \in Seq(Item)
  BY <1>4
<1> QED
  BY <1>6, <1>7 DEF RollbackEntries

\* A well-formed append keeps the log and the writer well formed.
LEMMA WriteType ==
    ASSUME TypeOK, NEW event \in Event, NEW id \in Id, NEW payload \in Payload,
           Write(event, id, payload), event = "AddEdge" => payload \in Link
    PROVE  /\ log' \in Seq(Entry)
           /\ LoggedEdges' = LoggedEdges \cup (IF event = "AddEdge" THEN {payload} ELSE {})
           /\ tail' \in Tails
           /\ seq' \in Nat
           /\ prevHash' \in Seq(Payload)
<1> DEFINE e == [seq |-> seq + 1, event |-> event, id |-> id, payload |-> payload,
                 prev |-> prevHash, hash |-> Hash(prevHash, payload)]
<1>1. Hash(prevHash, payload) \in Seq(Payload)
  BY DEF TypeOK, Hash
<1>2. e \in Entry
  BY <1>1 DEF TypeOK, Entry
<1>3. log' = Append(log, e) /\ log \in Seq(Entry)
  BY DEF Write, TypeOK
<1>4. log' \in Seq(Entry)
  BY <1>2, <1>3
<1>5. /\ DOMAIN log' = DOMAIN log \cup {Len(log) + 1}
      /\ \A i \in DOMAIN log : log'[i] = log[i]
      /\ log'[Len(log) + 1] = e
  BY <1>2, <1>3
<1>6. LoggedEdges' = LoggedEdges \cup (IF event = "AddEdge" THEN {payload} ELSE {})
  <2>1. e.event = event /\ e.payload = payload
    OBVIOUS
  <2> HIDE DEF e
  <2> QED
    BY <1>5, <2>1 DEF LoggedEdges
<1>7. tail' \in Tails /\ seq' \in Nat /\ prevHash' \in Seq(Payload)
  BY <1>1 DEF Write, TypeOK, TailAfterEntry, Tails
<1> QED
  BY <1>4, <1>6, <1>7

\* So does a write that fails.
LEMMA FailType ==
    ASSUME TypeOK, CutWrite
    PROVE  tail' \in Tails /\ faults' \in Nat
BY DEF TypeOK, CutWrite, CutTails, Tails

-----------------------------------------------------------------------------
\* Types: every variable keeps to its set, whatever is written, fails or is
\* read back.
THEOREM LogTypeCorrect == Spec => []TypeOK
<1>1. Init => TypeOK
  <2> SUFFICES ASSUME Init PROVE TypeOK
    OBVIOUS
  <2>1. LoggedEdges = {}
    BY EmptySequence DEF Init, LoggedEdges
  <2>2. log \in Seq(Entry) /\ prevHash \in Seq(Payload)
    BY EmptySequence DEF Init, Genesis
  <2>3. pending \in Seq([event : {"Rollback", "Invalidate"}, id : Id, payload : Payload])
    BY EmptySequence DEF Init
  <2> QED
    BY <2>1, <2>2, <2>3 DEF Init, TypeOK, Tails
<1>2. TypeOK /\ [Next]_vars => TypeOK'
  <2> SUFFICES ASSUME TypeOK, [Next]_vars PROVE TypeOK'
    OBVIOUS
  <2> DEFINE Rest == /\ open' \in BOOLEAN
                     /\ store' \in [Id -> {"absent", "active", "invalidated"}]
                     /\ edges' \subseteq Link
                     /\ pending' \in Seq([event : {"Rollback", "Invalidate"}, id : Id, payload : Payload])
                     /\ cutRollback' \in BOOLEAN
  <2>a. ASSUME log' = log PROVE log' \in Seq(Entry) /\ LoggedEdges' \subseteq Link
    BY <2>a DEF TypeOK, LoggedEdges
  <2>b. ASSUME NEW event \in Event, NEW id \in Id, NEW payload \in Payload,
               event = "AddEdge" => payload \in Link, Write(event, id, payload),
               UNCHANGED faults, Rest
        PROVE  TypeOK'
    <3>1. /\ log' \in Seq(Entry) /\ LoggedEdges' \subseteq Link
          /\ tail' \in Tails /\ seq' \in Nat /\ prevHash' \in Seq(Payload)
      BY <2>b, WriteType DEF TypeOK
    <3>2. faults' \in Nat
      BY <2>b DEF TypeOK
    <3> QED
      BY <2>b, <3>1, <3>2 DEF TypeOK
  <2>c. ASSUME NEW payload, WriteFails(payload), Rest
        PROVE  TypeOK'
    <3>1. tail' \in Tails /\ faults' \in Nat
      BY <2>c, FailType DEF WriteFails
    <3>2. seq' \in Nat /\ prevHash' \in Seq(Payload) /\ log' = log
      BY <2>c DEF WriteFails, TypeOK
    <3> QED
      BY <2>a, <2>c, <3>1, <3>2 DEF TypeOK
  <2>d. ASSUME Forgotten
        PROVE  Rest /\ seq' \in Nat /\ prevHash' \in Seq(Payload)
    <3>1. prevHash' \in Seq(Payload)
      BY <2>d, EmptySequence DEF Forgotten, Genesis
    <3>2. pending' \in Seq([event : {"Rollback", "Invalidate"}, id : Id, payload : Payload])
      BY <2>d, EmptySequence DEF Forgotten
    <3> QED
      BY <2>d, <3>1, <3>2 DEF Forgotten
  <2>r. ASSUME NEW r \in Id PROVE <<r>> \in Payload
    BY DEF Payload
  <2>1. CASE Create \/ CreateCut
    <3>1. CASE Create
      BY <2>a, <3>1 DEF Create, TypeOK, Tails
    <3>2. CASE CreateCut
      <4>1. tail' \in Tails /\ faults' \in Nat
        BY <3>2 DEF CreateCut, TypeOK, Tails
      <4> QED
        BY <2>a, <3>2, <4>1 DEF CreateCut, TypeOK
    <3> QED
      BY <2>1, <3>1, <3>2
  <2>2. CASE Reopen
    <3>1. seq' \in Nat /\ prevHash' \in Seq(Payload)
      <4>1. log # <<>> => log[Len(log)] \in Entry
        BY DEF TypeOK
      <4>2. LastSeq \in Nat
        BY <4>1 DEF LastSeq, Entry
      <4>3. LastHash \in Seq(Payload)
        BY <4>1, EmptySequence DEF LastHash, Entry, Genesis
      <4> QED
        BY <2>2, <4>2, <4>3 DEF Reopen
    <3>2. store' \in [Id -> {"absent", "active", "invalidated"}] /\ edges' \subseteq Link
      BY <2>2 DEF Reopen, ReplayedStore, ReplayedEdges, TypeOK
    <3>3. log' = log
      BY <2>2 DEF Reopen
    <3> QED
      BY <2>2, <2>a, <3>1, <3>2, <3>3 DEF Reopen, TypeOK
  <2>3. CASE Close
    BY <2>3, <2>a, <2>d DEF Close, TypeOK
  <2>4. CASE DieWriting
    BY <2>4, <2>a, <2>d, FailType DEF DieWriting, TypeOK
  <2>5. ASSUME NEW r \in Id, Commit(r) PROVE TypeOK'
    <3>1. Rest
      BY <2>5 DEF Commit, Upserted, TypeOK
    <3> QED
      BY <2>5, <2>b, <2>r, <3>1 DEF Commit, Event
  <2>6. ASSUME NEW r \in Id, CommitFails(r) \/ RecordMetricFails(r) PROVE TypeOK'
    <3>1. Rest
      BY <2>6 DEF CommitFails, RecordMetricFails, TypeOK
    <3> QED
      BY <2>6, <2>c, <3>1 DEF CommitFails, RecordMetricFails
  <2>7. ASSUME NEW r \in Id, RecordMetric(r) PROVE TypeOK'
    <3>1. Rest
      BY <2>7 DEF RecordMetric, TypeOK
    <3> QED
      BY <2>7, <2>b, <2>r, <3>1 DEF RecordMetric, Event
  <2>8. ASSUME NEW r \in Id, Rollback(r) PROVE TypeOK'
    <3> DEFINE hit == {d \in TransitiveDependents(r) \cup {r} : store[d] # "absent"}
    <3>1. hit \in SUBSET Id
      BY DEF TransitiveDependents
    <3>2. PICK order \in Orders(r, hit) : pending' = RollbackEntries(r, order)
      BY <2>8 DEF Rollback
    <3>3. pending' \in Seq([event : {"Rollback", "Invalidate"}, id : Id, payload : Payload])
      BY <3>1, <3>2, RollbackEntriesType
    <3>4. store' \in [Id -> {"absent", "active", "invalidated"}]
      BY <2>8 DEF Rollback, TypeOK
    <3> QED
      BY <2>8, <2>a, <3>3, <3>4 DEF Rollback, TypeOK
  <2>9. ASSUME NEW from \in Id, NEW to \in Id, NEW type \in EdgeType, AddEdge(from, to, type)
        PROVE  TypeOK'
    <3>1. <<from, to, type>> \in Payload /\ <<from, to, type>> \in Link
      BY DEF Payload, Link
    <3>2. Rest
      BY <2>9, <3>1 DEF AddEdge, TypeOK
    <3> QED
      BY <2>9, <2>b, <3>1, <3>2 DEF AddEdge, Event
  <2>10. ASSUME NEW from \in Id, NEW to \in Id, NEW type \in EdgeType, AddEdgeFails(from, to, type)
         PROVE  TypeOK'
    <3>1. Rest
      BY <2>10 DEF AddEdgeFails, TypeOK
    <3> QED
      BY <2>10, <2>c, <3>1 DEF AddEdgeFails
  <2>11. CASE RollbackLogs
    <3> DEFINE e == pending[1]
           Item == [event : {"Rollback", "Invalidate"}, id : Id, payload : Payload]
    <3>0. pending \in Seq(Item) /\ pending # <<>>
      BY <2>11 DEF RollbackLogs, TypeOK
    <3>1. /\ e.event \in {"Rollback", "Invalidate"} /\ e.id \in Id /\ e.payload \in Payload
          /\ Tail(pending) \in Seq(Item)
      <4>1. e \in Item /\ Tail(pending) \in Seq(Item)
        <5> HIDE DEF Item
        <5> QED
          BY <3>0
      <4> QED
        BY <4>1
    <3>2. Rest
      BY <2>11, <3>1 DEF RollbackLogs, TypeOK
    <3>3. Write(e.event, e.id, e.payload) /\ UNCHANGED faults
      BY <2>11 DEF RollbackLogs
    <3>4. e.event \in Event /\ e.event # "AddEdge"
      BY <3>1 DEF Event
    <3> QED
      BY <2>b, <3>1, <3>2, <3>3, <3>4
  <2>12. CASE RollbackFails
    <3>1. Rest
      BY <2>12 DEF RollbackFails, TypeOK
    <3> QED
      BY <2>12, <2>c, <3>1 DEF RollbackFails
  <2>13. CASE UNCHANGED vars
    BY <2>13, <2>a DEF vars, TypeOK
  <2> QED
    BY <2>1, <2>2, <2>3, <2>4, <2>5, <2>6, <2>7, <2>8, <2>9, <2>10, <2>11, <2>12, <2>13 DEF Next
<1> QED
  BY <1>1, <1>2, PTL DEF Spec

-----------------------------------------------------------------------------
\* Entries are numbered by naturals.
LEMMA EntrySeq == ASSUME TypeOK PROVE \A i \in DOMAIN log : log[i].seq \in Nat
<1> SUFFICES ASSUME NEW i \in DOMAIN log PROVE log[i].seq \in Nat
  OBVIOUS
<1>1. log \in Seq(Entry)
  BY DEF TypeOK
<1>2. log[i] \in Entry
  BY <1>1
<1> QED
  BY <1>2 DEF Entry

\* An append that succeeds continues the chain and the numbering.
LEMMA WriteKeepsLog ==
    ASSUME TypeOK, LogInv, open, open', NEW event, NEW id, NEW payload, Write(event, id, payload)
    PROVE  LogInv'
<1> DEFINE e == [seq |-> seq + 1, event |-> event, id |-> id, payload |-> payload,
                 prev |-> prevHash, hash |-> Hash(prevHash, payload)]
           n == Len(log)
<1>1. /\ log' = Append(log, e) /\ log \in Seq(Entry) /\ n \in Nat
      /\ seq' = seq + 1 /\ prevHash' = e.hash /\ seq \in Nat
  BY DEF Write, TypeOK
<1>2. /\ DOMAIN log' = 1..(n + 1) /\ DOMAIN log = 1..n /\ Len(log') = n + 1
      /\ \A i \in 1..n : log'[i] = log[i]
      /\ log'[n + 1] = e
  <2> HIDE DEF e
  <2> QED
    BY <1>1
<1>3. e.seq = seq + 1 /\ e.prev = LastHash /\ e.hash = Hash(e.prev, e.payload)
  BY DEF LogInv, WriterAgrees
<1>4. \A i \in 1..n : log[i].seq \in Nat /\ log[i].seq <= seq
  BY <1>1, <1>2, EntrySeq DEF LogInv, WriterAgrees
<1> HIDE DEF e
<1>5. ChainHolds'
  <2> SUFFICES ASSUME NEW i \in 1..(n + 1)
               PROVE  /\ log'[i].prev = IF i = 1 THEN Genesis ELSE log'[i - 1].hash
                      /\ log'[i].hash = Hash(log'[i].prev, log'[i].payload)
    BY <1>2 DEF ChainHolds, VerifyChain
  <2>1. CASE i \in 1..n
    <3>1. i # 1 => i - 1 \in 1..n
      BY <1>1, <2>1
    <3>2. log'[i] = log[i] /\ (i # 1 => log'[i - 1] = log[i - 1])
      BY <1>2, <2>1, <3>1
    <3> QED
      BY <1>2, <2>1, <3>2 DEF LogInv, ChainHolds, VerifyChain
  <2>2. CASE i = n + 1
    <3>1. CASE n = 0
      <4>1. LastHash = Genesis
        BY <1>1, <3>1 DEF LastHash
      <4> QED
        BY <1>2, <1>3, <2>2, <3>1, <4>1
    <3>2. CASE n # 0
      <4>1. LastHash = log[n].hash /\ i # 1 /\ i - 1 = n /\ n \in 1..n
        BY <1>1, <2>2, <3>2 DEF LastHash
      <4> QED
        BY <1>2, <1>3, <2>2, <4>1
    <3> QED
      BY <3>1, <3>2
  <2> QED
    BY <1>1, <2>1, <2>2
<1>6. SeqsIncrease'
  <2> SUFFICES ASSUME NEW i \in 1..(n + 1), NEW j \in 1..(n + 1), i < j
               PROVE  log'[i].seq < log'[j].seq
    BY <1>2 DEF SeqsIncrease
  <2>1. i \in 1..n
    BY <1>1
  <2>2. CASE j \in 1..n
    BY <1>2, <2>1, <2>2 DEF LogInv, SeqsIncrease
  <2>3. CASE j = n + 1
    BY <1>1, <1>2, <1>3, <1>4, <2>1, <2>3
  <2> QED
    BY <1>1, <2>2, <2>3
<1>7. WriterAgrees'
  <2>1. prevHash' = LastHash'
    BY <1>1, <1>2 DEF LastHash
  <2>2. ASSUME NEW i \in 1..(n + 1) PROVE log'[i].seq <= seq'
    <3>1. CASE i \in 1..n
      BY <1>1, <1>2, <1>4, <3>1
    <3>2. CASE i = n + 1
      BY <1>1, <1>2, <1>3, <3>2
    <3> QED
      BY <1>1, <3>1, <3>2
  <2> QED
    BY <1>2, <2>1, <2>2 DEF WriterAgrees
<1>8. NoFile'
  BY DEF Write, TailAfterEntry, NoFile
<1> QED
  BY <1>5, <1>6, <1>7, <1>8 DEF LogInv

\* A failed write leaves the chain alone and wastes a number.
LEMMA FailKeepsLog ==
    ASSUME TypeOK, LogInv, open, NEW payload, WriteFails(payload)
    PROVE  LogInv'
<1>1. log' = log /\ prevHash' = prevHash /\ seq' = seq + 1 /\ seq \in Nat /\ log \in Seq(Entry)
  BY DEF WriteFails, TypeOK
<1>2. ASSUME NEW i \in DOMAIN log PROVE log[i].seq <= seq'
  <2>1. log[i].seq \in Nat /\ log[i].seq <= seq
    BY <1>1, EntrySeq DEF LogInv, WriterAgrees
  <2> QED
    BY <1>1, <2>1
<1>3. ChainHolds' /\ SeqsIncrease' /\ LastHash' = LastHash
  BY <1>1 DEF LogInv, ChainHolds, VerifyChain, SeqsIncrease, LastHash
<1>4. NoFile'
  BY DEF LogInv, NoFile, WriteFails, CutWrite, CutTails
<1> QED
  BY <1>1, <1>2, <1>3, <1>4 DEF LogInv, WriterAgrees

\* A handle that is opened remembers the last hash and the largest number.
LEMMA ReopenAgrees ==
    ASSUME TypeOK, LogInv, Reopen
    PROVE  LogInv'
<1>1. log' = log /\ prevHash' = LastHash /\ seq' = LastSeq /\ log \in Seq(Entry)
  BY DEF Reopen, TypeOK
<1>2. ChainHolds' /\ SeqsIncrease' /\ LastHash' = LastHash
  BY <1>1 DEF LogInv, ChainHolds, VerifyChain, SeqsIncrease, LastHash
<1>3. ASSUME NEW i \in DOMAIN log PROVE log[i].seq <= seq'
  <2>1. /\ Len(log) \in Nat /\ i \in 1..Len(log) /\ log # <<>> /\ Len(log) \in DOMAIN log
        /\ log[i].seq \in Nat
    BY <1>1, EntrySeq
  <2>2. seq' = log[Len(log)].seq
    BY <1>1, <2>1 DEF LastSeq
  <2>3. CASE i = Len(log)
    BY <2>1, <2>2, <2>3
  <2>4. CASE i < Len(log)
    <3>1. log[i].seq < log[Len(log)].seq
      BY <2>1, <2>4 DEF LogInv, SeqsIncrease
    <3>2. log[Len(log)].seq \in Nat
      BY <1>1, <2>1, EntrySeq
    <3> QED
      BY <2>1, <2>2, <3>1, <3>2
  <2> QED
    BY <2>1, <2>3, <2>4
<1>4. NoFile'
  BY DEF Reopen, Readable, NoFile
<1> QED
  BY <1>1, <1>2, <1>3, <1>4 DEF LogInv, WriterAgrees

\* The chain, the numbering and what the writer remembers hold always.
LEMMA LogInvariant == Spec => []LogInv
<1>1. Init => LogInv
  <2> SUFFICES ASSUME Init PROVE LogInv
    OBVIOUS
  <2>1. DOMAIN log = {} /\ ~open
    BY EmptySequence DEF Init
  <2> QED
    BY <2>1 DEF Init, LogInv, ChainHolds, VerifyChain, SeqsIncrease, WriterAgrees, NoFile
<1>2. TypeOK /\ LogInv /\ [Next]_vars => LogInv'
  <2> SUFFICES ASSUME TypeOK, LogInv, [Next]_vars PROVE LogInv'
    OBVIOUS
  <2>a. ASSUME log' = log, open' = FALSE, tail' # "absent" PROVE LogInv'
    BY <2>a DEF LogInv, ChainHolds, VerifyChain, SeqsIncrease, WriterAgrees, NoFile
  <2>b. ASSUME log' = log, prevHash' = prevHash, seq' = seq, open' = open, tail' = tail PROVE LogInv'
    BY <2>b DEF LogInv, ChainHolds, VerifyChain, SeqsIncrease, WriterAgrees, LastHash, NoFile
  <2>1. CASE Create
    <3>1. log = <<>> /\ prevHash = Genesis /\ DOMAIN log = {}
      BY <2>1, EmptySequence DEF Create, LogInv, NoFile
    <3>2. log' = <<>> /\ prevHash' = Genesis /\ DOMAIN log' = {} /\ tail' = "whole"
      BY <2>1, <3>1 DEF Create
    <3> QED
      BY <3>2 DEF LogInv, ChainHolds, VerifyChain, SeqsIncrease, WriterAgrees, NoFile, LastHash
  <2>2. CASE CreateCut
    <3>1. log' = log /\ ~open' /\ tail' = "header"
      BY <2>2 DEF CreateCut, LogInv, NoFile
    <3> QED
      BY <3>1 DEF LogInv, ChainHolds, VerifyChain, SeqsIncrease, WriterAgrees, NoFile
  <2>3. CASE Reopen
    BY <2>3, ReopenAgrees
  <2>4. CASE Close \/ DieWriting
    <3>1. open /\ tail # "absent"
      BY <2>4 DEF Close, DieWriting, LogInv, NoFile
    <3>2. log' = log /\ open' = FALSE /\ tail' # "absent"
      BY <2>4, <3>1 DEF Close, DieWriting, Forgotten, CutWrite, CutTails
    <3> QED
      BY <2>a, <3>2
  <2>5. ASSUME NEW r \in Id, Commit(r) \/ RecordMetric(r) PROVE LogInv'
    BY <2>5, WriteKeepsLog DEF Commit, RecordMetric, Idle
  <2>6. ASSUME NEW r \in Id, CommitFails(r) \/ RecordMetricFails(r) PROVE LogInv'
    BY <2>6, FailKeepsLog DEF CommitFails, RecordMetricFails, Idle
  <2>7. ASSUME NEW r \in Id, Rollback(r) PROVE LogInv'
    BY <2>7, <2>b DEF Rollback
  <2>8. ASSUME NEW from \in Id, NEW to \in Id, NEW type \in EdgeType, AddEdge(from, to, type)
        PROVE  LogInv'
    BY <2>8, WriteKeepsLog DEF AddEdge, Idle
  <2>9. ASSUME NEW from \in Id, NEW to \in Id, NEW type \in EdgeType, AddEdgeFails(from, to, type)
        PROVE  LogInv'
    BY <2>9, FailKeepsLog DEF AddEdgeFails, Idle
  <2>10. CASE RollbackLogs
    BY <2>10, WriteKeepsLog DEF RollbackLogs
  <2>11. CASE RollbackFails
    BY <2>11, FailKeepsLog DEF RollbackFails
  <2>12. CASE UNCHANGED vars
    BY <2>12, <2>b DEF vars
  <2> QED
    BY <2>1, <2>2, <2>3, <2>4, <2>5, <2>6, <2>7, <2>8, <2>9, <2>10, <2>11, <2>12 DEF Next
<1> QED
  BY <1>1, <1>2, LogTypeCorrect, PTL DEF Spec

\* Invariant 8 of the engine: the entries in the file are one hash chain,
\* whatever writes failed and however often the log was opened again.
THEOREM LogIsOneChain == Spec => []ChainHolds
<1>1. LogInv => ChainHolds
  BY DEF LogInv
<1> QED
  BY <1>1, LogInvariant, PTL

\* No sequence number is given twice.
THEOREM NumbersIncrease == Spec => []SeqsIncrease
<1>1. LogInv => SeqsIncrease
  BY DEF LogInv
<1> QED
  BY <1>1, LogInvariant, PTL

-----------------------------------------------------------------------------
GraphInv == edges = IF open THEN LoggedEdges ELSE {}

\* The dependency graph in memory is the graph of the logged edges: an edge is
\* added when its entry is in the file, and a replay adds the same edges again.
THEOREM GraphFollowsLog == Spec => []GraphIsLogged
<1>1. Init => GraphInv
  BY DEF Init, GraphInv
<1>2. TypeOK /\ LogInv /\ GraphInv /\ [Next]_vars => GraphInv'
  <2> SUFFICES ASSUME TypeOK, LogInv, GraphInv, [Next]_vars PROVE GraphInv'
    OBVIOUS
  <2>a. ASSUME log' = log, open' = open, edges' = edges PROVE GraphInv'
    BY <2>a DEF GraphInv, LoggedEdges
  <2>b. ASSUME NEW event \in Event, NEW id \in Id, NEW payload \in Payload, event # "AddEdge",
               Write(event, id, payload), open' = open, edges' = edges
        PROVE  GraphInv'
    BY <2>b, WriteType DEF GraphInv
  <2>r. ASSUME NEW r \in Id PROVE <<r>> \in Payload
    BY DEF Payload
  <2>1. CASE Create
    <3>1. ~open /\ LoggedEdges' = {}
      BY <2>1, EmptySequence DEF Create, LogInv, NoFile, LoggedEdges
    <3> QED
      BY <2>1, <3>1 DEF Create, GraphInv
  <2>2. CASE CreateCut
    BY <2>2, <2>a DEF CreateCut
  <2>3. CASE Reopen
    BY <2>3 DEF Reopen, ReplayedEdges, GraphInv, LoggedEdges
  <2>4. CASE Close \/ DieWriting
    BY <2>4 DEF Close, DieWriting, Forgotten, GraphInv
  <2>5. ASSUME NEW r \in Id, Commit(r) \/ RecordMetric(r) PROVE GraphInv'
    BY <2>5, <2>b, <2>r DEF Commit, RecordMetric, Upserted, Event
  <2>6. ASSUME NEW r \in Id, CommitFails(r) \/ RecordMetricFails(r) \/ Rollback(r) PROVE GraphInv'
    BY <2>6, <2>a DEF CommitFails, RecordMetricFails, Rollback, WriteFails
  <2>7. ASSUME NEW from \in Id, NEW to \in Id, NEW type \in EdgeType, AddEdge(from, to, type)
        PROVE  GraphInv'
    <3>1. <<from, to, type>> \in Payload /\ <<from, to, type>> \in Link
      BY DEF Payload, Link
    <3>2. LoggedEdges' = LoggedEdges \cup {<<from, to, type>>}
      BY <2>7, <3>1, WriteType DEF AddEdge, Event
    <3> QED
      BY <2>7, <3>2 DEF AddEdge, Idle, GraphInv
  <2>8. ASSUME NEW from \in Id, NEW to \in Id, NEW type \in EdgeType, AddEdgeFails(from, to, type)
        PROVE  GraphInv'
    BY <2>8, <2>a DEF AddEdgeFails, WriteFails
  <2>9. CASE RollbackLogs
    <3> DEFINE Item == [event : {"Rollback", "Invalidate"}, id : Id, payload : Payload]
    <3>1. pending \in Seq(Item) /\ pending # <<>>
      BY <2>9 DEF RollbackLogs, TypeOK
    <3>2. pending[1] \in Item
      <4> HIDE DEF Item
      <4> QED
        BY <3>1
    <3>3. /\ pending[1].event \in Event /\ pending[1].event # "AddEdge"
          /\ pending[1].id \in Id /\ pending[1].payload \in Payload
      BY <3>2 DEF Event
    <3> QED
      BY <2>9, <2>b, <3>3 DEF RollbackLogs
  <2>10. CASE RollbackFails
    BY <2>10, <2>a DEF RollbackFails, WriteFails
  <2>11. CASE UNCHANGED vars
    BY <2>11, <2>a DEF vars
  <2> QED
    BY <2>1, <2>2, <2>3, <2>4, <2>5, <2>6, <2>7, <2>8, <2>9, <2>10, <2>11 DEF Next
<1>3. GraphInv => GraphIsLogged
  BY DEF GraphInv, GraphIsLogged
<1> QED
  BY <1>1, <1>2, <1>3, LogTypeCorrect, LogInvariant, PTL DEF Spec

-----------------------------------------------------------------------------
(* The status of records in memory and in the log.                         *)

\* The entries of a log that give record r a status, and that status.
OwnEntries(entries, r) ==
    {i \in DOMAIN entries : entries[i].id = r /\ entries[i].event \in {"Insert", "Invalidate"}}

StatusIn(entries, r) ==
    LET own == OwnEntries(entries, r)
        last == CHOOSE i \in own : \A j \in own : j <= i
    IN  IF own = {} THEN "absent"
        ELSE IF entries[last].event = "Insert" THEN "active" ELSE "invalidated"

Announced(r) == \E i \in DOMAIN pending : pending[i].event = "Invalidate" /\ pending[i].id = r

\* Entries still to be written concern records that are invalidated already:
\* writing them never contradicts the memory.
PendingIsDone ==
    /\ open \/ pending = <<>>
    /\ \A i \in DOMAIN pending : pending[i].event = "Invalidate" => store[pending[i].id] = "invalidated"

HasLast(r) ==
    OwnEntries(log, r) # {} => \E i \in OwnEntries(log, r) : \A j \in OwnEntries(log, r) : j <= i

Agrees(r) ==
    /\ store[r] = "active" => StatusIn(log, r) = "active"
    /\ store[r] = "invalidated" => StatusIn(log, r) = "invalidated" \/ cutRollback \/ Announced(r)

StatusInv == PendingIsDone /\ \A r \in Id : Agrees(r) /\ HasLast(r)

LEMMA StatusOfLast ==
    ASSUME NEW entries \in Seq(Entry), NEW r \in Id, NEW i \in OwnEntries(entries, r),
           \A j \in OwnEntries(entries, r) : j <= i
    PROVE  StatusIn(entries, r) = IF entries[i].event = "Insert" THEN "active" ELSE "invalidated"
<1> DEFINE last == CHOOSE k \in OwnEntries(entries, r) : \A j \in OwnEntries(entries, r) : j <= k
<1>1. last \in OwnEntries(entries, r) /\ \A j \in OwnEntries(entries, r) : j <= last
  OBVIOUS
<1>2. OwnEntries(entries, r) \subseteq Nat
  BY DEF OwnEntries
<1>3. last = i
  <2> HIDE DEF last
  <2> QED
    BY <1>1, <1>2
<1>4. StatusIn(entries, r) = IF entries[last].event = "Insert" THEN "active" ELSE "invalidated"
  BY <1>1 DEF StatusIn
<1> QED
  BY <1>3, <1>4

\* An entry gives its record the status of its event and leaves the other
\* records theirs.
LEMMA StatusAfterWrite ==
    ASSUME TypeOK, TypeOK', NEW event \in Event, NEW id \in Id, NEW payload, Write(event, id, payload),
           NEW r \in Id, HasLast(r)
    PROVE  /\ HasLast(r)'
           /\ id = r /\ event = "Insert" => StatusIn(log', r) = "active"
           /\ id = r /\ event = "Invalidate" => StatusIn(log', r) = "invalidated"
           /\ id # r \/ event \notin {"Insert", "Invalidate"} => StatusIn(log', r) = StatusIn(log, r)
<1> DEFINE e == [seq |-> seq + 1, event |-> event, id |-> id, payload |-> payload,
                 prev |-> prevHash, hash |-> Hash(prevHash, payload)]
           n == Len(log)
<1>1. log' = Append(log, e) /\ log \in Seq(Entry) /\ n \in Nat /\ e.event = event /\ e.id = id
  BY DEF Write, TypeOK
<1>2. /\ DOMAIN log' = (1..n) \cup {n + 1} /\ DOMAIN log = 1..n /\ log'[n + 1] = e
      /\ \A i \in 1..n : log'[i] = log[i]
  <2> HIDE DEF e
  <2> QED
    BY <1>1
<1> HIDE DEF e
<1>3. CASE id = r /\ event \in {"Insert", "Invalidate"}
  <2>1. n + 1 \in OwnEntries(log', r) /\ \A j \in OwnEntries(log', r) : j <= n + 1
    BY <1>1, <1>2, <1>3 DEF OwnEntries
  <2>2. HasLast(r)'
    BY <2>1 DEF HasLast
  <2>3. StatusIn(log', r) = IF log'[n + 1].event = "Insert" THEN "active" ELSE "invalidated"
    BY <2>1, StatusOfLast DEF TypeOK
  <2> QED
    BY <1>1, <1>2, <1>3, <2>2, <2>3
<1>4. CASE id # r \/ event \notin {"Insert", "Invalidate"}
  <2>1. OwnEntries(log', r) = OwnEntries(log, r)
    BY <1>1, <1>2, <1>4 DEF OwnEntries
  <2>2. HasLast(r)'
    BY <2>1 DEF HasLast
  <2>3. ASSUME OwnEntries(log, r) = {} PROVE StatusIn(log', r) = StatusIn(log, r)
    BY <2>1, <2>3 DEF StatusIn
  <2>4. ASSUME OwnEntries(log, r) # {} PROVE StatusIn(log', r) = StatusIn(log, r)
    <3>1. PICK i \in OwnEntries(log, r) : \A j \in OwnEntries(log, r) : j <= i
      BY <2>4 DEF HasLast
    <3>2. StatusIn(log, r) = IF log[i].event = "Insert" THEN "active" ELSE "invalidated"
      BY <3>1, StatusOfLast DEF TypeOK
    <3>3. StatusIn(log', r) = IF log'[i].event = "Insert" THEN "active" ELSE "invalidated"
      BY <2>1, <3>1, StatusOfLast DEF TypeOK
    <3>4. log'[i] = log[i]
      BY <1>2 DEF OwnEntries
    <3> QED
      BY <3>2, <3>3, <3>4
  <2>5. StatusIn(log', r) = StatusIn(log, r)
    BY <2>3, <2>4
  <2> QED
    BY <1>4, <2>2, <2>5
<1> QED
  BY <1>3, <1>4

\* Injective lists as long as a finite set name every element of it.
LEMMA OrdersListAll ==
    ASSUME NEW r \in Id, NEW S \in SUBSET Id, NEW order \in Orders(r, S), NEW d \in S
    PROVE  \E i \in 1..Len(order) : order[i] = d
<1> DEFINE n == Cardinality(S)
<1>1. IsFiniteSet(S) /\ n \in Nat
  BY FS_Subset, FS_CardinalityType, LogAssumption
<1>2. order \in [1..n -> S] /\ Len(order) = n
  BY <1>1 DEF Orders
<1>3. SUFFICES ASSUME \A i \in 1..n : order[i] # d PROVE FALSE
  BY <1>2
<1>4. order \in [1..n -> S \ {d}]
  BY <1>2, <1>3
<1>5. IsFiniteSet(S \ {d}) /\ Cardinality(S \ {d}) = n - 1
  BY <1>1, FS_RemoveElement
<1>6. IsFiniteSet(1..n) /\ Cardinality(1..n) = n
  BY <1>1, FS_Interval
<1>7. \E x, y \in 1..n : x # y /\ order[x] = order[y]
  BY <1>1, <1>4, <1>5, <1>6, FS_PigeonHole
<1> QED
  BY <1>7 DEF Orders

LEMMA EntriesOfRollback ==
    ASSUME NEW r \in Id, NEW S \in SUBSET Id, NEW order \in Orders(r, S)
    PROVE  LET entries == RollbackEntries(r, order)
           IN  /\ \A d \in S : \E i \in DOMAIN entries : entries[i].event = "Invalidate" /\ entries[i].id = d
               /\ \A i \in DOMAIN entries : entries[i].event = "Invalidate" => entries[i].id \in S
<1> DEFINE entries == RollbackEntries(r, order)
           rest == [i \in 1..Len(order) |-> [event |-> "Invalidate", id |-> order[i], payload |-> <<>>]]
           first == [event |-> "Rollback", id |-> r, payload |-> order]
<1>1. order \in Seq(S)
  <2>1. Cardinality(S) \in Nat
    BY FS_Subset, FS_CardinalityType, LogAssumption
  <2> QED
    BY <2>1 DEF Orders
<1>2. /\ DOMAIN entries = 1..(Len(order) + 1)
      /\ entries[1] = first
      /\ \A i \in 1..Len(order) : entries[i + 1] = rest[i]
  <2>1. entries = <<first>> \o rest
    BY DEF RollbackEntries
  <2>2. rest \in Seq({rest[i] : i \in 1..Len(order)}) /\ Len(rest) = Len(order) /\ Len(order) \in Nat
    BY <1>1
  <2> HIDE DEF first, rest
  <2> QED
    BY <2>1, <2>2
<1>3. first.event = "Rollback" /\ \A i \in 1..Len(order) : rest[i].event = "Invalidate" /\ rest[i].id = order[i]
  OBVIOUS
<1> HIDE DEF first, rest, entries
<1>4. ASSUME NEW d \in S PROVE \E i \in DOMAIN entries : entries[i].event = "Invalidate" /\ entries[i].id = d
  <2>1. PICK i \in 1..Len(order) : order[i] = d
    BY OrdersListAll
  <2>2. i + 1 \in DOMAIN entries /\ entries[i + 1].event = "Invalidate" /\ entries[i + 1].id = d
    BY <1>1, <1>2, <1>3, <2>1
  <2> QED
    BY <2>2
<1>5. ASSUME NEW i \in DOMAIN entries, entries[i].event = "Invalidate" PROVE entries[i].id \in S
  <2>1. i # 1
    BY <1>2, <1>3, <1>5
  <2>2. i - 1 \in 1..Len(order) /\ entries[i] = rest[i - 1]
    <3>1. i \in 1..(Len(order) + 1) /\ Len(order) \in Nat
      BY <1>1, <1>2
    <3>2. i - 1 \in 1..Len(order) /\ (i - 1) + 1 = i
      BY <2>1, <3>1
    <3> QED
      BY <1>2, <3>2
  <2> QED
    BY <1>1, <1>3, <2>2
<1> QED
  BY <1>4, <1>5 DEF entries

-----------------------------------------------------------------------------
\* An entry that is no status leaves every record in agreement; one that is
\* has to agree with the memory as the step leaves it.
LEMMA WriteKeepsStatus ==
    ASSUME TypeOK, TypeOK', StatusInv, NEW event \in Event, NEW id \in Id, NEW payload,
           Write(event, id, payload),
           event = "Insert" => store'[id] = "active",
           event = "Invalidate" => store'[id] = "invalidated",
           \A r \in Id : id # r \/ event \notin {"Insert", "Invalidate"} =>
               /\ store'[r] = store[r]
               /\ Announced(r) => Announced(r)',
           cutRollback' = cutRollback, PendingIsDone'
    PROVE  StatusInv'
<1> SUFFICES ASSUME NEW r \in Id PROVE Agrees(r)' /\ HasLast(r)'
  BY DEF StatusInv
<1>1. HasLast(r) /\ Agrees(r)
  BY DEF StatusInv
<1>2. /\ HasLast(r)'
      /\ id = r /\ event = "Insert" => StatusIn(log', r) = "active"
      /\ id = r /\ event = "Invalidate" => StatusIn(log', r) = "invalidated"
      /\ id # r \/ event \notin {"Insert", "Invalidate"} => StatusIn(log', r) = StatusIn(log, r)
  BY <1>1, StatusAfterWrite
<1>3. CASE id = r /\ event \in {"Insert", "Invalidate"}
  BY <1>2, <1>3 DEF Agrees
<1>4. CASE id # r \/ event \notin {"Insert", "Invalidate"}
  BY <1>1, <1>2, <1>4 DEF Agrees
<1> QED
  BY <1>2, <1>3, <1>4

\* What the log gives as status and what memory holds, step by step.
LEMMA NextStatus == TypeOK /\ TypeOK' /\ LogInv /\ StatusInv /\ [Next]_vars => StatusInv'
<1> SUFFICES ASSUME TypeOK, TypeOK', LogInv, StatusInv, [Next]_vars PROVE StatusInv'
  OBVIOUS
<1>a. ASSUME log' = log, store' = store, pending' = pending, cutRollback' = cutRollback, open => open'
      PROVE  StatusInv'
  BY <1>a DEF StatusInv, PendingIsDone, Agrees, HasLast, Announced
<1>b. ASSUME log' = log, store' = [r \in Id |-> "absent"], pending' = <<>>
      PROVE  StatusInv'
  <2>1. DOMAIN pending' = {}
    BY <1>b, EmptySequence
  <2> QED
    BY <1>b, <2>1 DEF StatusInv, PendingIsDone, Agrees, HasLast
<1>p. ASSUME pending = <<>> PROVE DOMAIN pending = {}
  BY <1>p, EmptySequence
<1>1. CASE Create \/ CreateCut
  BY <1>1, <1>a DEF Create, CreateCut
<1>2. CASE Reopen
  <2>1. pending = <<>>
    BY <1>2 DEF Reopen, StatusInv, PendingIsDone
  <2> QED
    BY <1>2, <1>b, <2>1 DEF Reopen, ReplayedStore
<1>3. CASE Close \/ DieWriting
  BY <1>3, <1>b DEF Close, DieWriting, Forgotten
<1>4. ASSUME NEW r \in Id, Commit(r) PROVE StatusInv'
  <2>1. Write("Insert", r, <<r>>) /\ "Insert" \in Event
    BY <1>4 DEF Commit, Event
  <2>2. store'[r] = "active" /\ \A x \in Id : x # r => store'[x] = store[x]
    BY <1>4 DEF Commit, Upserted, TypeOK
  <2>3. open' /\ pending' = pending /\ cutRollback' = cutRollback /\ DOMAIN pending = {}
    BY <1>4, <1>p DEF Commit, Idle
  <2>4. PendingIsDone' /\ \A x \in Id : Announced(x) => Announced(x)'
    BY <2>3 DEF PendingIsDone, Announced
  <2> QED
    BY <2>1, <2>2, <2>3, <2>4, WriteKeepsStatus
<1>5. ASSUME NEW event \in {"AddEdge", "RecordMetric"}, NEW id \in Id, NEW payload,
             Write(event, id, payload), UNCHANGED <<open, store, pending, cutRollback>>
      PROVE  StatusInv'
  <2>1. PendingIsDone' /\ \A x \in Id : Announced(x) => Announced(x)'
    BY <1>5 DEF StatusInv, PendingIsDone, Announced
  <2>2. event \in Event /\ event \notin {"Insert", "Invalidate"}
    BY DEF Event
  <2> QED
    BY <1>5, <2>1, <2>2, WriteKeepsStatus
<1>6. ASSUME NEW r \in Id, RecordMetric(r) PROVE StatusInv'
  BY <1>5, <1>6 DEF RecordMetric
<1>7. ASSUME NEW r \in Id, CommitFails(r) \/ RecordMetricFails(r) PROVE StatusInv'
  BY <1>7, <1>a DEF CommitFails, RecordMetricFails, WriteFails
<1>8. ASSUME NEW r \in Id, Rollback(r) PROVE StatusInv'
  <2> DEFINE hit == {d \in TransitiveDependents(r) \cup {r} : store[d] # "absent"}
  <2>1. hit \in SUBSET Id
    BY DEF TransitiveDependents
  <2>2. PICK order \in Orders(r, hit) : pending' = RollbackEntries(r, order)
    BY <1>8 DEF Rollback
  <2>3. /\ store' = [d \in Id |-> IF d \in hit THEN "invalidated" ELSE store[d]]
        /\ log' = log /\ cutRollback' = cutRollback /\ open' /\ DOMAIN pending = {}
    BY <1>8, <1>p DEF Rollback, Idle
  <2> HIDE DEF hit
  <2>4. /\ \A d \in hit : \E i \in DOMAIN pending' : pending'[i].event = "Invalidate" /\ pending'[i].id = d
        /\ \A i \in DOMAIN pending' : pending'[i].event = "Invalidate" => pending'[i].id \in hit
    BY <2>1, <2>2, EntriesOfRollback
  <2>5. PendingIsDone'
    BY <2>1, <2>3, <2>4 DEF PendingIsDone
  <2>6. ASSUME NEW d \in Id PROVE Agrees(d)' /\ HasLast(d)'
    <3>1. HasLast(d)' /\ Agrees(d)
      BY <2>3 DEF StatusInv, HasLast
    <3>2. CASE d \in hit
      <4>1. store'[d] = "invalidated" /\ Announced(d)'
        BY <2>3, <2>4, <3>2 DEF Announced
      <4> QED
        BY <3>1, <4>1 DEF Agrees
    <3>3. CASE d \notin hit
      <4>1. store'[d] = store[d] /\ ~Announced(d)
        BY <2>3, <3>3 DEF Announced
      <4> QED
        BY <2>3, <3>1, <4>1 DEF Agrees
    <3> QED
      BY <3>1, <3>2, <3>3
  <2> QED
    BY <2>5, <2>6 DEF StatusInv
<1>9. ASSUME NEW from \in Id, NEW to \in Id, NEW type \in EdgeType, AddEdge(from, to, type)
      PROVE  StatusInv'
  BY <1>5, <1>9 DEF AddEdge
<1>10. ASSUME NEW from \in Id, NEW to \in Id, NEW type \in EdgeType, AddEdgeFails(from, to, type)
       PROVE  StatusInv'
  BY <1>10, <1>a DEF AddEdgeFails, WriteFails
<1>11. CASE RollbackLogs
  <2> DEFINE Item == [event : {"Rollback", "Invalidate"}, id : Id, payload : Payload]
             e == pending[1]
             n == Len(pending)
  <2>1. /\ e.event \in {"Rollback", "Invalidate"} /\ e.id \in Id
        /\ n \in Nat /\ n # 0 /\ DOMAIN pending = 1..n
        /\ DOMAIN pending' = 1..(n - 1) /\ \A i \in 1..(n - 1) : pending'[i] = pending[i + 1]
    <3>1. pending \in Seq(Item) /\ pending # <<>> /\ pending' = Tail(pending)
      BY <1>11 DEF RollbackLogs, TypeOK
    <3>2. /\ e \in Item /\ n \in Nat /\ n # 0 /\ DOMAIN pending = 1..n
          /\ DOMAIN pending' = 1..(n - 1) /\ \A i \in 1..(n - 1) : pending'[i] = pending[i + 1]
      <4> HIDE DEF Item
      <4> QED
        BY <3>1
    <3> QED
      BY <3>2
  <2>2. Write(e.event, e.id, e.payload) /\ UNCHANGED <<store, cutRollback>>
    BY <1>11 DEF RollbackLogs
  <2>3. PendingIsDone'
    <3> SUFFICES ASSUME NEW i \in 1..(n - 1), pending'[i].event = "Invalidate"
                 PROVE  store'[pending'[i].id] = "invalidated"
      BY <1>11, <2>1 DEF PendingIsDone, RollbackLogs
    <3>1. i + 1 \in DOMAIN pending /\ pending'[i] = pending[i + 1]
      BY <2>1
    <3> QED
      BY <2>2, <3>1 DEF StatusInv, PendingIsDone
  <2>4. ASSUME NEW r \in Id, e.id # r \/ e.event \notin {"Insert", "Invalidate"}, Announced(r)
        PROVE  Announced(r)'
    <3>1. PICK i \in 1..n : pending[i].event = "Invalidate" /\ pending[i].id = r
      BY <2>1, <2>4 DEF Announced
    <3>2. i # 1
      BY <2>4, <3>1
    <3>3. i - 1 \in 1..(n - 1) /\ (i - 1) + 1 = i
      BY <2>1, <3>2
    <3>4. pending'[i - 1] = pending[i]
      BY <2>1, <3>3
    <3> QED
      BY <2>1, <3>1, <3>3, <3>4 DEF Announced
  <2>5. e.event \in Event /\ e.event # "Insert"
    BY <2>1 DEF Event
  <2>6. e.event = "Invalidate" => store'[e.id] = "invalidated"
    BY <2>1, <2>2 DEF StatusInv, PendingIsDone
  <2> HIDE DEF e
  <2> QED
    BY <2>1, <2>2, <2>3, <2>4, <2>5, <2>6, WriteKeepsStatus
<1>12. CASE RollbackFails
  <2>1. log' = log /\ store' = store /\ cutRollback' = TRUE /\ DOMAIN pending' = {} /\ pending' = <<>>
    BY <1>12, EmptySequence DEF RollbackFails, WriteFails
  <2> QED
    BY <2>1 DEF StatusInv, PendingIsDone, Agrees, HasLast
<1>13. CASE UNCHANGED vars
  BY <1>13, <1>a DEF vars
<1> QED
  BY <1>1, <1>2, <1>3, <1>4, <1>6, <1>7, <1>8, <1>9, <1>10, <1>11, <1>12, <1>13 DEF Next

\* A record in memory has the status of its last entry in the log, or its
\* Invalidate entry is still to come; only a rollback given up breaks this.
THEOREM StatusFollowsLog == Spec => []StatusIsLogged
<1>1. Init => StatusInv
  <2> SUFFICES ASSUME Init PROVE StatusInv
    OBVIOUS
  <2>1. DOMAIN log = {} /\ DOMAIN pending = {}
    BY EmptySequence DEF Init
  <2> QED
    BY <2>1 DEF Init, StatusInv, PendingIsDone, Agrees, HasLast, OwnEntries
<1>2. StatusInv => StatusIsLogged
  <2> SUFFICES ASSUME StatusInv, NEW r \in Id
               PROVE  /\ store[r] = "active" => LoggedStatus(r) = "active"
                      /\ store[r] = "invalidated" => \/ LoggedStatus(r) = "invalidated"
                                                     \/ cutRollback \/ Announced(r)
    BY DEF StatusIsLogged, Announced
  <2>1. LoggedStatus(r) = StatusIn(log, r)
    BY DEF LoggedStatus, StatusIn, OwnEntries
  <2> QED
    BY <2>1 DEF StatusInv, Agrees
<1> QED
  BY <1>1, <1>2, NextStatus, LogTypeCorrect, LogInvariant, PTL DEF Spec
=============================================================================
