------------------------- MODULE GovernanceTrailProofs -------------------------
(***************************************************************************)
(* What GovernanceTrail keeps true, for any number of processes, branches, *)
(* records, entries and events, each of which may die between any two of   *)
(* its steps.  A step changes the job of one process and the files of one  *)
(* part of the trail; so JobInv, of the jobs, comes first, and AuditInv,   *)
(* LedgerInv and VaultInv, one for each part, are kept apart from each     *)
(* other.                                                                  *)
(***************************************************************************)
EXTENDS GovernanceTrail, FiniteSetTheorems, TLAPS

-----------------------------------------------------------------------------
(* What each process is in the middle of.                                  *)

JobInv == /\ job = [p \in Proc |-> job[p]]
          /\ \A p \in Proc : job[p].at \in {"link", "insert", "copy", "merge"} => job[p].branch \in Branch

Step(p) == \/ VaultStep(p) /\ UNCHANGED ledgerVars
           \/ AddStep(p) /\ UNCHANGED <<rows, begun, vaultVars>>
           \/ (FindPrevious(p) \/ InsertEvent(p) \/ Dies(p)) /\ UNCHANGED <<rows, begun, vaultVars, ledgerVars>>

\* Every step is one of a process, or none.
LEMMA StepsOfProcesses ==
    ASSUME [Next]_vars
    PROVE  (\E p \in Proc : Step(p)) \/ UNCHANGED vars
BY DEF Next, Step

\* A process changes its own job only.
LEMMA OwnJob ==
    ASSUME JobInv, NEW p \in Proc, NEW j, job' = [job EXCEPT ![p] = j]
    PROVE  /\ job' = [q \in Proc |-> job'[q]]
           /\ job'[p] = j
           /\ \A q \in Proc \ {p} : job'[q] = job[q]
BY DEF JobInv

\* What an operation of the store leaves a process with.
LEMMA StoreJobs ==
    ASSUME JobInv, NEW p \in Proc, StoreStep(p, work.ids)
    PROVE  /\ UNCHANGED <<events, crossed>>
           /\ job' = [q \in Proc |-> job'[q]]
           /\ \A q \in Proc \ {p} : job'[q] = job[q]
           /\ \/ job'[p] = job[p]
              \/ job'[p].at \in {"link", "copy", "merge"} /\ job'[p].branch \in Branch
<1> DEFINE Goal == /\ UNCHANGED <<events, crossed>>
                   /\ job' = [q \in Proc |-> job'[q]]
                   /\ \A q \in Proc \ {p} : job'[q] = job[q]
                   /\ \/ job'[p] = job[p]
                      \/ job'[p].at \in {"link", "copy", "merge"} /\ job'[p].branch \in Branch
<1>1. ASSUME NEW b \in Branch, NEW i, NEW d, upsert(p, b, i, d) PROVE Goal
  BY <1>1 DEF upsert, auditVars, JobInv
<1>2. ASSUME NEW b \in Branch, NEW i, delete(p, b, i) PROVE Goal
  BY <1>2 DEF delete, auditVars, JobInv
<1>3. ASSUME NEW b \in Branch, job' = [job EXCEPT ![p] = LinkJob(b)], UNCHANGED <<events, crossed>>
      PROVE  Goal
  <2>1. LinkJob(b).at = "link" /\ LinkJob(b).branch = b
    BY DEF LinkJob
  <2> HIDE DEF LinkJob
  <2> QED
    BY <1>3, <2>1, OwnJob
<1>4. ASSUME NEW b \in Branch, append_audit_event(p, b) \/ delete_branch(p, b) PROVE Goal
  BY <1>3, <1>4 DEF append_audit_event, delete_branch
<1>5. ASSUME NEW b \in Branch, NEW from \in Branch, create_branch(p, b, from) PROVE Goal
  <2> DEFINE j == [at |-> "copy", branch |-> b, from |-> from]
  <2>1. job' = [job EXCEPT ![p] = j] /\ j.at = "copy" /\ j.branch = b /\ UNCHANGED <<events, crossed>>
    BY <1>5 DEF create_branch
  <2> HIDE DEF j
  <2> QED
    BY <2>1, OwnJob
<1>6. ASSUME NEW s \in Branch, NEW t \in Branch, NEW strategy \in Strategies, merge_branch(p, s, t, strategy)
      PROVE  Goal
  <2> DEFINE j == [at |-> "merge", source |-> s, branch |-> t, strategy |-> strategy,
                   conflicts |-> detect_merge_conflicts(s, t)]
  <2>1. job' = [job EXCEPT ![p] = j] /\ j.at = "merge" /\ j.branch = t /\ UNCHANGED <<events, crossed>>
    BY <1>6 DEF merge_branch
  <2> HIDE DEF j
  <2> QED
    BY <2>1, OwnJob
<1>7. ASSUME CopyBranch(p) \/ ApplyMerge(p) PROVE Goal
  <2>1. job[p].branch \in Branch
    BY <1>7 DEF CopyBranch, ApplyMerge, JobInv
  <2> QED
    BY <1>3, <1>7, <2>1 DEF CopyBranch, ApplyMerge
<1>8. Goal
  <2> HIDE DEF Goal
  <2> QED
    BY <1>1, <1>2, <1>4, <1>5, <1>6, <1>7 DEF StoreStep
<1> QED
  BY <1>8

\* What an entry of the ledger does with the job.
LEMMA AddJobs ==
    ASSUME JobInv, NEW p \in Proc, AddStep(p)
    PROVE  /\ UNCHANGED <<events, crossed>>
           /\ job' = [q \in Proc |-> job'[q]]
           /\ \A q \in Proc \ {p} : job'[q] = job[q]
           /\ \/ job'[p].at \in {"hashed", "read", "replaced"}
              \/ job'[p].at = "link" /\ job'[p].branch \in Branch
<1> DEFINE Goal == /\ UNCHANGED <<events, crossed>>
                   /\ job' = [q \in Proc |-> job'[q]]
                   /\ \A q \in Proc \ {p} : job'[q] = job[q]
                   /\ \/ job'[p].at \in {"hashed", "read", "replaced"}
                      \/ job'[p].at = "link" /\ job'[p].branch \in Branch
<1>1. ASSUME NEW j, job' = [job EXCEPT ![p] = j], j.at \in {"hashed", "read", "replaced"},
             UNCHANGED <<events, crossed>>
      PROVE  Goal
  BY <1>1, OwnJob
<1>2. CASE add_entry(p)
  BY <1>1, <1>2 DEF add_entry
<1>3. CASE AppendRead(p)
  BY <1>1, <1>3 DEF AppendRead
<1>4. CASE AppendReplace(p)
  BY <1>1, <1>4 DEF AppendReplace
<1>5. CASE ChainAppend(p)
  <2>1. LinkJob(LedgerBranch).at = "link" /\ LinkJob(LedgerBranch).branch \in Branch
    BY LedgerAssumption DEF LinkJob
  <2>2. job' = [job EXCEPT ![p] = LinkJob(LedgerBranch)] /\ UNCHANGED <<events, crossed>>
    BY <1>5 DEF ChainAppend
  <2> HIDE DEF LinkJob
  <2> QED
    BY <2>1, <2>2, OwnJob
<1> QED
  BY <1>2, <1>3, <1>4, <1>5 DEF AddStep

\* What a seal does with the job.
LEMMA SealJobs ==
    ASSUME JobInv, NEW p \in Proc, SealLoad(p) \/ SealWrite(p)
    PROVE  /\ UNCHANGED <<events, crossed>>
           /\ job' = [q \in Proc |-> job'[q]]
           /\ \A q \in Proc \ {p} : job'[q] = job[q]
           /\ job'[p].at \in {"sealing", "idle"}
<1>1. CASE SealLoad(p)
  <2>1. PICK view : job' = [job EXCEPT ![p] = [at |-> "sealing", view |-> view, hash |-> begun']]
    BY <1>1 DEF SealLoad
  <2> DEFINE j == [at |-> "sealing", view |-> view, hash |-> begun']
  <2>2. job' = [job EXCEPT ![p] = j] /\ j.at = "sealing" /\ UNCHANGED <<events, crossed>>
    BY <1>1, <2>1 DEF SealLoad
  <2> HIDE DEF j
  <2> QED
    BY <2>2, OwnJob
<1>2. CASE SealWrite(p)
  <2>1. job' = [job EXCEPT ![p] = Idle] /\ Idle.at = "idle" /\ UNCHANGED <<events, crossed>>
    BY <1>2 DEF SealWrite, Idle
  <2> QED
    BY <2>1, OwnJob
<1> QED
  BY <1>1, <1>2

\* What an append to the audit log does with the job.
LEMMA AuditJobs ==
    ASSUME JobInv, NEW p \in Proc, FindPrevious(p) \/ InsertEvent(p) \/ Dies(p)
    PROVE  /\ job' = [q \in Proc |-> job'[q]]
           /\ \A q \in Proc \ {p} : job'[q] = job[q]
           /\ FindPrevious(p) => /\ job[p].at = "link"
                                 /\ job'[p] = InsertJob(job[p].branch, LastOn(job[p].branch))
           /\ ~FindPrevious(p) => job'[p] = Idle
<1>1. CASE FindPrevious(p)
  BY <1>1, OwnJob DEF FindPrevious
<1>2. CASE ~FindPrevious(p)
  BY <1>2, OwnJob DEF InsertEvent, Dies
<1> QED
  BY <1>1, <1>2

LEMMA NextJob == JobInv /\ [Next]_vars => JobInv'
<1> SUFFICES ASSUME JobInv, [Next]_vars PROVE JobInv'
  OBVIOUS
<1>1. ASSUME NEW p \in Proc,
             job' = [q \in Proc |-> job'[q]], \A q \in Proc \ {p} : job'[q] = job[q],
             \/ job'[p] = job[p]
             \/ job'[p].at \in {"link", "insert", "copy", "merge"} => job'[p].branch \in Branch
      PROVE  JobInv'
  BY <1>1 DEF JobInv
<1>2. ASSUME NEW p \in Proc, VaultStep(p) PROVE JobInv'
  <2>1. CASE StoreStep(p, work.ids)
    BY <1>1, <2>1, StoreJobs
  <2>2. CASE SealLoad(p) \/ SealWrite(p)
    BY <1>1, <2>2, SealJobs
  <2> QED
    BY <1>2, <2>1, <2>2 DEF VaultStep, Otherwise
<1>3. ASSUME NEW p \in Proc, AddStep(p) PROVE JobInv'
  BY <1>1, <1>3, AddJobs
<1>4. ASSUME NEW p \in Proc, FindPrevious(p) \/ InsertEvent(p) \/ Dies(p) PROVE JobInv'
  <2>1. InsertJob(job[p].branch, LastOn(job[p].branch)).branch = job[p].branch /\ Idle.at = "idle"
    BY DEF InsertJob, Idle
  <2>2. job[p].at = "link" => job[p].branch \in Branch
    BY DEF JobInv
  <2> QED
    BY <1>1, <1>4, <2>1, <2>2, AuditJobs
<1>5. CASE UNCHANGED vars
  BY <1>5 DEF vars, auditVars, JobInv
<1> QED
  BY <1>2, <1>3, <1>4, <1>5, StepsOfProcesses DEF Step

-----------------------------------------------------------------------------
(* The audit log.                                                          *)

\* An event links to an earlier one of its branch, or to none.
LinksBack(n) == /\ events[n].prev < n
                /\ events[n].prev # 0 => events[events[n].prev].branch = events[n].branch

HasLast(b) == On(b) # {} => \E n \in On(b) : \A m \in On(b) : m <= n

\* Without overlap, nothing of the branch lies between an event and its link.
NothingSkippedOn(b) == \A m, n \in On(b) : m < n => m <= events[n].prev

\* What an append in progress goes by.
LinkIsOld(p) == /\ job[p].prev \in 0..Len(events)
                /\ job[p].prev # 0 => events[job[p].prev].branch = job[p].branch

LinkIsLast(p) == /\ \A m \in On(job[p].branch) : m <= job[p].prev
                 /\ \A q \in Inserting(job[p].branch) : q = p

\* Up to event n every event links to the one before it.
StraightTo(n) == \A m \in 1..n : events[m].prev = m - 1

UniqueTo(n) == \A i, j \in 1..n : events[i].prev = events[j].prev => i = j

AuditInv ==
    /\ events \in Seq(Event)
    /\ \A n \in DOMAIN events : /\ LinksBack(n)
                                /\ StraightTo(n) => \A m \in 1..n : events[m].branch = events[1].branch
                                /\ UniqueTo(n) => StraightTo(n)
    /\ \A b \in Branch : HasLast(b) /\ (b \notin crossed => NothingSkippedOn(b))
    /\ \A p \in Proc : job[p].at = "insert" => /\ LinkIsOld(p)
                                               /\ job[p].branch \notin crossed => LinkIsLast(p)

\* LastOn is the last event of the branch, if there is one.
LEMMA LastOnFacts ==
    ASSUME NEW b, HasLast(b), events \in Seq(Event)
    PROVE  /\ On(b) = {} => LastOn(b) = 0
           /\ On(b) # {} => LastOn(b) \in On(b)
           /\ \A m \in On(b) : m <= LastOn(b)
<1>1. CASE On(b) = {}
  BY <1>1 DEF LastOn
<1>2. CASE On(b) # {}
  <2>1. On(b) \subseteq Nat
    BY DEF On
  <2>2. PICK n \in On(b) : \A m \in On(b) : n >= m
    BY <1>2, <2>1 DEF HasLast
  <2>3. Max(On(b)) \in On(b) /\ \A m \in On(b) : Max(On(b)) >= m
    BY <2>2 DEF Max
  <2> QED
    BY <1>2, <2>1, <2>3 DEF LastOn
<1> QED
  BY <1>1, <1>2

\* Who changes neither the log nor an append in progress keeps all of it.
LEMMA AuditQuiet ==
    ASSUME AuditInv, UNCHANGED <<events, crossed>>,
           \A p \in Proc : job'[p].at = "insert" => job'[p] = job[p]
    PROVE  AuditInv'
<1>1. \A b : On(b)' = On(b) /\ Inserting(b)' \subseteq Inserting(b)
  BY DEF On, Inserting
<1>2. \A n : LinksBack(n)' = LinksBack(n) /\ StraightTo(n)' = StraightTo(n) /\ UniqueTo(n)' = UniqueTo(n)
  BY DEF LinksBack, StraightTo, UniqueTo
<1>3. \A b : HasLast(b)' = HasLast(b) /\ NothingSkippedOn(b)' = NothingSkippedOn(b)
  BY <1>1 DEF HasLast, NothingSkippedOn
<1>4. ASSUME NEW p \in Proc, job'[p].at = "insert"
      PROVE  /\ job[p].at = "insert" /\ job'[p].branch = job[p].branch
             /\ LinkIsOld(p) => LinkIsOld(p)'
             /\ LinkIsLast(p) => LinkIsLast(p)'
  BY <1>1, <1>4 DEF LinkIsOld, LinkIsLast
<1> QED
  BY <1>2, <1>3, <1>4 DEF AuditInv

\* Looking up the last event of a branch begins an append, and finds whether it is alone.
LEMMA FindKeeps ==
    ASSUME JobInv, AuditInv, NEW p \in Proc, FindPrevious(p)
    PROVE  AuditInv'
<1>0. PICK b \in Branch : job[p].branch = b
  BY DEF FindPrevious, JobInv
<1>1. /\ job[p].at = "link" /\ events' = events
      /\ crossed' = IF Inserting(b) = {} THEN crossed ELSE crossed \cup {b}
  BY <1>0 DEF FindPrevious, JobInv
<1>2. /\ job'[p].at = "insert" /\ job'[p].branch = b /\ job'[p].prev = LastOn(b)
      /\ \A q \in Proc \ {p} : job'[q] = job[q]
  <2>1. job'[p] = InsertJob(b, LastOn(b)) /\ \A q \in Proc \ {p} : job'[q] = job[q]
    BY <1>0, AuditJobs
  <2> QED
    BY <2>1 DEF InsertJob
<1>3. \A c : On(c)' = On(c)
  BY <1>1 DEF On
<1>4. \A n : LinksBack(n)' = LinksBack(n) /\ StraightTo(n)' = StraightTo(n) /\ UniqueTo(n)' = UniqueTo(n)
  BY <1>1 DEF LinksBack, StraightTo, UniqueTo
<1>5. \A c : HasLast(c)' = HasLast(c) /\ NothingSkippedOn(c)' = NothingSkippedOn(c)
  BY <1>1, <1>3 DEF HasLast, NothingSkippedOn
<1>6. HasLast(b) /\ events \in Seq(Event)
  BY <1>1 DEF AuditInv
<1>7. LinkIsOld(p)'
  <2>1. LastOn(b) # 0 => LastOn(b) \in On(b)
    BY <1>6, LastOnFacts
  <2>2. LastOn(b) \in On(b) => LastOn(b) \in 0..Len(events) /\ events[LastOn(b)].branch = b
    BY DEF On, AuditInv
  <2>3. LastOn(b) \in 0..Len(events)
    BY <2>1, <2>2 DEF AuditInv
  <2> QED
    BY <1>1, <1>2, <2>1, <2>2, <2>3 DEF LinkIsOld
<1>8. b \notin crossed' => LinkIsLast(p)'
  <2>1. \A m \in On(b) : m <= LastOn(b)
    BY <1>6, LastOnFacts
  <2>2. ASSUME b \notin crossed' PROVE \A q \in Inserting(b)' : q = p
    BY <1>1, <1>2, <2>2 DEF Inserting
  <2> QED
    BY <1>2, <1>3, <2>1, <2>2 DEF LinkIsLast
<1>9. ASSUME NEW q \in Proc \ {p}, job[q].at = "insert"
      PROVE  LinkIsOld(q)' /\ (job[q].branch \notin crossed' => LinkIsLast(q)')
  <2>1. LinkIsOld(q)'
    BY <1>1, <1>2, <1>9 DEF LinkIsOld, AuditInv
  <2>2. ASSUME job[q].branch \notin crossed' PROVE LinkIsLast(q)'
    <3>0. PICK c : c = job[q].branch
      OBVIOUS
    <3>1. c # b /\ c \notin crossed
      BY <1>1, <1>9, <2>2, <3>0 DEF Inserting
    <3>2. LinkIsLast(q)
      BY <1>9, <3>0, <3>1 DEF AuditInv
    <3>3. Inserting(c)' \subseteq Inserting(c)
      BY <1>2, <3>1 DEF Inserting
    <3> QED
      BY <1>2, <1>3, <3>0, <3>2, <3>3 DEF LinkIsLast
  <2> QED
    BY <2>1, <2>2
<1>10. \A c \in Branch : c \notin crossed' => c \notin crossed
  BY <1>1
<1> QED
  BY <1>1, <1>2, <1>4, <1>5, <1>7, <1>8, <1>9, <1>10 DEF AuditInv

\* The event that is inserted links to the last of its branch, if nobody was faster.
LEMMA InsertKeeps ==
    ASSUME JobInv, AuditInv, NEW p \in Proc, InsertEvent(p)
    PROVE  AuditInv'
<1>a. PICK b \in Branch : job[p].branch = b
  BY DEF InsertEvent, JobInv
<1>b. PICK n \in Nat : n = Len(events)
  BY DEF AuditInv
<1> DEFINE e == [branch |-> b, prev |-> job[p].prev]
<1>1. /\ job[p].at = "insert" /\ crossed' = crossed
      /\ events' = Append(events, e) /\ events \in Seq(Event) /\ n = Len(events)
      /\ LinkIsOld(p) /\ (b \notin crossed => LinkIsLast(p)) /\ b = job[p].branch
  BY <1>a, <1>b DEF InsertEvent, AuditInv
<1>2. e \in Event /\ e.branch = b /\ e.prev = job[p].prev /\ e.prev \in 0..n
  BY <1>1 DEF Event, LinkIsOld
<1>3. job'[p].at = "idle" /\ \A q \in Proc \ {p} : job'[q] = job[q]
  BY AuditJobs DEF InsertEvent, FindPrevious, Idle
<1> HIDE DEF e
<1>4. /\ events' \in Seq(Event) /\ DOMAIN events = 1..n /\ DOMAIN events' = 1..(n + 1)
      /\ Len(events') = n + 1
      /\ events'[n + 1] = e /\ \A m \in 1..n : events'[m] = events[m]
  BY <1>1, <1>2
<1>5. \A c : On(c)' = IF c = b THEN On(c) \cup {n + 1} ELSE On(c)
  BY <1>1, <1>2, <1>4 DEF On
<1>6. ASSUME NEW c \in Branch
      PROVE  HasLast(c)' /\ (c \notin crossed => NothingSkippedOn(c)')
  <2>0. /\ HasLast(c) /\ (c \notin crossed => NothingSkippedOn(c))
        /\ On(c) \subseteq 1..n
    BY <1>4 DEF AuditInv, On
  <2>1. HasLast(c)'
    <3>1. CASE c = b
      <4>1. n + 1 \in On(c)' /\ \A m \in On(c)' : m <= n + 1
        BY <1>1, <1>5, <2>0, <3>1
      <4> QED
        BY <4>1 DEF HasLast
    <3>2. CASE c # b
      BY <1>5, <2>0, <3>2 DEF HasLast
    <3> QED
      BY <3>1, <3>2
  <2>2. ASSUME c \notin crossed PROVE NothingSkippedOn(c)'
    <3> SUFFICES ASSUME NEW m \in On(c)', NEW k \in On(c)', m < k PROVE m <= events'[k].prev
      BY DEF NothingSkippedOn
    <3>1. CASE k = n + 1
      <4>1. m \in On(b) /\ c = b
        BY <1>1, <1>5, <2>0, <3>1
      <4>2. m <= job[p].prev
        BY <1>1, <2>2, <4>1 DEF LinkIsLast
      <4> QED
        BY <1>2, <1>4, <3>1, <4>2
    <3>2. CASE k # n + 1
      <4>1. k \in On(c) /\ k \in 1..n /\ m \in On(c)
        BY <1>1, <1>5, <2>0, <3>2
      <4> QED
        BY <1>4, <2>0, <2>2, <4>1 DEF NothingSkippedOn
    <3> QED
      BY <3>1, <3>2
  <2> QED
    BY <2>1, <2>2
<1>7. ASSUME NEW k \in 1..n
      PROVE  /\ LinksBack(k)'
             /\ StraightTo(k)' => \A m \in 1..k : events'[m].branch = events'[1].branch
             /\ UniqueTo(k)' => StraightTo(k)'
  <2>1. /\ LinksBack(k)
        /\ StraightTo(k) => \A m \in 1..k : events[m].branch = events[1].branch
        /\ UniqueTo(k) => StraightTo(k)
    BY <1>4 DEF AuditInv
  <2>2. events[k].prev \in Nat
    <3>1. events[k] \in Event
      BY <1>1, <1>4
    <3> QED
      BY <3>1 DEF Event
  <2>3. \A m \in 1..k : events'[m] = events[m]
    BY <1>1, <1>4
  <2>4. (StraightTo(k)' <=> StraightTo(k)) /\ (UniqueTo(k)' <=> UniqueTo(k))
    BY <2>3 DEF StraightTo, UniqueTo
  <2>5. LinksBack(k)'
    <3>1. events'[k] = events[k]
      BY <1>4
    <3>2. events[k].prev # 0 => events[k].prev \in 1..n
      BY <1>1, <2>1, <2>2 DEF LinksBack
    <3> QED
      BY <1>4, <2>1, <3>1, <3>2 DEF LinksBack
  <2> QED
    BY <1>1, <2>1, <2>3, <2>4, <2>5
<1>8. /\ LinksBack(n + 1)'
      /\ StraightTo(n + 1)' => \A m \in 1..(n + 1) : events'[m].branch = events'[1].branch
      /\ UniqueTo(n + 1)' => StraightTo(n + 1)'
  <2>1. LinksBack(n + 1)'
    <3>1. e.prev < n + 1
      BY <1>1, <1>2
    <3>2. e.prev # 0 => events'[e.prev].branch = b
      BY <1>1, <1>2, <1>4 DEF LinkIsOld
    <3> QED
      BY <1>2, <1>4, <3>1, <3>2 DEF LinksBack
  <2>2. ASSUME StraightTo(n + 1)', NEW m \in 1..(n + 1)
        PROVE  events'[m].branch = events'[1].branch
    <3>1. CASE n = 0
      <4>1. m = 1
        BY <3>1
      <4> QED
        BY <4>1
    <3>2. CASE n # 0
      <4>1. StraightTo(n)' /\ e.prev = n
        <5>1. \A k \in 1..n : k \in 1..(n + 1)
          BY <1>1
        <5>2. events'[n + 1].prev = (n + 1) - 1
          BY <1>1, <2>2 DEF StraightTo
        <5> QED
          BY <1>1, <1>4, <2>2, <5>1, <5>2 DEF StraightTo
      <4>2. \A k \in 1..n : events'[k].branch = events'[1].branch
        BY <1>1, <1>7, <3>2, <4>1
      <4>3. events[n].branch = b /\ n \in 1..n
        BY <1>1, <1>2, <3>2, <4>1 DEF LinkIsOld
      <4>4. events'[n + 1].branch = events'[n].branch
        BY <1>2, <1>4, <4>3
      <4> QED
        BY <1>1, <4>2, <4>3, <4>4
    <3> QED
      BY <3>1, <3>2
  <2>3. ASSUME UniqueTo(n + 1)' PROVE StraightTo(n + 1)'
    <3>1. CASE n = 0
      <4>1. e.prev = 0
        BY <1>2, <3>1
      <4> QED
        BY <1>4, <3>1, <4>1 DEF StraightTo
    <3>2. CASE n # 0
      <4>1. UniqueTo(n)'
        BY <1>1, <2>3 DEF UniqueTo
      <4>2. StraightTo(n)'
        BY <1>1, <1>7, <3>2, <4>1
      <4>3. e.prev = n
        <5>1. SUFFICES ASSUME e.prev # n PROVE FALSE
          OBVIOUS
        <5>2. e.prev + 1 \in 1..n /\ e.prev + 1 # n + 1
          BY <1>1, <1>2, <5>1
        <5>3. events'[e.prev + 1].prev = (e.prev + 1) - 1
          BY <4>2, <5>2 DEF StraightTo
        <5>4. (e.prev + 1) - 1 = e.prev /\ e.prev + 1 \in 1..(n + 1) /\ n + 1 \in 1..(n + 1)
          BY <1>1, <1>2, <5>2
        <5> QED
          BY <1>4, <2>3, <5>2, <5>3, <5>4 DEF UniqueTo
      <4> SUFFICES ASSUME NEW m \in 1..(n + 1) PROVE events'[m].prev = m - 1
        BY DEF StraightTo
      <4>4. m \in 1..n \/ m = n + 1
        BY <1>1
      <4> QED
        BY <1>1, <1>4, <4>2, <4>3, <4>4 DEF StraightTo
    <3> QED
      BY <3>1, <3>2
  <2> QED
    BY <2>1, <2>2, <2>3
<1>9. ASSUME NEW q \in Proc, job'[q].at = "insert"
      PROVE  LinkIsOld(q)' /\ (job'[q].branch \notin crossed => LinkIsLast(q)')
  <2>1. q # p /\ job'[q] = job[q] /\ job[q].at = "insert"
    BY <1>3, <1>9
  <2>2. LinkIsOld(q) /\ (job[q].branch \notin crossed => LinkIsLast(q))
    BY <2>1 DEF AuditInv
  <2>3. LinkIsOld(q)'
    <3>1. job[q].prev \in 0..(n + 1) /\ (job[q].prev # 0 => job[q].prev \in 1..n)
      BY <1>1, <2>2 DEF LinkIsOld
    <3> QED
      BY <1>4, <2>1, <2>2, <3>1 DEF LinkIsOld
  <2>4. ASSUME job[q].branch \notin crossed PROVE LinkIsLast(q)'
    <3>0. PICK c : c = job[q].branch
      OBVIOUS
    <3>1. c # b
      BY <1>1, <2>1, <2>2, <2>4, <3>0 DEF LinkIsLast, Inserting
    <3>2. Inserting(c)' \subseteq Inserting(c)
      BY <1>3 DEF Inserting
    <3>3. On(c)' = On(c)
      BY <1>5, <3>1
    <3> QED
      BY <2>1, <2>2, <2>4, <3>0, <3>2, <3>3 DEF LinkIsLast
  <2> QED
    BY <2>1, <2>3, <2>4
<1>10. \A k \in 1..(n + 1) : k \in 1..n \/ k = n + 1
  BY <1>1
<1> QED
  BY <1>1, <1>4, <1>6, <1>7, <1>8, <1>9, <1>10 DEF AuditInv

LEMMA NextAudit == JobInv /\ AuditInv /\ [Next]_vars => AuditInv'
<1> SUFFICES ASSUME JobInv, AuditInv, [Next]_vars PROVE AuditInv'
  OBVIOUS
<1>1. ASSUME NEW p \in Proc, UNCHANGED <<events, crossed>>, \A q \in Proc \ {p} : job'[q] = job[q],
             job'[p] = job[p] \/ job'[p].at # "insert"
      PROVE  AuditInv'
  BY <1>1, AuditQuiet
<1>2. ASSUME NEW p \in Proc, VaultStep(p) PROVE AuditInv'
  <2>1. CASE StoreStep(p, work.ids)
    BY <1>1, <2>1, StoreJobs
  <2>2. CASE SealLoad(p) \/ SealWrite(p)
    BY <1>1, <2>2, SealJobs
  <2> QED
    BY <1>2, <2>1, <2>2 DEF VaultStep, Otherwise
<1>3. ASSUME NEW p \in Proc, AddStep(p) PROVE AuditInv'
  BY <1>1, <1>3, AddJobs
<1>4. ASSUME NEW p \in Proc, Dies(p) PROVE AuditInv'
  <2>1. UNCHANGED <<events, crossed>> /\ job'[p] = Idle /\ Idle.at = "idle"
    BY <1>4, OwnJob DEF Dies, Idle
  <2>2. \A q \in Proc \ {p} : job'[q] = job[q]
    BY <1>4, AuditJobs
  <2> QED
    BY <1>1, <2>1, <2>2
<1>5. CASE UNCHANGED vars
  BY <1>5, AuditQuiet DEF vars, auditVars
<1> QED
  BY <1>2, <1>3, <1>4, <1>5, FindKeeps, InsertKeeps, StepsOfProcesses DEF Step

LEMMA AuditInvariant == Spec => [](JobInv /\ AuditInv)
<1>1. Init => JobInv /\ AuditInv
  <2> SUFFICES ASSUME Init PROVE JobInv /\ AuditInv
    OBVIOUS
  <2>1. \A p \in Proc : job[p].at = "idle"
    BY DEF Init, StoreInit, AuditInit, Idle
  <2>2. events = <<>> /\ DOMAIN events = {} /\ events \in Seq(Event)
    BY DEF Init, StoreInit, AuditInit
  <2>3. JobInv
    BY <2>1 DEF Init, StoreInit, AuditInit, JobInv
  <2>4. \A b : On(b) = {}
    BY <2>2 DEF On
  <2> QED
    BY <2>1, <2>2, <2>3, <2>4 DEF AuditInv, HasLast, NothingSkippedOn
<1> QED
  BY <1>1, NextJob, NextAudit, PTL DEF Spec

\* A fork of a branch is never made by the code alone: it takes two appends to
\* that branch at once.
THEOREM ForksNeedOverlap == Spec => []ForkNeedsOverlap
<1>1. AuditInv => ForkNeedsOverlap
  <2> SUFFICES ASSUME AuditInv, NEW b \in Branch \ crossed, NEW n \in On(b), NEW m \in On(b),
                      m # n, events[m].prev = events[n].prev
               PROVE  FALSE
    BY DEF ForkNeedsOverlap, Forks
  <2>1. /\ m \in Nat /\ n \in Nat /\ events[m].prev < m /\ events[n].prev < n
        /\ events[n].prev \in Nat
    <3>1. events[n] \in Event
      BY DEF AuditInv, On
    <3> QED
      BY <3>1 DEF AuditInv, On, LinksBack, Event
  <2>2. /\ m < n => m <= events[n].prev
        /\ n < m => n <= events[m].prev
    BY DEF AuditInv, NothingSkippedOn
  <2> QED
    BY <2>1, <2>2
<1> QED
  BY <1>1, AuditInvariant, PTL

\* What chain_valid() says of the log: one branch, and no fork in it.
THEOREM ChainValidMeansOneLine == Spec => []ValidMeansOneLine
<1>1. AuditInv => ValidMeansOneLine
  <2> SUFFICES ASSUME AuditInv PROVE ValidMeansOneLine
    OBVIOUS
  <2> DEFINE OneBranch == \A m, n \in DOMAIN events : events[m].branch = events[n].branch
             NoForks == \A b \in Branch : Forks(b) = {}
  <2>0. /\ Len(events) \in Nat /\ DOMAIN events = 1..Len(events)
        /\ \A n \in DOMAIN events : events[n].branch \in Branch
    <3>1. events \in Seq(Event)
      BY DEF AuditInv
    <3>2. \A n \in DOMAIN events : events[n] \in Event
      BY <3>1
    <3> QED
      BY <3>1, <3>2 DEF Event
  <2>1. ASSUME chain_valid PROVE NoForks /\ OneBranch
    <3>1. \A n \in DOMAIN events : events[n].prev = n - 1
      BY <2>1 DEF chain_valid, Mismatches
    <3>2. NoForks
      BY <2>0, <3>1 DEF Forks, On
    <3>3. CASE Len(events) = 0
      BY <2>0, <3>2, <3>3
    <3>4. CASE Len(events) # 0
      <4>1. Len(events) \in DOMAIN events /\ StraightTo(Len(events))
        BY <2>0, <3>1, <3>4 DEF StraightTo
      <4>2. \A m \in DOMAIN events : events[m].branch = events[1].branch
        BY <2>0, <4>1 DEF AuditInv
      <4> QED
        BY <3>2, <4>2
    <3> QED
      BY <3>3, <3>4
  <2>2. ASSUME NoForks, OneBranch PROVE chain_valid
    <3>1. CASE Len(events) = 0
      BY <2>0, <3>1 DEF chain_valid, Mismatches
    <3>2. CASE Len(events) # 0
      <4>1. UniqueTo(Len(events))
        <5> SUFFICES ASSUME NEW i \in DOMAIN events, NEW j \in DOMAIN events, i # j,
                            events[i].prev = events[j].prev
                     PROVE  FALSE
          BY <2>0 DEF UniqueTo
        <5>1. i \in Forks(events[i].branch)
          BY <2>2 DEF Forks, On
        <5> QED
          BY <2>0, <2>2, <5>1
      <4>2. StraightTo(Len(events))
        BY <2>0, <3>2, <4>1 DEF AuditInv
      <4> QED
        BY <2>0, <4>2 DEF StraightTo, chain_valid, Mismatches
    <3> QED
      BY <3>1, <3>2
  <2> QED
    BY <2>1, <2>2 DEF ValidMeansOneLine
<1> QED
  BY <1>1, AuditInvariant, PTL

-----------------------------------------------------------------------------
(* The ledger and its chain.                                               *)

\* LedgerKept of any text of LEDGER.md, also of one that add_entry has read.
Keeps(lines) ==
    \A i, j \in DOMAIN chain : Alone(chain[i].hash) /\ Alone(chain[j].hash) =>
        \E m, n \in DOMAIN lines : /\ Places(lines, chain[i].hash) = {m}
                                   /\ Places(lines, chain[j].hash) = {n}
                                   /\ i < j => m < n

\* A text is made of entries that were begun, none of which is still unwritten,
\* and has what it must keep.
Unwritten == {p \in Proc : job[p].at \in {"hashed", "read"}}

GoodText(lines) ==
    /\ lines \in Seq(Entry)
    /\ \A n \in DOMAIN lines : lines[n].hash <= entries
    /\ \A q \in Unwritten : Places(lines, job[q].entry.hash) = {}
    /\ Keeps(lines)

\* An entry that has been alone so far goes by the last line of the chain, and
\* nobody changes what it read.
StillAlone(p) ==
    /\ Adding = {p}
    /\ job[p].entry.prev = latest_hash
    /\ job[p].at = "read" => job[p].existing = ledger
    /\ job[p].at = "replaced" => /\ ledger # <<>>
                                 /\ Places(ledger, job[p].entry.hash) = {Len(ledger)}

EntryInv(p) ==
    /\ job[p].entry \in Entry
    /\ job[p].entry.hash <= entries
    /\ \A n \in DOMAIN chain : chain[n].hash # job[p].entry.hash
    /\ \A q \in Adding : job[q].entry.hash = job[p].entry.hash => q = p
    /\ job[p].at = "read" => GoodText(job[p].existing)
    /\ Alone(job[p].entry.hash) => StillAlone(p)

LedgerInv ==
    /\ entries \in 0..MaxEntries
    /\ chain \in Seq(Entry)
    /\ \A n \in DOMAIN chain : chain[n].hash <= entries
    /\ ChainLinks
    /\ GoodText(ledger)
    /\ \A p \in Adding : EntryInv(p)

\* A step that is none of add_entry changes nothing here.
LEMMA LedgerQuiet ==
    ASSUME LedgerInv, UNCHANGED ledgerVars,
           \A p \in Proc : job'[p].at \in {"hashed", "read", "replaced"} => job'[p] = job[p]
    PROVE  LedgerInv'
<1>1. Adding' \subseteq Adding /\ Unwritten' \subseteq Unwritten /\ \A p \in Adding' : job'[p] = job[p]
  BY DEF Adding, Unwritten
<1>2. Unwritten' \subseteq Adding'
  BY DEF Adding, Unwritten
<1>3. UNCHANGED <<ledger, chain, entries, shared>>
  BY DEF ledgerVars
<1>4. \A h : Alone(h)' = Alone(h)
  BY <1>3 DEF Alone
<1>5. ASSUME NEW lines, Keeps(lines) PROVE Keeps(lines)'
  BY <1>3, <1>4, <1>5 DEF Keeps
<1>6. \A lines : GoodText(lines) => GoodText(lines)'
  BY <1>1, <1>2, <1>3, <1>5 DEF GoodText
<1>7. latest_hash' = latest_hash /\ ChainLinks' = ChainLinks
  BY <1>3, <1>4 DEF latest_hash, ChainLinks
<1>8. ASSUME NEW p \in Adding' PROVE EntryInv(p)'
  <2>1. p \in Adding /\ EntryInv(p) /\ job'[p] = job[p]
    BY <1>1 DEF LedgerInv
  <2>2. StillAlone(p) => StillAlone(p)'
    <3>1. Adding = {p} => Adding' = {p}
      BY <1>1
    <3> QED
      BY <1>3, <1>7, <2>1, <3>1 DEF StillAlone
  <2> QED
    BY <1>1, <1>3, <1>4, <1>6, <2>1, <2>2 DEF EntryInv
<1>9. GoodText(ledger)'
  <2>1. PICK lines : lines = ledger
    OBVIOUS
  <2> QED
    BY <1>3, <1>6, <2>1 DEF LedgerInv, GoodText
<1> QED
  BY <1>3, <1>7, <1>8, <1>9 DEF LedgerInv

\* The last line of the chain, without Last.
LEMMA LatestHash ==
    ASSUME chain \in Seq(Entry)
    PROVE  latest_hash \in 0..MaxEntries
<1>1. CASE chain = <<>>
  BY <1>1, LedgerAssumption DEF latest_hash
<1>2. CASE chain # <<>>
  <2>1. Last(chain) = chain[Len(chain)] /\ chain[Len(chain)] \in Entry
    BY <1>2 DEF Last
  <2> QED
    BY <1>2, <2>1 DEF latest_hash, Entry
<1> QED
  BY <1>1, <1>2

\* A new entry has a new hash, and ends the time of the others alone.
LEMMA BeginKeeps ==
    ASSUME JobInv, LedgerInv, NEW p \in Proc, add_entry(p)
    PROVE  LedgerInv'
<1> DEFINE e == [hash |-> entries', prev |-> latest_hash]
<1>1. /\ job[p] = Idle /\ entries < MaxEntries /\ entries' = entries + 1 /\ entries \in 0..MaxEntries
      /\ ledger' = ledger /\ chain' = chain
      /\ shared' = IF Adding = {} THEN shared ELSE shared \cup InProgress \cup {entries'}
  BY DEF add_entry, LedgerInv
<1>2. /\ job'[p].at = "hashed" /\ job'[p].entry = e
      /\ \A q \in Proc \ {p} : job'[q] = job[q]
  <2> DEFINE j == [at |-> "hashed", entry |-> e]
  <2>1. job' = [job EXCEPT ![p] = j] /\ j.at = "hashed" /\ j.entry = e
    BY DEF add_entry
  <2> HIDE DEF j, e
  <2> QED
    BY <2>1, OwnJob
<1>3. e \in Entry /\ e.hash = entries + 1 /\ e.prev = latest_hash
  <2>1. latest_hash \in 0..MaxEntries
    BY LatestHash DEF LedgerInv
  <2>2. entries' \in 1..MaxEntries
    BY <1>1, LedgerAssumption
  <2> QED
    BY <1>1, <2>1, <2>2 DEF Entry
<1> HIDE DEF e
<1>4. /\ p \notin Adding /\ Adding' = Adding \cup {p} /\ Unwritten' = Unwritten \cup {p}
      /\ Unwritten \subseteq Adding
  BY <1>1, <1>2 DEF Adding, Unwritten, Idle
<1>5. /\ \A q \in Adding : job[q].entry.hash \in shared'
      /\ \A h : Alone(h)' => Alone(h)
      /\ Adding # {} => e.hash \in shared'
  BY <1>1, <1>3 DEF InProgress, Alone
<1>6. \A lines : Keeps(lines) => Keeps(lines)'
  BY <1>1, <1>5 DEF Keeps
<1>7. ASSUME NEW lines, GoodText(lines) PROVE GoodText(lines)'
  <2>1. /\ lines \in Seq(Entry) /\ Keeps(lines)
        /\ \A n \in DOMAIN lines : lines[n].hash <= entries
        /\ \A q \in Unwritten : Places(lines, job[q].entry.hash) = {}
    BY <1>7 DEF GoodText
  <2>2. \A n \in DOMAIN lines : lines[n].hash \in Nat
    <3>1. \A n \in DOMAIN lines : lines[n] \in Entry
      BY <2>1
    <3> QED
      BY <3>1 DEF Entry
  <2>3. \A n \in DOMAIN lines : lines[n].hash <= entries' /\ lines[n].hash # e.hash
    BY <1>1, <1>3, <2>1, <2>2
  <2>4. \A q \in Unwritten' : Places(lines, job'[q].entry.hash) = {}
    <3>1. Places(lines, e.hash) = {}
      BY <2>3 DEF Places
    <3> QED
      BY <1>2, <1>4, <2>1, <3>1 DEF Unwritten
  <2> QED
    BY <1>6, <2>1, <2>3, <2>4 DEF GoodText
<1>8. /\ ChainLinks' /\ chain' \in Seq(Entry) /\ entries' \in 0..MaxEntries
      /\ \A n \in DOMAIN chain : chain[n].hash <= entries' /\ chain[n].hash # e.hash
  <2>1. \A n \in DOMAIN chain : chain[n].hash \in Nat
    <3>1. \A n \in DOMAIN chain : chain[n] \in Entry
      BY DEF LedgerInv
    <3> QED
      BY <3>1 DEF Entry
  <2>2. ChainLinks'
    BY <1>1, <1>5 DEF LedgerInv, ChainLinks
  <2>3. entries' \in 0..MaxEntries
    BY <1>1, LedgerAssumption
  <2>4. \A n \in DOMAIN chain : chain[n].hash <= entries
    BY DEF LedgerInv
  <2>5. \A n \in DOMAIN chain : chain[n].hash <= entries' /\ chain[n].hash # e.hash
    BY <1>1, <1>3, <2>1, <2>4
  <2> QED
    BY <1>1, <2>2, <2>3, <2>5 DEF LedgerInv
<1>9. GoodText(ledger)'
  <2>1. PICK lines : lines = ledger
    OBVIOUS
  <2> QED
    BY <1>1, <1>7, <2>1 DEF LedgerInv, GoodText
<1>10. ASSUME NEW q \in Adding PROVE EntryInv(q)'
  <2>1. EntryInv(q) /\ job'[q] = job[q] /\ q # p /\ ~Alone(job[q].entry.hash)'
    <3>1. q # p /\ job'[q] = job[q]
      BY <1>2, <1>4 DEF Adding
    <3> QED
      BY <1>5, <3>1 DEF LedgerInv, Alone
  <2>2. job[q].entry.hash \in Nat /\ job[q].entry.hash <= entries
    BY <2>1 DEF EntryInv, Entry
  <2>3. job[q].entry.hash <= entries' /\ job[q].entry.hash # e.hash
    BY <1>1, <1>3, <2>2
  <2>4. \A r \in Adding' : job'[r].entry.hash = job'[q].entry.hash => r = q
    BY <1>2, <1>4, <2>1, <2>3 DEF EntryInv, Adding
  <2>5. \A lines : job'[q].existing = lines /\ job'[q].at = "read" => GoodText(lines)'
    BY <1>7, <2>1 DEF EntryInv
  <2>6. \A n \in DOMAIN chain' : chain'[n].hash # job'[q].entry.hash
    BY <1>1, <2>1 DEF EntryInv
  <2>7. job'[q].at = "read" => GoodText(job[q].existing)'
    <3>1. PICK lines : lines = job[q].existing
      OBVIOUS
    <3> QED
      BY <2>1, <2>5, <3>1 DEF GoodText
  <2> QED
    BY <2>1, <2>3, <2>4, <2>6, <2>7 DEF EntryInv
<1>11. EntryInv(p)'
  <2>1. \A r \in Adding' : job'[r].entry.hash = e.hash => r = p
    <3>1. \A r \in Adding : job[r].entry.hash \in Nat /\ job[r].entry.hash <= entries
      BY DEF LedgerInv, EntryInv, Entry
    <3> QED
      BY <1>1, <1>2, <1>3, <1>4, <3>1 DEF Adding
  <2>2. Alone(job[p].entry.hash)' => StillAlone(p)'
    <3>1. latest_hash' = latest_hash
      BY <1>1 DEF latest_hash
    <3> QED
      BY <1>2, <1>3, <1>4, <1>5, <3>1 DEF StillAlone, Alone
  <2> QED
    BY <1>1, <1>2, <1>3, <1>8, <2>1, <2>2, LedgerAssumption DEF EntryInv
<1> QED
  BY <1>1, <1>4, <1>8, <1>9, <1>10, <1>11 DEF LedgerInv

\* The entry of p has reached the next stage, its job alone has changed.
LEMMA EntryMoves ==
    ASSUME JobInv, NEW p \in Proc, NEW e, NEW j, job' = [job EXCEPT ![p] = j],
           job[p].at \in {"hashed", "read", "replaced"}, job[p].entry = e,
           j.at \in {"hashed", "read", "replaced"}, j.entry = e
    PROVE  /\ job'[p] = j /\ \A q \in Proc \ {p} : job'[q] = job[q]
           /\ Adding' = Adding /\ p \in Adding /\ \A q \in Adding : job'[q].entry = job[q].entry
BY OwnJob DEF Adding

\* What append_file reads is the text as it is.
LEMMA ReadKeeps ==
    ASSUME JobInv, LedgerInv, NEW p \in Proc, AppendRead(p)
    PROVE  LedgerInv'
<1>0. PICK e : e = job[p].entry
  OBVIOUS
<1> DEFINE j == [at |-> "read", entry |-> e, existing |-> ledger]
<1>1. job[p].at = "hashed" /\ job' = [job EXCEPT ![p] = j] /\ UNCHANGED <<ledger, chain, entries, shared>>
  BY <1>0 DEF AppendRead, ledgerVars
<1>2. j.at = "read" /\ j.entry = e /\ j.existing = ledger
  OBVIOUS
<1> HIDE DEF j
<1>3. /\ job'[p] = j /\ \A q \in Proc \ {p} : job'[q] = job[q]
      /\ Adding' = Adding /\ p \in Adding /\ \A q \in Adding : job'[q].entry = job[q].entry
  BY <1>0, <1>1, <1>2, EntryMoves
<1>4. Unwritten' = Unwritten /\ Unwritten \subseteq Adding
  BY <1>1, <1>2, <1>3 DEF Unwritten, Adding
<1>5. \A h : Alone(h)' = Alone(h)
  BY <1>1 DEF Alone
<1>6. ASSUME NEW lines, GoodText(lines) PROVE GoodText(lines)'
  <2>0. Keeps(lines)
    BY <1>6 DEF GoodText
  <2>1. Keeps(lines)'
    BY <1>1, <1>5, <2>0 DEF Keeps
  <2> QED
    BY <1>1, <1>3, <1>4, <1>6, <2>1 DEF GoodText
<1>7. PICK lines : lines = ledger
  OBVIOUS
<1>8. GoodText(lines)' /\ GoodText(ledger)'
  BY <1>1, <1>6, <1>7 DEF LedgerInv, GoodText
<1>9. ASSUME NEW q \in Adding PROVE EntryInv(q)'
  <2>1. EntryInv(q)
    BY <1>9 DEF LedgerInv
  <2>2. job'[q].at = "read" => GoodText(job[q].existing)'
    <3>1. CASE q = p
      BY <1>1, <1>2, <1>3, <1>7, <1>8, <3>1 DEF GoodText
    <3>2. CASE q # p
      <4>1. job'[q] = job[q]
        BY <1>3, <3>2 DEF Adding
      <4>2. PICK old : old = job[q].existing
        OBVIOUS
      <4> QED
        BY <1>6, <2>1, <4>1, <4>2 DEF EntryInv, GoodText
    <3> QED
      BY <3>1, <3>2
  <2>3. StillAlone(q) => StillAlone(q)'
    <3>1. latest_hash' = latest_hash
      BY <1>1 DEF latest_hash
    <3>2. q # p => job'[q] = job[q]
      BY <1>3 DEF Adding
    <3> QED
      BY <1>1, <1>2, <1>3, <3>1, <3>2 DEF StillAlone
  <2> QED
    BY <1>1, <1>3, <1>5, <2>1, <2>2, <2>3 DEF EntryInv
<1>10. ChainLinks'
  BY <1>1, <1>5 DEF ChainLinks, LedgerInv
<1> QED
  BY <1>1, <1>3, <1>8, <1>9, <1>10 DEF LedgerInv

\* Appending an entry that no line of the chain has keeps what the text has.
LEMMA AppendedText ==
    ASSUME NEW lines \in Seq(Entry), NEW e \in Entry, NEW h
    PROVE  /\ Append(lines, e) \in Seq(Entry)
           /\ h # e.hash => Places(Append(lines, e), h) = Places(lines, h)
           /\ Places(lines, e.hash) = {} => Places(Append(lines, e), e.hash) = {Len(lines) + 1}
           /\ Append(lines, e) # <<>> /\ Len(Append(lines, e)) = Len(lines) + 1
<1>1. PICK more : more = Append(lines, e)
  OBVIOUS
<1>2. /\ more \in Seq(Entry) /\ Len(more) = Len(lines) + 1 /\ Len(lines) \in Nat
      /\ DOMAIN more = 1..(Len(lines) + 1) /\ DOMAIN lines = 1..Len(lines)
      /\ more[Len(lines) + 1] = e /\ \A n \in 1..Len(lines) : more[n] = lines[n]
  BY <1>1
<1>3. h # e.hash => Places(more, h) = Places(lines, h)
  BY <1>2 DEF Places
<1>4. Places(lines, e.hash) = {} => Places(more, e.hash) = {Len(lines) + 1}
  BY <1>2 DEF Places
<1>5. more # <<>>
  BY <1>2
<1> QED
  BY <1>1, <1>2, <1>3, <1>4, <1>5

\* An entry that was not alone may drop what was written since it read, but nothing of one that was.
LEMMA ReplaceKeeps ==
    ASSUME JobInv, LedgerInv, NEW p \in Proc, AppendReplace(p)
    PROVE  LedgerInv'
<1>0. PICK e, old, new : e = job[p].entry /\ old = job[p].existing /\ new = Append(old, e)
  OBVIOUS
<1> DEFINE j == [at |-> "replaced", entry |-> e]
<1>1. /\ job[p].at = "read" /\ job' = [job EXCEPT ![p] = j] /\ UNCHANGED <<chain, entries, shared>>
      /\ ledger' = new
  BY <1>0 DEF AppendReplace
<1>2. j.at = "replaced" /\ j.entry = e
  OBVIOUS
<1> HIDE DEF j
<1>3. /\ job'[p] = j /\ \A q \in Proc \ {p} : job'[q] = job[q]
      /\ Adding' = Adding /\ p \in Adding /\ \A q \in Adding : job'[q].entry = job[q].entry
  BY <1>0, <1>1, <1>2, EntryMoves
<1>4. Unwritten' = Unwritten \ {p} /\ p \in Unwritten /\ Unwritten \subseteq Adding
  BY <1>1, <1>2, <1>3 DEF Unwritten, Adding
<1>5. \A h : Alone(h)' = Alone(h)
  BY <1>1 DEF Alone
<1>6. ASSUME NEW lines, GoodText(lines) PROVE GoodText(lines)'
  <2>0. Keeps(lines)
    BY <1>6 DEF GoodText
  <2>1. Keeps(lines)'
    BY <1>1, <1>5, <2>0 DEF Keeps
  <2> QED
    BY <1>1, <1>3, <1>4, <1>6, <2>1 DEF GoodText
<1>7. /\ EntryInv(p) /\ GoodText(old) /\ old \in Seq(Entry) /\ e \in Entry
      /\ Places(old, e.hash) = {}
  <2>1. EntryInv(p)
    BY <1>3 DEF LedgerInv
  <2>2. GoodText(old)
    BY <1>0, <1>1, <2>1 DEF EntryInv
  <2> QED
    BY <1>0, <1>4, <2>1, <2>2 DEF EntryInv, GoodText
<1>8. /\ new \in Seq(Entry) /\ new # <<>> /\ Len(new) = Len(old) + 1
      /\ \A h : h # e.hash => Places(new, h) = Places(old, h)
      /\ Places(new, e.hash) = {Len(new)}
  BY <1>0, <1>7, AppendedText
<1>9. GoodText(new)'
  <2>1. Keeps(new)'
    <3> SUFFICES ASSUME NEW k \in DOMAIN chain, NEW l \in DOMAIN chain,
                        Alone(chain[k].hash), Alone(chain[l].hash)
                 PROVE  \E m, n \in DOMAIN new : /\ Places(new, chain[k].hash) = {m}
                                                 /\ Places(new, chain[l].hash) = {n}
                                                 /\ k < l => m < n
      BY <1>1, <1>5 DEF Keeps
    <3>1. chain[k].hash # e.hash /\ chain[l].hash # e.hash
      BY <1>0, <1>7 DEF EntryInv
    <3>2. PICK m, n \in DOMAIN old : /\ Places(old, chain[k].hash) = {m}
                                     /\ Places(old, chain[l].hash) = {n}
                                     /\ k < l => m < n
      BY <1>7 DEF GoodText, Keeps
    <3>3. m \in DOMAIN new /\ n \in DOMAIN new
      BY <1>7, <1>8
    <3> QED
      BY <1>8, <3>1, <3>2, <3>3
  <2>2. \A n \in DOMAIN new : new[n].hash <= entries'
    <3>1. e.hash <= entries /\ \A n \in DOMAIN old : old[n].hash <= entries
      BY <1>0, <1>7 DEF EntryInv, GoodText
    <3>2. \A n \in DOMAIN new : new[n] = e \/ (n \in DOMAIN old /\ new[n] = old[n])
      <4>1. /\ DOMAIN new = 1..(Len(old) + 1) /\ DOMAIN old = 1..Len(old) /\ Len(old) \in Nat
            /\ new[Len(old) + 1] = e /\ \A n \in 1..Len(old) : new[n] = old[n]
        BY <1>0, <1>7
      <4>2. \A n \in 1..(Len(old) + 1) : n = Len(old) + 1 \/ n \in 1..Len(old)
        BY <4>1
      <4> QED
        BY <4>1, <4>2
    <3> QED
      BY <1>1, <3>1, <3>2
  <2>3. \A q \in Unwritten' : Places(new, job'[q].entry.hash) = {}
    <3> SUFFICES ASSUME NEW q \in Unwritten \ {p} PROVE Places(new, job'[q].entry.hash) = {}
      BY <1>4
    <3>1. job'[q].entry = job[q].entry /\ job[q].entry.hash # e.hash
      BY <1>0, <1>3, <1>4, <1>7 DEF EntryInv
    <3>2. Places(old, job[q].entry.hash) = {}
      BY <1>7 DEF GoodText
    <3> QED
      BY <1>8, <3>1, <3>2
  <2> QED
    BY <1>8, <2>1, <2>2, <2>3 DEF GoodText
<1>10. GoodText(ledger)'
  BY <1>1, <1>9 DEF GoodText
<1>11. ASSUME NEW q \in Adding PROVE EntryInv(q)'
  <2>1. EntryInv(q)
    BY <1>11 DEF LedgerInv
  <2>2. job'[q].at = "read" => GoodText(job[q].existing)'
    <3>1. CASE q = p
      BY <1>2, <1>3, <3>1
    <3>2. CASE q # p
      <4>1. job'[q] = job[q]
        BY <1>3, <3>2 DEF Adding
      <4>2. PICK text : text = job[q].existing
        OBVIOUS
      <4> QED
        BY <1>6, <2>1, <4>1, <4>2 DEF EntryInv, GoodText
    <3> QED
      BY <3>1, <3>2
  <2>3. StillAlone(q) => StillAlone(q)'
    <3> SUFFICES ASSUME StillAlone(q) PROVE StillAlone(q)'
      OBVIOUS
    <3>1. q = p
      BY <1>3 DEF StillAlone
    <3>2. latest_hash' = latest_hash
      BY <1>1 DEF latest_hash
    <3> QED
      BY <1>0, <1>1, <1>2, <1>3, <1>8, <3>1, <3>2 DEF StillAlone
  <2> QED
    BY <1>1, <1>3, <1>5, <2>1, <2>2, <2>3 DEF EntryInv
<1>12. ChainLinks'
  BY <1>1, <1>5 DEF ChainLinks, LedgerInv
<1> QED
  BY <1>1, <1>3, <1>10, <1>11, <1>12 DEF LedgerInv

\* An entry that was alone up to here is the last line of LEDGER.md.
LEMMA ChainKeeps ==
    ASSUME JobInv, LedgerInv, NEW p \in Proc, ChainAppend(p)
    PROVE  LedgerInv'
<1>0. PICK e : e = job[p].entry
  OBVIOUS
<1>b. PICK n \in Nat : n = Len(chain)
  BY DEF LedgerInv
<1>1. /\ job[p].at = "replaced" /\ job' = [job EXCEPT ![p] = LinkJob(LedgerBranch)]
      /\ UNCHANGED <<ledger, entries, shared>>
      /\ chain' = Append(chain, e)
  BY <1>0 DEF ChainAppend
<1>2. job'[p].at = "link" /\ \A q \in Proc \ {p} : job'[q] = job[q]
  <2>1. LinkJob(LedgerBranch).at = "link"
    BY DEF LinkJob
  <2> QED
    BY <1>1, <2>1, OwnJob
<1>3. /\ p \in Adding /\ Adding' = Adding \ {p} /\ \A q \in Adding \ {p} : job'[q] = job[q]
      /\ Unwritten' = Unwritten /\ Unwritten \subseteq Adding \ {p}
  BY <1>1, <1>2 DEF Adding, Unwritten
<1>4. \A h : Alone(h)' <=> Alone(h)
  BY <1>1 DEF Alone
<1>5. EntryInv(p) /\ e \in Entry
  BY <1>0, <1>3 DEF LedgerInv, EntryInv
<1>6. /\ chain \in Seq(Entry) /\ chain' \in Seq(Entry) /\ DOMAIN chain = 1..n
      /\ DOMAIN chain' = 1..(n + 1) /\ Len(chain') = n + 1
      /\ chain'[n + 1] = e /\ \A k \in 1..n : chain'[k] = chain[k]
      /\ \A k \in 1..(n + 1) : k \in 1..n \/ k = n + 1
  <2>1. chain \in Seq(Entry)
    BY DEF LedgerInv
  <2> QED
    BY <1>b, <1>1, <1>5, <2>1
<1>7. ASSUME Alone(e.hash)
      PROVE  /\ Adding = {p} /\ e.prev = latest_hash /\ ledger # <<>>
             /\ Places(ledger, e.hash) = {Len(ledger)}
  BY <1>0, <1>1, <1>5, <1>7 DEF EntryInv, StillAlone
<1>8. ChainLinks'
  <2> SUFFICES ASSUME NEW k \in 1..(n + 1), Alone(chain'[k].hash)
               PROVE  chain'[k].prev = IF k = 1 THEN 0 ELSE chain'[k - 1].hash
    BY <1>4, <1>6 DEF ChainLinks
  <2>1. CASE k \in 1..n
    <3>1. k # 1 => k - 1 \in 1..n
      BY <2>1
    <3> QED
      BY <1>6, <2>1, <3>1 DEF LedgerInv, ChainLinks
  <2>2. CASE k = n + 1
    <3>1. e.prev = latest_hash
      BY <1>6, <1>7, <2>2
    <3>2. CASE n = 0
      <4>1. chain = <<>>
        BY <1>b, <1>6, <3>2
      <4> QED
        BY <1>6, <2>2, <3>1, <3>2, <4>1 DEF latest_hash
    <3>3. CASE n # 0
      <4>1. latest_hash = chain[n].hash
        BY <1>b, <1>6, <3>3 DEF latest_hash, Last
      <4>2. n \in 1..n /\ k # 1 /\ k - 1 = n
        BY <2>2, <3>3
      <4> QED
        BY <1>6, <2>2, <3>1, <4>1, <4>2
    <3> QED
      BY <3>2, <3>3
  <2> QED
    BY <1>6, <2>1, <2>2
<1>9. ASSUME NEW lines, Keeps(lines), ~Alone(e.hash) PROVE Keeps(lines)'
  <2> SUFFICES ASSUME NEW i \in 1..(n + 1), NEW j \in 1..(n + 1),
                      Alone(chain'[i].hash), Alone(chain'[j].hash)
               PROVE  \E k, l \in DOMAIN lines : /\ Places(lines, chain'[i].hash) = {k}
                                                 /\ Places(lines, chain'[j].hash) = {l}
                                                 /\ i < j => k < l
    BY <1>4, <1>6 DEF Keeps
  <2>1. i \in DOMAIN chain /\ j \in DOMAIN chain /\ chain'[i] = chain[i] /\ chain'[j] = chain[j]
    BY <1>6, <1>9
  <2> QED
    BY <1>9, <2>1 DEF Keeps
<1>10. ASSUME NEW lines, lines = ledger, Alone(e.hash) PROVE Keeps(lines)'
  <2>1. PICK last \in Nat : last = Len(lines) /\ DOMAIN lines = 1..last /\ last \in DOMAIN lines
    <3>1. lines \in Seq(Entry) /\ lines # <<>>
      BY <1>7, <1>10 DEF LedgerInv, GoodText
    <3> QED
      BY <3>1
  <2>2. Places(lines, e.hash) = {last}
    BY <1>7, <1>10, <2>1
  <2>k. Keeps(lines)
    BY <1>10 DEF LedgerInv, GoodText
  <2> SUFFICES ASSUME NEW i \in 1..(n + 1), NEW j \in 1..(n + 1),
                      Alone(chain'[i].hash), Alone(chain'[j].hash)
               PROVE  \E k, l \in DOMAIN lines : /\ Places(lines, chain'[i].hash) = {k}
                                                 /\ Places(lines, chain'[j].hash) = {l}
                                                 /\ i < j => k < l
    BY <1>4, <1>6 DEF Keeps
  <2>3. ASSUME NEW k \in 1..n, Alone(chain[k].hash)
        PROVE  \E u \in DOMAIN lines : Places(lines, chain[k].hash) = {u} /\ u < last
    <3>0. k \in DOMAIN chain
      BY <1>6
    <3>1. PICK u \in DOMAIN lines : Places(lines, chain[k].hash) = {u}
      BY <2>3, <2>k, <3>0 DEF Keeps
    <3>2. u # last
      BY <1>0, <1>5, <2>2, <3>0, <3>1 DEF EntryInv, Places
    <3> QED
      BY <2>1, <3>1, <3>2
  <2>4. CASE i \in 1..n /\ j \in 1..n
    <3>1. i \in DOMAIN chain /\ j \in DOMAIN chain /\ chain'[i] = chain[i] /\ chain'[j] = chain[j]
      BY <1>6, <2>4
    <3>2. PICK a, b : a = chain[i].hash /\ b = chain[j].hash
      OBVIOUS
    <3>3. Alone(a) /\ Alone(b) /\ a = chain'[i].hash /\ b = chain'[j].hash
      BY <3>1, <3>2
    <3>4. \E k, l \in DOMAIN lines : /\ Places(lines, a) = {k}
                                     /\ Places(lines, b) = {l}
                                     /\ i < j => k < l
      BY <2>k, <3>1, <3>2, <3>3 DEF Keeps
    <3> QED
      BY <3>3, <3>4
  <2>5. CASE i \in 1..n /\ j = n + 1
    BY <1>6, <2>1, <2>2, <2>3, <2>5
  <2>6. CASE i = n + 1 /\ j \in 1..n
    <3>1. PICK u \in DOMAIN lines : Places(lines, chain[j].hash) = {u}
      BY <1>6, <2>3, <2>6
    <3> QED
      BY <1>6, <2>1, <2>2, <2>6, <3>1
  <2>7. CASE i = n + 1 /\ j = n + 1
    BY <1>6, <2>1, <2>2, <2>7
  <2> QED
    BY <1>6, <2>4, <2>5, <2>6, <2>7
<1>11. ASSUME NEW lines, GoodText(lines), Keeps(lines)' PROVE GoodText(lines)'
  BY <1>1, <1>3, <1>11 DEF GoodText
<1>12. GoodText(ledger)'
  <2>1. PICK lines : lines = ledger
    OBVIOUS
  <2>2. GoodText(lines) /\ Keeps(lines)
    BY <2>1 DEF LedgerInv, GoodText
  <2>3. Keeps(lines)'
    <3>1. CASE Alone(e.hash)
      BY <1>10, <2>1, <3>1
    <3>2. CASE ~Alone(e.hash)
      BY <1>9, <2>2, <3>2
    <3> QED
      BY <3>1, <3>2
  <2>4. GoodText(lines)'
    BY <1>11, <2>2, <2>3
  <2> QED
    BY <1>1, <2>1, <2>4 DEF GoodText
<1>13. ASSUME NEW q \in Adding \ {p} PROVE EntryInv(q)'
  <2>1. EntryInv(q) /\ ~Alone(job[q].entry.hash) /\ ~Alone(e.hash) /\ job'[q] = job[q]
    BY <1>3, <1>7 DEF LedgerInv, EntryInv, StillAlone
  <2>2. job[q].entry.hash # e.hash
    BY <1>0, <1>5 DEF EntryInv
  <2>3. job'[q].at = "read" => GoodText(job[q].existing)'
    <3>1. PICK text : text = job[q].existing
      OBVIOUS
    <3>2. job[q].at = "read" => GoodText(text) /\ Keeps(text)
      BY <2>1, <3>1 DEF EntryInv, GoodText
    <3>3. job[q].at = "read" => GoodText(text)'
      BY <1>9, <1>11, <2>1, <3>2
    <3> QED
      BY <2>1, <3>1, <3>3 DEF GoodText
  <2>4. \A k \in DOMAIN chain' : chain'[k].hash # job[q].entry.hash
    BY <1>6, <2>1, <2>2 DEF EntryInv
  <2> QED
    BY <1>1, <1>3, <1>4, <2>1, <2>3, <2>4 DEF EntryInv
<1>14. \A k \in 1..(n + 1) : chain'[k].hash <= entries
  BY <1>0, <1>5, <1>6 DEF LedgerInv, EntryInv
<1> QED
  BY <1>1, <1>3, <1>6, <1>8, <1>12, <1>13, <1>14 DEF LedgerInv

LEMMA NextLedger == JobInv /\ LedgerInv /\ [Next]_vars => LedgerInv'
<1> SUFFICES ASSUME JobInv, LedgerInv, [Next]_vars PROVE LedgerInv'
  OBVIOUS
<1>1. ASSUME NEW p \in Proc, UNCHANGED ledgerVars, \A q \in Proc \ {p} : job'[q] = job[q],
             job'[p] = job[p] \/ job'[p].at \notin {"hashed", "read", "replaced"}
      PROVE  LedgerInv'
  BY <1>1, LedgerQuiet
<1>2. ASSUME NEW p \in Proc, VaultStep(p), UNCHANGED ledgerVars PROVE LedgerInv'
  <2>1. CASE StoreStep(p, work.ids)
    BY <1>1, <1>2, <2>1, StoreJobs
  <2>2. CASE SealLoad(p) \/ SealWrite(p)
    BY <1>1, <1>2, <2>2, SealJobs
  <2> QED
    BY <1>2, <2>1, <2>2 DEF VaultStep, Otherwise
<1>3. ASSUME NEW p \in Proc, AddStep(p) PROVE LedgerInv'
  BY <1>3, BeginKeeps, ReadKeeps, ReplaceKeeps, ChainKeeps DEF AddStep
<1>4. ASSUME NEW p \in Proc, FindPrevious(p) \/ InsertEvent(p) \/ Dies(p), UNCHANGED ledgerVars
      PROVE  LedgerInv'
  <2>1. \A b, v : InsertJob(b, v).at = "insert" /\ Idle.at = "idle"
    BY DEF InsertJob, Idle
  <2> QED
    BY <1>1, <1>4, <2>1, AuditJobs
<1>5. CASE UNCHANGED vars
  BY <1>5, LedgerQuiet DEF vars, auditVars
<1> QED
  BY <1>2, <1>3, <1>4, <1>5, StepsOfProcesses DEF Step

LEMMA LedgerInvariant == Spec => []LedgerInv
<1>1. Init => LedgerInv
  <2> SUFFICES ASSUME Init PROVE LedgerInv
    OBVIOUS
  <2>1. \A p \in Proc : job[p].at = "idle"
    BY DEF Init, StoreInit, AuditInit, Idle
  <2>2. Adding = {} /\ Unwritten = {}
    BY <2>1 DEF Adding, Unwritten
  <2>3. /\ ledger = <<>> /\ chain = <<>> /\ entries = 0 /\ <<>> \in Seq(Entry) /\ DOMAIN ledger = {}
        /\ DOMAIN chain = {}
    BY DEF Init, LedgerInit
  <2> QED
    BY <2>2, <2>3, LedgerAssumption DEF LedgerInv, ChainLinks, GoodText, Keeps
<1>2. Spec => []JobInv
  BY AuditInvariant, PTL
<1> QED
  BY <1>1, <1>2, NextLedger, PTL DEF Spec

\* Entries that ran alone are in LEDGER.md once each, in the order of the chain.
THEOREM LedgerIsKept == Spec => []LedgerKept
<1>1. LedgerInv => LedgerKept
  BY DEF LedgerInv, GoodText, Keeps, LedgerKept
<1> QED
  BY <1>1, LedgerInvariant, PTL

\* The line of an entry that ran alone links to the line before it.
THEOREM ChainIsLinked == Spec => []ChainLinks
<1>1. LedgerInv => ChainLinks
  BY DEF LedgerInv
<1> QED
  BY <1>1, LedgerInvariant, PTL

-----------------------------------------------------------------------------
(* The vault.                                                              *)

RowsShape == rows = [b \in Branch |-> [i \in Id |-> rows[b][i]]]

NewestSeal == IF sealed = <<>> THEN 0 ELSE sealed[Len(sealed)]

\* As long as nothing disturbed it, the vault is the list of its seals, and
\* whoever is sealing knows how many there are and the last of them.
VaultInv ==
    /\ begun \in Nat
    /\ RowsShape
    /\ sealed \in Seq(Nat)
    /\ \A p \in Sealing : job[p].hash \in Nat
    /\ ~disturbed =>
          /\ Rows = {Main} \X (1..Len(sealed))
          /\ \A n \in 1..Len(sealed) : /\ Seal(<<Main, n>>).hash = sealed[n]
                                       /\ Seal(<<Main, n>>).prev = IF n = 1 THEN 0 ELSE sealed[n - 1]
          /\ \A p, q \in Sealing : p = q
          /\ \A p \in Sealing : job[p].view.count = Len(sealed) /\ job[p].view.last = NewestSeal

\* A step of another part changes nothing here.
LEMMA VaultQuiet ==
    ASSUME VaultInv, UNCHANGED <<rows, begun, vaultVars>>,
           \A p \in Proc : job'[p].at = "sealing" => job'[p] = job[p]
    PROVE  VaultInv'
<1>1. Sealing' \subseteq Sealing /\ \A p \in Sealing' : job'[p] = job[p]
  BY DEF Sealing
<1>2. UNCHANGED <<rows, begun, sealed, disturbed>>
  BY DEF vaultVars
<1>3. Rows' = Rows /\ NewestSeal' = NewestSeal /\ \A r : Seal(r)' = Seal(r)
  BY <1>2 DEF Rows, NewestSeal, Seal
<1> QED
  BY <1>1, <1>2, <1>3 DEF VaultInv, RowsShape

\* A step that changes the records of a branch leaves the others alone.
LEMMA SetBranch ==
    ASSUME RowsShape, NEW b \in Branch, NEW f, f = [i \in Id |-> f[i]], rows' = [rows EXCEPT ![b] = f]
    PROVE  /\ RowsShape'
           /\ rows'[b] = f
           /\ \A c \in Branch \ {b} : rows'[c] = rows[c]
<1>1. DOMAIN rows = Branch /\ rows' = [c \in Branch |-> IF c = b THEN f ELSE rows[c]]
  BY DEF RowsShape
<1>2. \A c \in Branch : rows[c] = [i \in Id |-> rows[c][i]]
  BY DEF RowsShape
<1> QED
  BY <1>1, <1>2 DEF RowsShape

SetsRecord(b, i, r) == rows' = [rows EXCEPT ![b][i] = r]

\* A step that changes one record leaves the others alone.
LEMMA SetRecord ==
    ASSUME RowsShape, NEW b \in Branch, NEW i, NEW r, SetsRecord(b, i, r)
    PROVE  /\ RowsShape'
           /\ rows'[b] = [rows[b] EXCEPT ![i] = r]
           /\ i \in Id => rows'[b][i] = r
           /\ \A k \in Id \ {i} : rows'[b][k] = rows[b][k]
           /\ \A c \in Branch \ {b} : rows'[c] = rows[c]
<1> DEFINE f == [rows[b] EXCEPT ![i] = r]
<1>1. rows' = [rows EXCEPT ![b] = f]
  BY DEF SetsRecord
<1>2. rows[b] = [k \in Id |-> rows[b][k]]
  BY DEF RowsShape
<1>3. /\ f = [k \in Id |-> f[k]]
      /\ i \in Id => f[i] = r
      /\ \A k \in Id \ {i} : f[k] = rows[b][k]
  BY <1>2
<1>4. f = [rows[b] EXCEPT ![i] = r]
  OBVIOUS
<1> HIDE DEF f
<1> QED
  BY <1>1, <1>3, <1>4, SetBranch

\* What an operation of the store leaves of the records.
LEMMA StoreRows ==
    ASSUME RowsShape, begun \in Nat, NEW p \in Proc, StoreStep(p, work.ids)
    PROVE  begun' \in Nat /\ RowsShape'
<1> DEFINE Goal == begun' \in Nat /\ RowsShape'
<1>0. UNCHANGED rows => RowsShape'
  BY DEF RowsShape
<1>1. ASSUME NEW b \in Branch, NEW i, NEW d, upsert(p, b, i, d) PROVE Goal
  <2> DEFINE r == [data |-> d, live |-> TRUE]
  <2>1. SetsRecord(b, i, r)
    BY <1>1 DEF upsert, SetsRecord
  <2>2. begun' \in Nat
    BY <1>1 DEF upsert, Begin
  <2> HIDE DEF r
  <2> QED
    BY <2>1, <2>2, SetRecord
<1>2. ASSUME NEW b \in Branch, NEW i, delete(p, b, i) PROVE Goal
  <2> DEFINE r == Tombstone(rows[b][i])
  <2>1. SetsRecord(b, i, r)
    BY <1>2 DEF delete, SetsRecord
  <2>2. begun' \in Nat
    BY <1>2 DEF delete, Begin
  <2> HIDE DEF r
  <2> QED
    BY <2>1, <2>2, SetRecord
<1>3. ASSUME NEW b \in Branch, append_audit_event(p, b) PROVE Goal
  BY <1>0, <1>3 DEF append_audit_event, Begin
<1>5. ASSUME NEW b \in Branch, delete_branch(p, b) PROVE Goal
  <2> DEFINE f == [i \in Id |-> Tombstone(rows[b][i])]
  <2>1. rows' = [rows EXCEPT ![b] = f] /\ f = [i \in Id |-> f[i]]
    BY <1>5 DEF delete_branch
  <2>2. begun' \in Nat
    BY <1>5 DEF delete_branch, Begin
  <2> HIDE DEF f
  <2> QED
    BY <2>1, <2>2, SetBranch
<1>6. ASSUME NEW b \in Branch, NEW from \in Branch, create_branch(p, b, from) PROVE Goal
  BY <1>0, <1>6 DEF create_branch, Begin
<1>7. ASSUME NEW s \in Branch, NEW t \in Branch, NEW strategy, merge_branch(p, s, t, strategy) PROVE Goal
  BY <1>0, <1>7 DEF merge_branch, Begin
<1>8. ASSUME job[p].branch \in Branch, CopyBranch(p) PROVE Goal
  <2> DEFINE f == Copied(job[p].branch, job[p].from)
  <2>1. f = [i \in Id |-> f[i]]
    BY DEF Copied
  <2> HIDE DEF f
  <2> QED
    BY <1>8, <2>1, SetBranch DEF CopyBranch, f
<1>9. ASSUME job[p].branch \in Branch, ApplyMerge(p) PROVE Goal
  BY <1>9, SetBranch DEF ApplyMerge
<1>10. ASSUME job[p].branch \notin Branch, CopyBranch(p) \/ ApplyMerge(p) PROVE Goal
  <2>1. rows' = rows
    BY <1>10 DEF CopyBranch, ApplyMerge, RowsShape
  <2> QED
    BY <1>0, <1>10, <2>1 DEF CopyBranch, ApplyMerge
<1>11. Goal
  <2> HIDE DEF Goal
  <2> QED
    BY <1>1, <1>2, <1>3, <1>5, <1>6, <1>7, <1>8, <1>9, <1>10 DEF StoreStep
<1> QED
  BY <1>11

\* How many seals there are, and which of them is the last.
LEMMA VaultList ==
    ASSUME NEW n \in Nat, Rows = {Main} \X (1..n)
    PROVE  /\ Cardinality(Rows) = n
           /\ Rows = {} <=> n = 0
           /\ n # 0 => LastSeals = {Seal(<<Main, n>>)}
<1>1. Cardinality(Rows) = n
  <2>1. IsFiniteSet(1..n) /\ Cardinality(1..n) = n
    BY FS_Interval
  <2>2. IsFiniteSet({Main}) /\ Cardinality({Main}) = 1
    BY FS_Singleton
  <2>3. Cardinality({Main} \X (1..n)) = Cardinality({Main}) * Cardinality(1..n)
    BY <2>1, <2>2, FS_Product
  <2> QED
    BY <2>1, <2>2, <2>3
<1>2. Rows = {} <=> n = 0
  <2>1. n # 0 => <<Main, 1>> \in Rows
    OBVIOUS
  <2> QED
    BY <2>1
<1>3. ASSUME n # 0 PROVE {q \in Rows : \A o \in Rows : o[2] <= q[2]} = {<<Main, n>>}
  <2>1. <<Main, n>> \in Rows
    BY <1>3
  <2>2. \A q \in Rows : q[1] = Main /\ q[2] \in 1..n /\ q = <<q[1], q[2]>>
    OBVIOUS
  <2> QED
    BY <2>1, <2>2
<1>4. ASSUME n # 0 PROVE LastSeals = {Seal(<<Main, n>>)}
  BY <1>3, <1>4 DEF LastSeals
<1> QED
  BY <1>1, <1>2, <1>4

\* An operation of the store that changes a record disturbs the vault.
LEMMA StoreKeepsVault ==
    ASSUME JobInv, VaultInv, NEW p \in Proc, Otherwise(p, work.ids)
    PROVE  VaultInv'
<1>1. begun' \in Nat /\ RowsShape'
  BY StoreRows DEF Otherwise, VaultInv
<1>2. /\ \A q \in Proc \ {p} : job'[q] = job[q]
      /\ \/ job'[p] = job[p]
         \/ job'[p].at \in {"link", "copy", "merge"}
  BY StoreJobs DEF Otherwise
<1>3. Sealing' \subseteq Sealing /\ \A q \in Sealing' : job'[q] = job[q]
  BY <1>2 DEF Sealing
<1>4. sealed' = sealed /\ (~disturbed' => ~disturbed /\ rows' = rows)
  BY DEF Otherwise
<1>5. NewestSeal' = NewestSeal
  BY <1>4 DEF NewestSeal
<1>6. ~disturbed' => Rows' = Rows /\ \A r : Seal(r)' = Seal(r)
  BY <1>4 DEF Rows, Seal
<1> QED
  BY <1>1, <1>3, <1>4, <1>5, <1>6 DEF VaultInv

\* A load that nothing disturbs counts the seals.
LEMMA LoadKeepsVault ==
    ASSUME JobInv, VaultInv, NEW p \in Proc, SealLoad(p)
    PROVE  VaultInv'
<1>1. PICK view \in Views \cup {Misread} :
          /\ job' = [job EXCEPT ![p] = [at |-> "sealing", view |-> view, hash |-> begun']]
          /\ disturbed' = (disturbed \/ Sealing # {} \/ view \notin Views)
  BY DEF SealLoad
<1> DEFINE j == [at |-> "sealing", view |-> view, hash |-> begun']
<1>2. j.at = "sealing" /\ j.view = view /\ j.hash = begun' /\ job' = [job EXCEPT ![p] = j]
  BY <1>1
<1> HIDE DEF j
<1>3. job'[p] = j /\ \A q \in Proc \ {p} : job'[q] = job[q]
  BY <1>2, OwnJob
<1>4. begun' \in Nat /\ UNCHANGED <<rows, sealed>>
  BY DEF SealLoad, Begin, VaultInv
<1>5. Rows' = Rows /\ NewestSeal' = NewestSeal /\ \A r : Seal(r)' = Seal(r)
  BY <1>4 DEF Rows, NewestSeal, Seal
<1>6. Sealing' = Sealing \cup {p}
  BY <1>2, <1>3 DEF Sealing
<1>7. \A q \in Sealing' : job'[q].hash \in Nat
  BY <1>2, <1>3, <1>4, <1>6 DEF VaultInv
<1>8. ASSUME ~disturbed' PROVE view.count = Len(sealed) /\ view.last = NewestSeal
  <2>1. ~disturbed /\ view \in Views
    BY <1>1, <1>8
  <2>2. PICK n \in Nat : n = Len(sealed)
    BY DEF VaultInv
  <2>3. Rows = {Main} \X (1..n)
    BY <2>1, <2>2 DEF VaultInv
  <2>4. CASE n = 0
    <3>1. Rows = {}
      BY <2>3, <2>4, VaultList
    <3>2. sealed = <<>>
      <4>1. sealed \in Seq(Nat) /\ Len(sealed) = 0
        BY <2>2, <2>4 DEF VaultInv
      <4> QED
        BY <4>1
    <3> QED
      BY <2>1, <2>2, <2>4, <3>1, <3>2 DEF Views, NewestSeal
  <2>5. CASE n # 0
    <3>1. Rows # {} /\ Cardinality(Rows) = n /\ LastSeals = {Seal(<<Main, n>>)}
      BY <2>3, <2>5, VaultList
    <3>2. view = [count |-> n, last |-> Seal(<<Main, n>>).hash]
      BY <2>1, <3>1 DEF Views
    <3>3. Seal(<<Main, n>>).hash = sealed[n] /\ sealed # <<>>
      BY <2>1, <2>2, <2>5 DEF VaultInv
    <3> QED
      BY <2>2, <3>2, <3>3 DEF NewestSeal
  <2> QED
    BY <2>4, <2>5
<1>9. ASSUME ~disturbed'
      PROVE  /\ ~disturbed
             /\ Sealing' = {p}
             /\ job'[p].view.count = Len(sealed)
             /\ job'[p].view.last = NewestSeal
  BY <1>1, <1>2, <1>3, <1>6, <1>8, <1>9
<1>10. RowsShape'
  BY <1>4 DEF VaultInv, RowsShape
<1> QED
  BY <1>4, <1>5, <1>7, <1>9, <1>10 DEF VaultInv

\* A seal that nothing disturbs is written after the others, under a number that is free.
LEMMA WriteKeepsVault ==
    ASSUME JobInv, VaultInv, NEW p \in Proc, SealWrite(p)
    PROVE  VaultInv'
<1>a. PICK m : m = NextNumber(job[p].view)
  OBVIOUS
<1>b. PICK r : r = [data |-> [hash |-> job[p].hash, prev |-> job[p].view.last], live |-> TRUE]
  OBVIOUS
<1>1. /\ p \in Sealing
      /\ m \in Id
      /\ rows' = [rows EXCEPT ![Main][m] = r]
      /\ job' = [job EXCEPT ![p] = Idle]
      /\ sealed' = Append(sealed, job[p].hash)
      /\ UNCHANGED <<begun, disturbed>>
  BY <1>a, <1>b DEF SealWrite, Sealing
<1>2. r.live = TRUE /\ r.data.hash = job[p].hash /\ r.data.prev = job[p].view.last
  BY <1>b
<1>0. Main \in Branch /\ Id = 1..MaxOps /\ MaxOps \in Nat
  BY VaultAssumption, EsdbAssumption
<1>3. /\ RowsShape'
      /\ rows'[Main][m] = r
      /\ \A k \in Id \ {m} : rows'[Main][k] = rows[Main][k]
      /\ \A c \in Branch \ {Main} : rows'[c] = rows[c]
  <2>1. RowsShape
    BY DEF VaultInv
  <2>2. Main \in Branch /\ SetsRecord(Main, m, r)
    BY <1>0, <1>1 DEF SetsRecord
  <2>3. RowsShape'
    BY <2>1, <2>2, SetRecord
  <2>4. m \in Id => rows'[Main][m] = r
    BY <2>1, <2>2 DEF RowsShape, SetsRecord
  <2>5. \A k \in Id \ {m} : rows'[Main][k] = rows[Main][k]
    BY <2>1, <2>2, SetRecord
  <2>6. \A c \in Branch \ {Main} : rows'[c] = rows[c]
    BY <2>1, <2>2, SetRecord
  <2> QED
    BY <1>1, <2>3, <2>4, <2>5, <2>6
<1>4. Idle.at = "idle" /\ job'[p] = Idle /\ \A q \in Proc \ {p} : job'[q] = job[q]
  BY <1>1, OwnJob DEF Idle
<1>5. Sealing' = Sealing \ {p}
  BY <1>4 DEF Sealing
<1>6. PICK n \in Nat : n = Len(sealed)
  BY DEF VaultInv
<1>7. /\ sealed' \in Seq(Nat)
      /\ Len(sealed') = n + 1
      /\ sealed'[n + 1] = job[p].hash
      /\ \A k \in 1..n : sealed'[k] = sealed[k]
  BY <1>1, <1>6 DEF VaultInv
<1>8. Rows' = Rows \cup {<<Main, m>>}
  <2>1. ASSUME NEW x \in Branch \X Id PROVE x \in Rows' <=> x \in Rows \/ x = <<Main, m>>
    <3>1. x = <<x[1], x[2]>> /\ x[1] \in Branch /\ x[2] \in Id
      OBVIOUS
    <3>2. CASE x[1] # Main
      BY <1>3, <3>1, <3>2 DEF Rows
    <3>3. CASE x[1] = Main /\ x[2] # m
      BY <1>3, <3>1, <3>3 DEF Rows
    <3>4. CASE x[1] = Main /\ x[2] = m
      BY <1>2, <1>3, <3>1, <3>4 DEF Rows
    <3> QED
      BY <3>2, <3>3, <3>4
  <2>2. <<Main, m>> \in Branch \X Id
    BY <1>1, VaultAssumption
  <2>3. Rows \subseteq Branch \X Id /\ Rows' \subseteq Branch \X Id
    BY DEF Rows
  <2> QED
    BY <2>1, <2>2, <2>3
<1>9. Seal(<<Main, m>>)' = r.data
  BY <1>3 DEF Seal
<1>10. ASSUME NEW k \in Id \ {m} PROVE Seal(<<Main, k>>)' = Seal(<<Main, k>>)
  <2>1. rows'[Main][k] = rows[Main][k]
    BY <1>3
  <2> QED
    BY <2>1 DEF Seal
<1>11. ASSUME ~disturbed'
       PROVE  /\ Rows' = {Main} \X (1..(n + 1))
              /\ \A k \in 1..(n + 1) :
                     /\ Seal(<<Main, k>>)'.hash = sealed'[k]
                     /\ Seal(<<Main, k>>)'.prev = IF k = 1 THEN 0 ELSE sealed'[k - 1]
              /\ Sealing' = {}
  <2>1. ~disturbed /\ Rows = {Main} \X (1..n) /\ m = n + 1 /\ job[p].view.last = NewestSeal /\ Sealing = {p}
    BY <1>a, <1>1, <1>6, <1>11 DEF VaultInv, NextNumber
  <2>2. Rows' = {Main} \X (1..(n + 1))
    <3>1. 1..(n + 1) = (1..n) \cup {n + 1}
      OBVIOUS
    <3> QED
      BY <1>8, <2>1, <3>1
  <2>3. ASSUME NEW k \in 1..n
        PROVE  /\ Seal(<<Main, k>>)'.hash = sealed'[k]
               /\ Seal(<<Main, k>>)'.prev = IF k = 1 THEN 0 ELSE sealed'[k - 1]
    <3>1. k \in Id \ {m}
      BY <1>0, <1>1, <2>1
    <3>2. Seal(<<Main, k>>)' = Seal(<<Main, k>>)
      BY <1>10, <3>1
    <3>3. Seal(<<Main, k>>).hash = sealed[k] /\ Seal(<<Main, k>>).prev = IF k = 1 THEN 0 ELSE sealed[k - 1]
      BY <1>6, <2>1 DEF VaultInv
    <3>4. k # 1 => k - 1 \in 1..n
      OBVIOUS
    <3> QED
      BY <1>7, <3>2, <3>3, <3>4
  <2>4. /\ Seal(<<Main, m>>)'.hash = sealed'[n + 1]
        /\ Seal(<<Main, m>>)'.prev = IF m = 1 THEN 0 ELSE sealed'[m - 1]
    <3>1. NewestSeal = IF n = 0 THEN 0 ELSE sealed[n]
      BY <1>6 DEF NewestSeal, VaultInv
    <3> QED
      BY <1>2, <1>7, <1>9, <2>1, <3>1
  <2>5. \A k \in 1..(n + 1) : k = m \/ k \in 1..n
    BY <2>1
  <2>6. ASSUME NEW k \in 1..(n + 1)
        PROVE  /\ Seal(<<Main, k>>)'.hash = sealed'[k]
               /\ Seal(<<Main, k>>)'.prev = IF k = 1 THEN 0 ELSE sealed'[k - 1]
    <3>1. CASE k \in 1..n
      BY <2>3, <3>1
    <3>2. CASE k = m
      <4>1. k = n + 1 /\ sealed'[k] = sealed'[n + 1]
        BY <2>1, <3>2
      <4> QED
        BY <2>4, <3>2, <4>1
    <3> QED
      BY <2>5, <3>1, <3>2
  <2>7. Sealing' = {}
    BY <1>5, <2>1
  <2> QED
    BY <2>2, <2>6, <2>7
<1>12. ASSUME NEW q \in Sealing' PROVE job'[q].hash \in Nat
  <2>1. q \in Sealing /\ q \in Proc \ {p}
    BY <1>5 DEF Sealing
  <2> QED
    BY <1>4, <2>1 DEF VaultInv
<1> QED
  BY <1>1, <1>3, <1>7, <1>11, <1>12 DEF VaultInv

LEMMA NextVault == JobInv /\ VaultInv /\ [Next]_vars => VaultInv'
<1> SUFFICES ASSUME JobInv, VaultInv, [Next]_vars PROVE VaultInv'
  OBVIOUS
<1>1. ASSUME NEW p \in Proc, UNCHANGED <<rows, begun, vaultVars>>, \A q \in Proc \ {p} : job'[q] = job[q],
             job'[p].at # "sealing"
      PROVE  VaultInv'
  BY <1>1, VaultQuiet
<1>2. ASSUME NEW p \in Proc, VaultStep(p) PROVE VaultInv'
  BY <1>2, StoreKeepsVault, LoadKeepsVault, WriteKeepsVault DEF VaultStep
<1>3. ASSUME NEW p \in Proc, AddStep(p), UNCHANGED <<rows, begun, vaultVars>> PROVE VaultInv'
  BY <1>1, <1>3, AddJobs
<1>4. ASSUME NEW p \in Proc, FindPrevious(p) \/ InsertEvent(p) \/ Dies(p), UNCHANGED <<rows, begun, vaultVars>>
      PROVE  VaultInv'
  <2>1. \A b, v : InsertJob(b, v).at = "insert" /\ Idle.at = "idle"
    BY DEF InsertJob, Idle
  <2> QED
    BY <1>1, <1>4, <2>1, AuditJobs
<1>5. CASE UNCHANGED vars
  BY <1>5, VaultQuiet DEF vars, auditVars
<1> QED
  BY <1>2, <1>3, <1>4, <1>5, StepsOfProcesses DEF Step

LEMMA VaultInvariant == Spec => []VaultInv
<1>1. Init => VaultInv
  <2> SUFFICES ASSUME Init PROVE VaultInv
    OBVIOUS
  <2>1. Sealing = {}
    BY DEF Init, StoreInit, AuditInit, Idle, Sealing
  <2>2. rows = [b \in Branch |-> [i \in Id |-> NoRow]] /\ begun = 0 /\ sealed = <<>> /\ NoRow.live = FALSE
    BY DEF Init, StoreInit, VaultInit, NoRow
  <2>3. Rows = {}
    BY <2>2 DEF Rows
  <2>4. RowsShape
    BY <2>2 DEF RowsShape
  <2> QED
    BY <2>1, <2>2, <2>3, <2>4 DEF VaultInv
<1>2. Spec => []JobInv
  BY AuditInvariant, PTL
<1> QED
  BY <1>1, <1>2, NextVault, PTL DEF Spec

\* The vault has the seals that were written, in order and linked, and verify()
\* accepts it, as long as nobody else touched it and no two sealed at once.
THEOREM VaultStaysWhole == Spec => []VaultIsWhole
<1>1. VaultInv => VaultIsWhole
  <2> SUFFICES ASSUME VaultInv, ~disturbed PROVE VaultIsWhole
    BY DEF VaultIsWhole
  <2>1. PICK n \in Nat : n = Len(sealed)
    BY DEF VaultInv
  <2>2. Rows = {Main} \X (1..n)
    BY <2>1 DEF VaultInv
  <2>3. \A k \in 1..n : /\ Seal(<<Main, k>>).hash = sealed[k]
                        /\ Seal(<<Main, k>>).prev = IF k = 1 THEN 0 ELSE sealed[k - 1]
    BY <2>1 DEF VaultInv
  <2>4. ASSUME NEW r \in Rows
        PROVE  /\ Twins(r) = {}
               /\ Seal(r).prev = IF Before(r) = {} THEN 0
                                 ELSE Seal(CHOOSE q \in Before(r) : \A o \in Before(r) : o[2] <= q[2]).hash
    <3>1. PICK k \in 1..n : r = <<Main, k>>
      BY <2>2
    <3>2. Twins(r) = {}
      BY <2>2, <3>1 DEF Twins
    <3>3. \A q \in Before(r) : \E m \in 1..(k - 1) : q = <<Main, m>>
      BY <2>2, <3>1 DEF Before
    <3>4. k # 1 => <<Main, k - 1>> \in Before(r)
      BY <2>2, <3>1 DEF Before
    <3>5. CASE k = 1
      BY <2>3, <3>1, <3>2, <3>3, <3>5
    <3>6. CASE k # 1
      <4> DEFINE q == CHOOSE q \in Before(r) : \A o \in Before(r) : o[2] <= q[2]
      <4>1. q \in Before(r) /\ \A o \in Before(r) : o[2] <= q[2]
        <5>1. \A o \in Before(r) : o[2] <= <<Main, k - 1>>[2]
          BY <3>3
        <5> QED
          BY <3>4, <3>6, <5>1
      <4> HIDE DEF q
      <4>2. PICK m \in 1..(k - 1) : q = <<Main, m>>
        BY <3>3, <4>1
      <4>3. k - 1 <= m
        BY <3>4, <3>6, <4>1, <4>2
      <4>4. q = <<Main, k - 1>> /\ k - 1 \in 1..n
        BY <3>6, <4>2, <4>3
      <4>5. Seal(r).prev = Seal(q).hash
        BY <2>3, <3>1, <3>6, <4>4
      <4> QED
        BY <3>2, <3>4, <3>6, <4>5 DEF q
    <3> QED
      BY <3>5, <3>6
  <2> QED
    BY <2>1, <2>2, <2>3, <2>4 DEF VaultIsWhole, verify
<1> QED
  BY <1>1, VaultInvariant, PTL

-----------------------------------------------------------------------------
(* What a step may do to the records.                                      *)

\* Nothing is done to a record that is live but on purpose.
THEOREM LiveRowsStayPut == Spec => LiveRowsKept
<1>1. ASSUME JobInv, VaultInv, [Next]_vars PROVE [LiveRowsStay]_storeVars
  <2> SUFFICES ASSUME NEW b \in Branch, NEW i \in Id, rows[b][i].live, rows'[b][i] # rows[b][i]
               PROVE  OnlyOnPurpose(b, i)
    BY DEF LiveRowsStay
  <2>0. RowsShape /\ begun \in Nat
    BY <1>1 DEF VaultInv
  <2>1. PICK p \in Proc : VaultStep(p)
    <3>1. rows' # rows
      OBVIOUS
    <3> QED
      BY <1>1, <3>1, StepsOfProcesses DEF Step, vars
  <2>2. ASSUME Begin(p), NEW c \in Branch, \A a \in Branch \ {c} : rows'[a] = rows[a]
        PROVE  OnlyOnPurpose(b, i)
    <3>1. b = c
      BY <2>2
    <3>2. job[p] = Idle /\ begun' # begun
      BY <2>0, <2>2 DEF Begin
    <3> QED
      BY <2>2, <3>1, <3>2 DEF OnlyOnPurpose
  <2>3. ASSUME NEW c \in Branch, NEW k, NEW d, upsert(p, c, k, d) PROVE OnlyOnPurpose(b, i)
    <3> DEFINE r == [data |-> d, live |-> TRUE]
    <3>1. SetsRecord(c, k, r) /\ Begin(p)
      BY <2>3 DEF upsert, SetsRecord
    <3> HIDE DEF r
    <3>2. \A a \in Branch \ {c} : rows'[a] = rows[a]
      BY <2>0, <3>1, SetRecord
    <3> QED
      BY <2>2, <3>1, <3>2
  <2>4. ASSUME NEW c \in Branch, NEW k, delete(p, c, k) PROVE OnlyOnPurpose(b, i)
    <3> DEFINE r == Tombstone(rows[c][k])
    <3>1. SetsRecord(c, k, r) /\ Begin(p)
      BY <2>4 DEF delete, SetsRecord
    <3> HIDE DEF r
    <3>2. \A a \in Branch \ {c} : rows'[a] = rows[a]
      BY <2>0, <3>1, SetRecord
    <3> QED
      BY <2>2, <3>1, <3>2
  <2>5. ASSUME NEW c \in Branch, delete_branch(p, c) PROVE OnlyOnPurpose(b, i)
    <3> DEFINE f == [k \in Id |-> Tombstone(rows[c][k])]
    <3>1. rows' = [rows EXCEPT ![c] = f] /\ f = [k \in Id |-> f[k]] /\ Begin(p)
      BY <2>5 DEF delete_branch
    <3> HIDE DEF f
    <3>2. \A a \in Branch \ {c} : rows'[a] = rows[a]
      BY <2>0, <3>1, SetBranch
    <3> QED
      BY <2>2, <3>1, <3>2
  <2>6. ASSUME CopyBranch(p) PROVE OnlyOnPurpose(b, i)
    <3>1. PICK c \in Branch : c = job[p].branch
      BY <1>1, <2>6 DEF CopyBranch, JobInv
    <3> DEFINE f == Copied(c, job[p].from)
    <3>2. rows' = [rows EXCEPT ![c] = f] /\ f = [k \in Id |-> f[k]]
      BY <2>6, <3>1 DEF CopyBranch, Copied
    <3>3. rows[c][i].live => f[i] = rows[c][i]
      BY DEF Copied, NoRow
    <3> HIDE DEF f
    <3>4. rows'[c] = f /\ \A a \in Branch \ {c} : rows'[a] = rows[a]
      BY <2>0, <3>2, SetBranch
    <3> QED
      BY <3>3, <3>4
  <2>7. ASSUME ApplyMerge(p) PROVE OnlyOnPurpose(b, i)
    <3>1. PICK c \in Branch : c = job[p].branch
      BY <1>1, <2>7 DEF ApplyMerge, JobInv
    <3> DEFINE f == [k \in Id |-> MergedRow(job[p], k)]
    <3>2. rows' = [rows EXCEPT ![c] = f] /\ f = [k \in Id |-> f[k]]
      BY <2>7, <3>1 DEF ApplyMerge
    <3>3. rows[c][i].live /\ f[i] # rows[c][i] =>
              job[p].strategy = "source_wins" /\ i \in DOMAIN job[p].conflicts
      BY <3>1 DEF MergedRow
    <3> HIDE DEF f
    <3>4. rows'[c] = f /\ \A a \in Branch \ {c} : rows'[a] = rows[a]
      BY <2>0, <3>2, SetBranch
    <3>5. b = c
      BY <3>4
    <3> QED
      BY <2>7, <3>1, <3>3, <3>4, <3>5 DEF OnlyOnPurpose, ApplyMerge
  <2>8. ASSUME SealWrite(p) PROVE OnlyOnPurpose(b, i)
    <3>1. PICK m : m = NextNumber(job[p].view)
      OBVIOUS
    <3> DEFINE r == [data |-> [hash |-> job[p].hash, prev |-> job[p].view.last], live |-> TRUE]
    <3>2. SetsRecord(Main, m, r) /\ p \in Sealing
      BY <2>8, <3>1 DEF SealWrite, SetsRecord, Sealing
    <3>3. Main \in Branch
      BY VaultAssumption
    <3> HIDE DEF r
    <3>4. \A a \in Branch \ {Main} : rows'[a] = rows[a]
      BY <2>0, <3>2, <3>3, SetRecord
    <3>5. \A k \in Id \ {m} : rows'[Main][k] = rows[Main][k]
      BY <2>0, <3>2, <3>3, SetRecord
    <3>6. b = Main /\ i = m
      BY <3>4, <3>5
    <3> QED
      BY <3>1, <3>2, <3>6 DEF OnlyOnPurpose
  <2>9. ~SealLoad(p)
    BY DEF SealLoad
  <2>10. \A s, t, from, strategy : ~create_branch(p, t, from) /\ ~merge_branch(p, s, t, strategy)
    BY DEF create_branch, merge_branch
  <2>11. \A c : ~append_audit_event(p, c)
    BY DEF append_audit_event
  <2> QED
    BY <2>1, <2>3, <2>4, <2>5, <2>6, <2>7, <2>8, <2>9, <2>10, <2>11 DEF VaultStep, Otherwise, StoreStep
<1>2. Spec => [](JobInv /\ VaultInv)
  BY AuditInvariant, VaultInvariant, PTL
<1> QED
  BY <1>1, <1>2, PTL DEF Spec, LiveRowsKept

\* The two branches of a merge that took the source's records agree.
THEOREM MergesSettle == Spec => SourceWinsSettles
<1>1. ASSUME JobInv, VaultInv, [Next]_vars PROVE [MergeSettles]_storeVars
  <2> SUFFICES ASSUME NEW p \in Proc, NEW s \in Branch, NEW t \in Branch, SettlesAsRead(p, s, t)
               PROVE  Conflicts(s, t)' = {}
    BY DEF MergeSettles
  <2>1. job[p].at = "merge" /\ job'[p].at = "link"
    BY DEF SettlesAsRead
  <2>2. ApplyMerge(p)
    <3>1. job'[p] # job[p]
      BY <2>1
    <3>2. PICK q \in Proc : Step(q)
      BY <1>1, <3>1, StepsOfProcesses DEF vars, auditVars
    <3>3. q = p
      <4>1. CASE StoreStep(q, work.ids)
        BY <1>1, <3>1, <4>1, StoreJobs
      <4>2. CASE SealLoad(q) \/ SealWrite(q)
        BY <1>1, <3>1, <4>2, SealJobs
      <4>3. CASE AddStep(q)
        BY <1>1, <3>1, <4>3, AddJobs
      <4>4. CASE FindPrevious(q) \/ InsertEvent(q) \/ Dies(q)
        BY <1>1, <3>1, <4>4, AuditJobs
      <4> QED
        BY <3>2, <4>1, <4>2, <4>3, <4>4 DEF Step, VaultStep, Otherwise
    <3>4. ~Begin(p)
      BY <2>1 DEF Begin, Idle
    <3>5. ~AddStep(p)
      BY <2>1 DEF AddStep, add_entry, AppendRead, AppendReplace, ChainAppend, Idle
    <3>6. ~SealLoad(p) /\ ~SealWrite(p)
      BY <2>1, <3>4 DEF SealLoad, SealWrite
    <3>7. ~FindPrevious(p) /\ ~InsertEvent(p)
      BY <2>1 DEF FindPrevious, InsertEvent
    <3>8. ~Dies(p)
      BY <1>1, <2>1, OwnJob DEF Dies, Idle
    <3>9. ~CopyBranch(p)
      BY <2>1 DEF CopyBranch
    <3> QED
      BY <3>2, <3>3, <3>4, <3>5, <3>6, <3>7, <3>8, <3>9
      DEF Step, VaultStep, Otherwise, StoreStep, upsert, delete, append_audit_event, delete_branch,
          create_branch, merge_branch
  <2>3. PICK conflicts : conflicts = job[p].conflicts
    OBVIOUS
  <2>4. /\ DOMAIN conflicts = Conflicts(s, t)
        /\ \A i \in DOMAIN conflicts : conflicts[i] = rows[s][i].data
    BY <2>3 DEF SettlesAsRead, detect_merge_conflicts
  <2> DEFINE f == [i \in Id |-> MergedRow(job[p], i)]
  <2>5. RowsShape /\ rows' = [rows EXCEPT ![t] = f] /\ f = [i \in Id |-> f[i]]
    BY <1>1, <2>2 DEF SettlesAsRead, ApplyMerge, VaultInv
  <2>6. ASSUME NEW i \in Id
        PROVE  f[i] = IF i \in DOMAIN conflicts THEN [data |-> rows[s][i].data, live |-> rows[s][i].live]
                      ELSE IF rows[s][i].live /\ ~rows[t][i].live THEN rows[s][i]
                      ELSE rows[t][i]
    BY <2>3, <2>4 DEF SettlesAsRead, MergedRow, Resolved
  <2> HIDE DEF f
  <2>7. rows'[t] = f /\ \A a \in Branch \ {t} : rows'[a] = rows[a]
    BY <2>5, SetBranch
  <2>8. CASE s = t
    BY <2>8 DEF Conflicts
  <2>9. CASE s # t
    <3> SUFFICES ASSUME NEW i \in Id, rows'[s][i].live, rows'[t][i].live
                 PROVE  rows'[s][i].data = rows'[t][i].data
      BY DEF Conflicts, Live
    <3>1. rows'[s][i] = rows[s][i] /\ rows'[t][i] = f[i]
      BY <2>7, <2>9
    <3>2. CASE i \in DOMAIN conflicts
      <4>1. f[i] = [data |-> rows[s][i].data, live |-> rows[s][i].live]
        BY <2>6, <3>2
      <4>2. f[i].data = rows[s][i].data
        BY <4>1
      <4> QED
        BY <3>1, <4>2
    <3>3. CASE i \notin DOMAIN conflicts /\ ~rows[t][i].live
      BY <2>6, <3>1, <3>3
    <3>4. CASE i \notin DOMAIN conflicts /\ rows[t][i].live
      BY <2>4, <2>6, <3>1, <3>4 DEF Conflicts, Live
    <3> QED
      BY <3>2, <3>3, <3>4
  <2> QED
    BY <2>8, <2>9
<1>2. Spec => [](JobInv /\ VaultInv)
  BY AuditInvariant, VaultInvariant, PTL
<1> QED
  BY <1>1, <1>2, PTL DEF Spec, SourceWinsSettles
=============================================================================
