------------------------- MODULE SharedFilesProofs -------------------------
(***************************************************************************)
(* Processes that share files in .specsmith and in the home directory, for *)
(* any number of them:                                                     *)
(*                                                                         *)
(*   - the lock file of the registry serializes its changes and none is    *)
(*     lost, as long as a stale lock is reclaimed by one process at a time *)
(*     and nobody is slower than a minute;                                 *)
(*   - commands on work items that do not overlap lose nothing, move items *)
(*     legally and leave a true mirror, whatever died before;              *)
(*   - the files of tracked processes tell what runs, and an abort ends    *)
(*     all that they tell of.                                              *)
(***************************************************************************)
EXTENDS ProjectRegistry, WorkItems, TrackedProcesses, TLAPS

-----------------------------------------------------------------------------
(* The registry.                                                           *)

\* Who is within has the lock; who reclaims does so alone, and what it
\* reclaims is not in use; what was loaded is still what is there.
LockInv ==
    ~contested =>
        /\ \A p \in Within : lock.by = p
        /\ \A p \in Reclaiming : lock # NoLock /\ lock.by \notin Within
        /\ \A p, q \in Reclaiming : p = q
        /\ \A p \in Proc : doing[p].at = "loaded" => doing[p].listed = registry
        /\ registry = expected

JobsOK == /\ DOMAIN doing = Proc
          /\ doing = [p \in Proc |-> doing[p]]
          /\ \A p \in Proc : /\ doing[p] = [k \in DOMAIN doing[p] |-> doing[p][k]]
                             /\ "at" \in DOMAIN doing[p]

LockOK == lock \in [by : Proc \cup {Nobody}, old : BOOLEAN]

RegistryInv == JobsOK /\ LockOK /\ contested \in BOOLEAN /\ LockInv

\* A process that goes on is only elsewhere.
LEMMA Moving ==
    ASSUME JobsOK, NEW p \in Proc, NEW at, Goes(p, at)
    PROVE  /\ JobsOK'
           /\ doing'[p].at = at
           /\ \A q \in Proc \ {p} : doing'[q] = doing[q]
<1>1. doing' = [doing EXCEPT ![p] = [doing[p] EXCEPT !.at = at]]
    BY DEF Goes
<1> DEFINE job == [doing[p] EXCEPT !.at = at]
<1>2. job.at = at /\ DOMAIN job = DOMAIN doing[p] /\ job = [k \in DOMAIN job |-> job[k]]
    BY DEF JobsOK
<1> HIDE DEF job
<1>3. doing'[p] = job /\ (\A q \in Proc \ {p} : doing'[q] = doing[q]) /\ DOMAIN doing' = Proc
      /\ doing' = [q \in Proc |-> doing'[q]]
    BY <1>1 DEF JobsOK, job
<1> QED BY <1>2, <1>3 DEF JobsOK

\* A process that takes on another record.
LEMMA Setting ==
    ASSUME JobsOK, NEW p \in Proc, NEW job, doing' = [doing EXCEPT ![p] = job],
           "at" \in DOMAIN job, job = [k \in DOMAIN job |-> job[k]]
    PROVE  /\ JobsOK'
           /\ doing'[p] = job
           /\ \A q \in Proc \ {p} : doing'[q] = doing[q]
BY DEF JobsOK

\* The changes of a step that only moves p, to a place outside the lock.
LEMMA StepsAside ==
    ASSUME RegistryInv, NEW p \in Proc, JobsOK',
           \A q \in Proc \ {p} : doing'[q] = doing[q],
           doing'[p].at \notin {"locked", "loaded", "saved", "reclaiming"},
           UNCHANGED <<lock, registry, expected, contested>>
    PROVE  RegistryInv'
<1>1. Within' \subseteq Within /\ Reclaiming' \subseteq Reclaiming
    BY DEF Within, Reclaiming
<1> QED BY <1>1 DEF RegistryInv, LockInv, LockOK, NoLock

\* A process that begins has no lock yet.
LEMMA BeginsKeeps ==
    ASSUME RegistryInv, NEW p \in Proc, NEW change, Begins(p, change)
    PROVE  RegistryInv'
<1> DEFINE job == [at |-> "trying", change |-> change]
<1>1. "at" \in DOMAIN job /\ job = [k \in DOMAIN job |-> job[k]] /\ job.at = "trying"
    OBVIOUS
<1> HIDE DEF job
<1>2. doing' = [doing EXCEPT ![p] = job] /\ UNCHANGED <<lock, registry, expected, contested>>
    BY DEF Begins, job
<1> QED BY <1>1, <1>2, Setting, StepsAside DEF RegistryInv

\* A process that dies leaves its lock behind.
LEMMA DiesKeeps ==
    ASSUME RegistryInv, NEW p \in Proc, doing' = [doing EXCEPT ![p] = Idle],
           UNCHANGED <<lock, registry, expected, contested>>
    PROVE  RegistryInv'
<1>1. "at" \in DOMAIN Idle /\ Idle = [k \in DOMAIN Idle |-> Idle[k]] /\ Idle.at = "idle"
    BY DEF Idle
<1> QED BY <1>1, Setting, StepsAside DEF RegistryInv

\* Who creates the lock is the only one within.
LEMMA CreateLockKeeps ==
    ASSUME RegistryInv, NEW p \in Proc, CreateLock(p)
    PROVE  RegistryInv'
<1>1. CASE lock # NoLock
    <2>1. Goes(p, "refused") /\ UNCHANGED <<lock, registry, expected, contested>>
        BY <1>1 DEF CreateLock
    <2> QED BY <2>1, Moving, StepsAside DEF RegistryInv
<1>2. CASE lock = NoLock
    <2>1. /\ Goes(p, "locked") /\ lock' = [by |-> p, old |-> FALSE]
          /\ UNCHANGED <<registry, expected, contested>>
        BY <1>2 DEF CreateLock
    <2>2. /\ JobsOK' /\ doing'[p].at = "locked"
          /\ \A q \in Proc \ {p} : doing'[q] = doing[q]
        BY <2>1, Moving DEF RegistryInv
    <2>3. ~contested => Within = {} /\ Reclaiming = {}
        BY <1>2, RegistryAssumption DEF RegistryInv, LockInv, NoLock, Within, Reclaiming
    <2>4. Within' = Within \cup {p} /\ Reclaiming' \subseteq Reclaiming
        BY <2>2 DEF Within, Reclaiming
    <2>5. lock'.by = p /\ lock' \in [by : Proc \cup {Nobody}, old : BOOLEAN]
        BY <2>1
    <2> QED BY <2>1, <2>2, <2>3, <2>4, <2>5 DEF RegistryInv, LockInv, LockOK
<1> QED BY <1>1, <1>2

\* An old lock whose holder is at work is contested when it is found.
LEMMA FindOldKeeps ==
    ASSUME RegistryInv, NEW p \in Proc, FindOld(p)
    PROVE  RegistryInv'
<1>1. /\ Goes(p, "reclaiming") /\ lock.old
      /\ contested' = (contested \/ Reclaiming # {} \/ lock.by \in Within)
      /\ UNCHANGED <<lock, registry, expected>>
    BY DEF FindOld
<1>2. /\ JobsOK' /\ doing'[p].at = "reclaiming"
      /\ \A q \in Proc \ {p} : doing'[q] = doing[q]
    BY <1>1, Moving DEF RegistryInv
<1>3. Within' \subseteq Within /\ Reclaiming' = Reclaiming \cup {p}
    BY <1>2 DEF Within, Reclaiming
<1>4. lock # NoLock
    BY <1>1 DEF NoLock
<1>5. contested' \in BOOLEAN
    BY <1>1
<1> QED BY <1>1, <1>2, <1>3, <1>4, <1>5 DEF RegistryInv, LockInv, LockOK

\* Nobody is within while one reclaims.
LEMMA ReclaimKeeps ==
    ASSUME RegistryInv, NEW p \in Proc, Reclaim(p)
    PROVE  RegistryInv'
<1>1. /\ doing[p].at = "reclaiming" /\ Goes(p, "trying") /\ lock' = NoLock
      /\ UNCHANGED <<registry, expected, contested>>
    BY DEF Reclaim
<1>2. /\ JobsOK' /\ doing'[p].at = "trying"
      /\ \A q \in Proc \ {p} : doing'[q] = doing[q]
    BY <1>1, Moving DEF RegistryInv
<1>3. ~contested => Within = {} /\ Reclaiming = {p}
    BY <1>1 DEF RegistryInv, LockInv, Within, Reclaiming
<1>4. Within' \subseteq Within /\ Reclaiming' = Reclaiming \ {p}
    BY <1>2 DEF Within, Reclaiming
<1>5. LockOK'
    BY <1>1 DEF LockOK, NoLock
<1> QED BY <1>1, <1>2, <1>3, <1>4, <1>5 DEF RegistryInv, LockInv

\* Whoever releases was the only one within.
LEMMA ReleaseKeeps ==
    ASSUME RegistryInv, NEW p \in Proc, Release(p)
    PROVE  RegistryInv'
<1>1. /\ doing[p].at \in {"loaded", "saved"} /\ doing' = [doing EXCEPT ![p] = Idle] /\ lock' = NoLock
      /\ UNCHANGED <<registry, expected, contested>>
    BY DEF Release
<1>2. "at" \in DOMAIN Idle /\ Idle = [k \in DOMAIN Idle |-> Idle[k]] /\ Idle.at = "idle"
    BY DEF Idle
<1>3. /\ JobsOK' /\ doing'[p].at = "idle"
      /\ \A q \in Proc \ {p} : doing'[q] = doing[q]
    BY <1>1, <1>2, Setting DEF RegistryInv
<1>4. ~contested => Within = {p} /\ Reclaiming = {}
    BY <1>1 DEF RegistryInv, LockInv, Within, Reclaiming
<1>5. Within' = Within \ {p} /\ Reclaiming' \subseteq Reclaiming
    BY <1>3 DEF Within, Reclaiming
<1>6. LockOK'
    BY <1>1 DEF LockOK, NoLock
<1> QED BY <1>1, <1>3, <1>4, <1>5, <1>6 DEF RegistryInv, LockInv

\* What is loaded is what is there.
LEMMA LoadKeeps ==
    ASSUME RegistryInv, NEW p \in Proc, Load(p)
    PROVE  RegistryInv'
<1> DEFINE job == [at |-> "loaded", change |-> doing[p].change, listed |-> registry]
<1>1. /\ "at" \in DOMAIN job /\ job = [k \in DOMAIN job |-> job[k]]
      /\ job.at = "loaded" /\ job.listed = registry
    OBVIOUS
<1> HIDE DEF job
<1>2. /\ doing[p].at = "locked" /\ doing' = [doing EXCEPT ![p] = job]
      /\ UNCHANGED <<lock, registry, expected, contested>>
    BY DEF Load, job
<1>3. JobsOK' /\ doing'[p] = job /\ \A q \in Proc \ {p} : doing'[q] = doing[q]
    BY <1>1, <1>2, Setting DEF RegistryInv
<1>4. Within' = Within /\ Reclaiming' = Reclaiming
    BY <1>1, <1>2, <1>3 DEF Within, Reclaiming
<1> QED BY <1>1, <1>2, <1>3, <1>4 DEF RegistryInv, LockInv, LockOK

\* What is saved is made of what is there.
LEMMA SaveKeeps ==
    ASSUME RegistryInv, NEW p \in Proc, Save(p)
    PROVE  RegistryInv'
<1>1. /\ doing[p].at = "loaded" /\ Goes(p, "saved")
      /\ registry' = Changed(doing[p].change, doing[p].listed)
      /\ expected' = Changed(doing[p].change, expected)
      /\ UNCHANGED <<lock, contested>>
    BY DEF Save
<1>2. /\ JobsOK' /\ doing'[p].at = "saved"
      /\ \A q \in Proc \ {p} : doing'[q] = doing[q]
    BY <1>1, Moving DEF RegistryInv
<1>3. Within' = Within /\ Reclaiming' = Reclaiming
    BY <1>1, <1>2 DEF Within, Reclaiming
<1>4. ~contested => Within = {p} /\ registry' = expected'
    BY <1>1 DEF RegistryInv, LockInv, Within
<1>5. ~contested => \A q \in Proc : doing'[q].at # "loaded"
    BY <1>2, <1>4 DEF Within
<1> QED BY <1>1, <1>2, <1>3, <1>4, <1>5 DEF RegistryInv, LockInv, LockOK

\* Steps that leave the processes alone.
LEMMA ElsewhereKeeps ==
    ASSUME RegistryInv, UNCHANGED <<registry, doing, expected, contested>>,
           lock' = lock \/ (lock # NoLock /\ lock' = [lock EXCEPT !.old = TRUE])
    PROVE  RegistryInv'
<1>1. Within' = Within /\ Reclaiming' = Reclaiming
    BY DEF Within, Reclaiming
<1>2. lock'.by = lock.by /\ LockOK' /\ (lock # NoLock => lock' # NoLock)
    <2>1. CASE lock' = lock
        BY <2>1 DEF RegistryInv, LockOK
    <2>2. CASE lock # NoLock /\ lock' = [lock EXCEPT !.old = TRUE]
        <3>1. lock' = [by |-> lock.by, old |-> TRUE]
            BY <2>2 DEF RegistryInv, LockOK
        <3> QED BY <3>1 DEF RegistryInv, LockOK, NoLock
    <2> QED BY <2>1, <2>2
<1> QED BY <1>1, <1>2 DEF RegistryInv, LockInv, JobsOK

\* In every reachable state the lock is that of who is within, unless contested.
LEMMA RegistryInvariant == Spec => []RegistryInv
<1>1. ASSUME Init
      PROVE  RegistryInv
    <2>1. "at" \in DOMAIN Idle /\ Idle = [k \in DOMAIN Idle |-> Idle[k]] /\ Idle.at = "idle"
        BY DEF Idle
    <2>2. JobsOK /\ \A p \in Proc : doing[p].at = "idle"
        BY <1>1, <2>1 DEF Init, JobsOK
    <2>3. Within = {} /\ Reclaiming = {}
        BY <2>2 DEF Within, Reclaiming
    <2>4. LockOK
        BY <1>1 DEF Init, LockOK, NoLock
    <2> QED BY <1>1, <2>2, <2>3, <2>4 DEF Init, RegistryInv, LockInv
<1>2. ASSUME RegistryInv, [Next]_vars
      PROVE  RegistryInv'
    <2>1. ASSUME NEW p \in Proc, NEW change, Begins(p, change)
          PROVE  RegistryInv'
        BY <1>2, <2>1, BeginsKeeps
    <2>2. ASSUME NEW p \in Proc, FindGone(p) \/ FindInUse(p)
          PROVE  RegistryInv'
        <3>1. /\ Goes(p, "trying") \/ doing' = [doing EXCEPT ![p] = Idle]
              /\ UNCHANGED <<lock, registry, expected, contested>>
            BY <2>2 DEF FindGone, FindInUse
        <3>2. CASE Goes(p, "trying")
            BY <1>2, <3>1, <3>2, Moving, StepsAside DEF RegistryInv
        <3>3. CASE doing' = [doing EXCEPT ![p] = Idle]
            BY <1>2, <3>1, <3>3, DiesKeeps
        <3> QED BY <3>1, <3>2, <3>3
    <2>3. ASSUME NEW p \in Proc, Dies(p)
          PROVE  RegistryInv'
        BY <1>2, <2>3, DiesKeeps DEF Dies
    <2>4. ASSUME NEW p \in Proc, \/ CreateLock(p) \/ FindOld(p) \/ Reclaim(p)
                                 \/ Release(p) \/ Load(p) \/ Save(p)
          PROVE  RegistryInv'
        BY <1>2, <2>4, CreateLockKeeps, FindOldKeeps, ReclaimKeeps, ReleaseKeeps, LoadKeeps, SaveKeeps
    <2>5. CASE LockAges
        BY <1>2, <2>5, ElsewhereKeeps DEF LockAges
    <2>6. CASE \E d \in Project : DirectoryGoes(d)
        BY <1>2, <2>6, ElsewhereKeeps DEF DirectoryGoes
    <2>7. CASE UNCHANGED vars
        BY <1>2, <2>7, ElsewhereKeeps DEF vars
    <2> QED BY <1>2, <2>1, <2>2, <2>3, <2>4, <2>5, <2>6, <2>7
            DEF Next, register_project, unregister_project, prune_registry, read_registry
<1> QED BY <1>1, <1>2, PTL DEF Spec

\* Two changes overlap only if a lock was reclaimed by two at once, or from
\* one that was still at work.
THEOREM ChangesAreSerial == Spec => []ChangesExclude
<1>1. RegistryInv => ChangesExclude
    BY DEF RegistryInv, LockInv, ChangesExclude
<1> QED BY <1>1, RegistryInvariant, PTL

\* The registry is what the changes, each made at once, make of it.
THEOREM RegistryIsExact == Spec => []RegistryExact
<1>1. RegistryInv => RegistryExact
    BY DEF RegistryInv, LockInv, RegistryExact
<1> QED BY <1>1, RegistryInvariant, PTL

-----------------------------------------------------------------------------
(* Work items.                                                             *)

\* The states of a command in upsert() and save().
Saving == {"loaded", "writing tmp", "writing live", "writing nothing", "written", "saved"}
Ops == {"create", "set_status", "mark_implemented", "promote_to_req", "set_files_touched", "add_test_case_ids", "tag"}

Begun == [at : {"got"}, op : Ops, id : Wi, to : WI_STATES]
Update == [at : Saving, op : Ops, id : Wi, to : WI_STATES, items : Items]
Sweep == [at : {"sweep"}, listed : SUBSET Wi]
Swept == [at : {"swept"}, orphans : SUBSET Wi]
Doing == {Free} \cup Begun \cup Update \cup Sweep \cup Swept
File == {NoFile, Empty, Torn} \cup {Listing(items) : items \in Items}

Contents(f) == IF f.kind = "list" THEN f.items ELSE NoItems

\* What process d of a lone command knows is so, with these items in the live
\* file and this temporary file.
Lone(d, items, f) ==
    /\ d.at = "got" => Legal(items[d.id], d.to) \/ d.to = items[d.id]
    /\ d.at \in {"loaded", "writing tmp", "written"} =>
          /\ d.items = [items EXCEPT ![d.id] = d.to]
          /\ Legal(items[d.id], d.to) \/ d.to = items[d.id]
    /\ d.at = "writing tmp" => f = Empty
    /\ d.at = "written" => f = Listing(d.items)
    /\ d.at \notin {"writing live", "writing nothing"}
    /\ d.at = "saved" => items[d.id] = d.to
    /\ d.at = "sweep" => d.listed = {w \in Wi : items[w] # None}
    /\ d.at = "swept" => \A w \in d.orphans : items[w] = None

ItemTypes == /\ ItemsTypeOK
             /\ work \in [Process -> Doing]

Agree == \A w \in Wi \ unsynced : mirror[w] = load[w]

ItemsInv == /\ ItemTypes
            /\ overlapped => unsynced = Wi
            /\ ~overlapped =>
                  /\ load = kept
                  /\ Agree
                  /\ \A p \in Process : work[p] # Free => Others(p) = {} /\ Lone(work[p], load, tmp)

\* What a command has at hand tells by where it is.
LEMMA Shapes ==
    ASSUME NEW d \in Doing
    PROVE  /\ d.at = "got" => d \in Begun
           /\ d.at \in Saving => d \in Update
           /\ d.at = "sweep" => d \in Sweep
           /\ d.at = "swept" => d \in Swept
           /\ d.at = "idle" <=> d = Free
<1>1. Free.at = "idle" /\ Free \notin Begun /\ Free \notin Update /\ Free \notin Sweep /\ Free \notin Swept
  BY DEF Free, Begun, Update, Saving, Sweep, Swept
<1>2. \A r \in Begun : r.at = "got"
  BY DEF Begun
<1>3. \A r \in Update : r.at \in Saving
  BY DEF Update
<1>4. (\A r \in Sweep : r.at = "sweep") /\ (\A r \in Swept : r.at = "swept")
  BY DEF Sweep, Swept
<1> QED
  BY <1>1, <1>2, <1>3, <1>4 DEF Doing, Saving

\* A command in save() that goes on keeps what it is to write.
LEMMA Moves ==
    ASSUME NEW d \in Update, NEW x \in Saving
    PROVE  /\ [d EXCEPT !.at = x] \in Update
           /\ [d EXCEPT !.at = x].at = x
           /\ [d EXCEPT !.at = x].id = d.id
           /\ [d EXCEPT !.at = x].to = d.to
           /\ [d EXCEPT !.at = x].items = d.items
           /\ [d EXCEPT !.at = x].op = d.op
BY DEF Update

\* Whatever a file holds, it is loaded as a list of items.
LEMMA FileContents ==
    ASSUME NEW f \in File
    PROVE  Contents(f) \in Items
BY DEF File, Contents, NoItems, NoFile, Empty, Torn, Listing, Items

\* A list that was written whole is loaded as it is.
LEMMA ListingContents == ASSUME NEW s \in Items PROVE Contents(Listing(s)) = s /\ Listing(s) \in File
BY DEF Contents, Listing, File

\* Files that hold no list.
LEMMA EmptyContents == Empty \in File /\ Torn \in File /\ NoFile \in File
BY DEF File

\* What is loaded, mirrored and remembered are items.
LEMMA ItemsFacts ==
    ASSUME ItemTypes
    PROVE  /\ live \in File /\ tmp \in File /\ load = Contents(live) /\ load \in Items
           /\ mirror \in Items /\ kept \in Items /\ unsynced \in SUBSET Wi
BY FileContents DEF ItemTypes, ItemsTypeOK, File, load, Contents

\* A step of a process that is at work: if it is the only one, it keeps the
\* invariant if what it knows of the file and the mirror is true afterwards.
LEMMA OneStep ==
    ASSUME ItemsInv, NEW p \in Process, work[p] # Free,
           work' \in [Process -> Doing], \A q \in Process \ {p} : work[q] = Free => work'[q] = Free,
           live' \in File, tmp' \in File, mirror' \in Items, kept' \in Items, unsynced' \in SUBSET Wi,
           UNCHANGED <<ops, overlapped>>,
           overlapped => unsynced' = Wi,
           ~overlapped => /\ load' = kept'
                          /\ Agree'
                          /\ work'[p] # Free => Lone(work'[p], load', tmp')
    PROVE  ItemsInv'
<1>1. ItemTypes'
  BY DEF ItemsInv, ItemTypes, ItemsTypeOK, File
<1>2. ASSUME ~overlapped, NEW q \in Process, work'[q] # Free
      PROVE  Others(q)' = {} /\ Lone(work'[q], load', tmp')
  <2>1. Others(p) = {}
    BY <1>2 DEF ItemsInv
  <2>2. \A r \in Process \ {p} : work'[r] = Free
    BY <2>1 DEF Others
  <2>3. q = p
    BY <1>2, <2>2
  <2> QED
    BY <1>2, <2>2, <2>3 DEF Others
<1>3. \A q \in Process : Lone(work[q], load, tmp)' <=> Lone(work'[q], load', tmp')
  BY DEF Lone
<1>4. ~overlapped => \A q \in Process : work'[q] # Free => Others(q)' = {} /\ Lone(work[q], load, tmp)'
  BY <1>2, <1>3
<1> QED
  BY <1>1, <1>4 DEF ItemsInv

\* Steps that leave the two files and the mirror alone.
LEMMA QuietStep ==
    ASSUME ItemsInv, NEW p \in Process, work[p] # Free, NEW e \in Doing, work' = [work EXCEPT ![p] = e],
           UNCHANGED <<live, tmp, mirror, ops, overlapped, kept, unsynced>>,
           ~overlapped /\ e # Free => Lone(e, load, tmp)
    PROVE  ItemsInv'
<1>1. work' \in [Process -> Doing] /\ work'[p] = e /\ \A q \in Process \ {p} : work'[q] = work[q]
  BY DEF ItemsInv, ItemTypes
<1>2. load' = load /\ (Agree' <=> Agree)
  BY DEF load, Agree
<1> QED
  BY <1>1, <1>2, OneStep, ItemsFacts DEF ItemsInv

\* Who leaves says nothing any more.
LEMMA LeaveKeeps == ASSUME ItemsInv, NEW p \in Process, Leave(p) \/ ReplaceFails(p) PROVE ItemsInv'
<1>1. work[p] # Free
  BY DEF Leave, ReplaceFails, Free
<1> QED
  BY <1>1, QuietStep DEF Leave, ReplaceFails, Doing

\* What is loaded again is what was loaded.
LEMMA ReloadKeeps == ASSUME ItemsInv, NEW p \in Process, Reload(p) PROVE ItemsInv'
<1>1. PICK d \in Begun : d = work[p]
  BY Shapes DEF ItemsInv, ItemTypes, Reload
<1>2. PICK s \in Items : s = load
  BY ItemsFacts DEF ItemsInv
<1>3. PICK t \in Items : t = [s EXCEPT ![d.id] = d.to]
  BY <1>1, <1>2 DEF Items, Begun
<1>4. PICK e \in Update : /\ e.at = "loaded" /\ e.id = d.id /\ e.to = d.to /\ e.items = t
                          /\ e = [at |-> "loaded", op |-> d.op, id |-> d.id, to |-> d.to, items |-> t]
  <2> DEFINE e == [at |-> "loaded", op |-> d.op, id |-> d.id, to |-> d.to, items |-> t]
  <2>1. e \in Update
    BY <1>1, <1>3 DEF Begun, Update, Saving
  <2> QED
    BY <2>1
<1>5. work' = [work EXCEPT ![p] = e]
  BY <1>1, <1>2, <1>3, <1>4 DEF Reload
<1>6. work[p] # Free /\ work[p].at = "got"
  BY DEF Reload, Free
<1>7. ~overlapped => Legal(s[d.id], d.to) \/ d.to = s[d.id]
  BY <1>1, <1>2, <1>6 DEF ItemsInv, Lone
<1>8. ~overlapped => Lone(e, load, tmp)
  BY <1>2, <1>3, <1>4, <1>7 DEF Lone
<1> QED
  BY <1>4, <1>5, <1>6, <1>8, QuietStep DEF Reload, Doing

\* A process in save(), and what it goes on with.
LEMMA Saves ==
    ASSUME ItemsInv, NEW p \in Process, work[p].at \in Saving, NEW x \in Saving, Proceeds(p, x)
    PROVE  /\ work[p] # Free /\ work[p] \in Update /\ work'[p] \in Update
           /\ work'[p].at = x /\ work'[p].id = work[p].id
           /\ work'[p].to = work[p].to /\ work'[p].items = work[p].items
           /\ work' \in [Process -> Doing] /\ \A q \in Process \ {p} : work'[q] = work[q]
<1>1. PICK d \in Update : d = work[p]
  BY Shapes DEF ItemsInv, ItemTypes
<1>2. PICK e \in Update : /\ e = [d EXCEPT !.at = x]
                          /\ e.at = x /\ e.id = d.id /\ e.to = d.to /\ e.items = d.items
  BY Moves
<1>3. work' = [work EXCEPT ![p] = e]
  BY <1>1, <1>2 DEF Proceeds
<1>4. e \in Doing
  BY DEF Doing
<1>5. work'[p] = e /\ work' \in [Process -> Doing] /\ \A q \in Process \ {p} : work'[q] = work[q]
  BY <1>3, <1>4 DEF ItemsInv, ItemTypes
<1>6. work[p] # Free
  <2>1. Free.at = "idle" /\ "idle" \notin Saving
    BY DEF Free, Saving
  <2> QED
    BY <2>1
<1> QED
  BY <1>1, <1>2, <1>3, <1>5, <1>6

\* Alone, the temporary file is empty when it is open.
LEMMA OpenKeeps == ASSUME ItemsInv, NEW p \in Process, Open(p) PROVE ItemsInv'
<1>0. work[p].at = "loaded" /\ tmp' = Empty /\ Proceeds(p, "writing tmp")
      /\ UNCHANGED <<live, mirror, ops, overlapped, kept, unsynced>>
  BY DEF Open
<1>1. work[p].at \in Saving /\ "writing tmp" \in Saving
  BY <1>0 DEF Saving
<1>2. PICK d, e \in Update :
          /\ d = work[p] /\ e = work'[p] /\ work[p] # Free
          /\ e.at = "writing tmp" /\ e.id = d.id /\ e.to = d.to /\ e.items = d.items
          /\ work' \in [Process -> Doing] /\ \A q \in Process \ {p} : work'[q] = work[q]
  BY <1>0, <1>1, Saves
<1>3. load' = load /\ (Agree' <=> Agree)
  BY <1>0 DEF load, Agree
<1>4. ASSUME ~overlapped PROVE Lone(e, load, tmp')
  <2>1. Lone(d, load, tmp)
    BY <1>2, <1>4 DEF ItemsInv
  <2> QED
    BY <1>0, <1>2, <2>1 DEF Lone
<1> QED
  BY <1>0, <1>2, <1>3, <1>4, OneStep, ItemsFacts, EmptyContents DEF ItemsInv

\* Alone, what is written is the whole list.
LEMMA WriteKeeps == ASSUME ItemsInv, NEW p \in Process, Write(p) PROVE ItemsInv'
<1>0. UNCHANGED <<mirror, ops, overlapped, kept, unsynced>> /\ Proceeds(p, "written")
  BY DEF Write
<1>1. work[p].at \in Saving /\ "written" \in Saving
  BY DEF Write, Saving
<1>2. PICK d, e \in Update :
          /\ d = work[p] /\ e = work'[p] /\ work[p] # Free
          /\ e.at = "written" /\ e.id = d.id /\ e.to = d.to /\ e.items = d.items
          /\ work' \in [Process -> Doing] /\ \A q \in Process \ {p} : work'[q] = work[q]
  BY <1>0, <1>1, Saves
<1>3. PICK t \in Items : t = d.items
  BY DEF Update
<1>4. \A f : Written(f, t) \subseteq File
  BY ListingContents, EmptyContents DEF Written
<1>5. live' \in File /\ tmp' \in File
  BY <1>2, <1>3, <1>4, ItemsFacts DEF Write, ItemsInv
<1>6. ASSUME ~overlapped
      PROVE  load' = load /\ (Agree' <=> Agree) /\ Lone(e, load, tmp')
  <2>1. Lone(d, load, tmp)
    BY <1>2, <1>6 DEF ItemsInv
  <2>2. d.at = "writing tmp"
    BY <1>2, <2>1 DEF Write, Lone
  <2>3. tmp' = Listing(t) /\ UNCHANGED live
    BY <1>2, <1>3, <2>1, <2>2 DEF Write, Lone, Written
  <2>4. load' = load /\ (Agree' <=> Agree)
    BY <1>0, <2>3 DEF load, Agree
  <2> QED
    BY <1>2, <1>3, <2>1, <2>2, <2>3, <2>4 DEF Lone
<1>7. mirror' \in Items /\ kept' \in Items /\ unsynced' \in SUBSET Wi
  BY <1>0, ItemsFacts DEF ItemsInv
<1>8. ~overlapped => load' = kept' /\ Agree' /\ Lone(e, load', tmp')
  <2>1. ~overlapped => load = kept /\ Agree
    BY DEF ItemsInv
  <2> QED
    BY <1>0, <1>6, <2>1
<1> QED
  BY <1>0, <1>2, <1>5, <1>7, <1>8, OneStep DEF ItemsInv

\* A rename by another takes a process further, but takes up no work.
LEMMA RenamedFacts ==
    ASSUME NEW d \in Doing
    PROVE  Renamed(d) \in Doing /\ (d = Free => Renamed(d) = Free)
<1>1. CASE d.at \in {"writing tmp", "writing live"}
  <2>1. d \in Update /\ "writing live" \in Saving /\ "writing nothing" \in Saving
    BY <1>1, Shapes DEF Saving
  <2>2. [d EXCEPT !.at = "writing live"] \in Update /\ [d EXCEPT !.at = "writing nothing"] \in Update
    BY <2>1, Moves
  <2>3. Renamed(d) \in Update
    BY <1>1, <2>2 DEF Renamed
  <2>4. d # Free
    BY <1>1, Shapes
  <2> QED
    BY <2>3, <2>4 DEF Doing
<1>2. CASE d.at \notin {"writing tmp", "writing live"}
  BY <1>2 DEF Renamed
<1> QED
  BY <1>1, <1>2

\* What becomes the live file is the list that was loaded, with one legal change.
LEMMA ReplaceKeeps ==
    ASSUME ItemsInv, NEW p \in Process, Replace(p)
    PROVE  /\ ItemsInv'
           /\ ~overlapped => \E w \in Wi, t \in WI_STATES : load' = [load EXCEPT ![w] = t] /\ (Legal(load[w], t) \/ t = load[w])
<1>0. /\ work[p].at = "written" /\ tmp # NoFile /\ live' = tmp /\ tmp' = NoFile
      /\ work' = [q \in Process |-> IF q = p THEN [work[p] EXCEPT !.at = "saved"] ELSE Renamed(work[q])]
      /\ kept' = [kept EXCEPT ![work[p].id] = work[p].to]
      /\ unsynced' = IF kept[work[p].id] = work[p].to THEN unsynced ELSE unsynced \cup {work[p].id}
      /\ UNCHANGED <<mirror, ops, overlapped>>
  BY DEF Replace
<1>1. PICK d \in Update : d = work[p] /\ work[p] # Free
  BY <1>0, Shapes DEF ItemsInv, ItemTypes, Saving, Free
<1>2. PICK e \in Update : e = [d EXCEPT !.at = "saved"] /\ e.at = "saved" /\ e.id = d.id /\ e.to = d.to
  BY Moves DEF Saving
<1>3. /\ work' \in [Process -> Doing] /\ work'[p] = e
      /\ \A q \in Process \ {p} : work[q] = Free => work'[q] = Free
  BY <1>0, <1>1, <1>2, RenamedFacts DEF ItemsInv, ItemTypes, Doing
<1>4. PICK w \in Wi, t \in WI_STATES : w = d.id /\ t = d.to
  BY DEF Update
<1>5. PICK s \in Items : s = load
  BY ItemsFacts DEF ItemsInv
<1>6. PICK k \in Items : k = kept
  BY ItemsFacts DEF ItemsInv
<1>7. /\ kept' \in Items /\ unsynced' \in SUBSET Wi /\ mirror' \in Items /\ live' \in File /\ tmp' \in File
      /\ overlapped => unsynced' = Wi
  <2>1. kept' \in Items
    BY <1>0, <1>1, <1>4, <1>6 DEF Items
  <2> QED
    BY <1>0, <1>1, <1>4, <2>1, ItemsFacts, EmptyContents DEF ItemsInv
<1>8. ASSUME ~overlapped
      PROVE  /\ load' = kept' /\ Agree' /\ Lone(e, load', tmp')
             /\ load' = [s EXCEPT ![w] = t] /\ (Legal(s[w], t) \/ t = s[w])
  <2>1. Lone(d, s, tmp) /\ s = k /\ Agree
    BY <1>1, <1>5, <1>6, <1>8 DEF ItemsInv
  <2>2. PICK n \in Items : n = d.items /\ n = [s EXCEPT ![w] = t] /\ tmp = Listing(n) /\ (Legal(s[w], t) \/ t = s[w])
    BY <1>0, <1>1, <1>4, <2>1 DEF Lone, Update
  <2>3. load' = n
    BY <1>0, <2>2, ListingContents DEF load, Contents
  <2>4. kept' = n
    BY <1>0, <1>1, <1>4, <1>6, <2>1, <2>2
  <2>5. Agree'
    <3>1. n[w] = t /\ \A v \in Wi \ {w} : n[v] = s[v]
      BY <2>2 DEF Items
    <3>2. ASSUME NEW v \in Wi, v \notin unsynced' PROVE mirror[v] = n[v]
      <4>1. v \notin unsynced /\ mirror[v] = s[v]
        BY <1>0, <1>5, <2>1, <3>2 DEF Agree
      <4>2. v = w => s[v] = t
        BY <1>0, <1>1, <1>4, <1>6, <2>1, <3>2
      <4> QED
        BY <3>1, <4>1, <4>2
    <3> QED
      BY <1>0, <2>3, <3>2 DEF Agree
  <2>6. Lone(e, n, tmp')
    <3>1. n[w] = t
      BY <2>2 DEF Items
    <3> QED
      BY <1>2, <1>4, <3>1 DEF Lone
  <2> QED
    BY <2>2, <2>3, <2>4, <2>5, <2>6
<1>9. ItemsInv'
  BY <1>0, <1>1, <1>3, <1>7, <1>8, OneStep
<1> QED
  BY <1>5, <1>8, <1>9

\* The record gets the status that the file has.
LEMMA SyncKeeps == ASSUME ItemsInv, NEW p \in Process, Sync(p) PROVE ItemsInv'
<1>0. /\ work[p].at = "saved" /\ work' = [work EXCEPT ![p] = Free]
      /\ mirror' = [mirror EXCEPT ![work[p].id] = work[p].to]
      /\ unsynced' = IF overlapped THEN unsynced ELSE unsynced \ {work[p].id}
      /\ UNCHANGED <<live, tmp, ops, overlapped, kept>>
  BY DEF Sync
<1>1. PICK d \in Update : d = work[p] /\ work[p] # Free
  BY <1>0, Shapes DEF ItemsInv, ItemTypes, Saving, Free
<1>2. PICK w \in Wi, t \in WI_STATES : w = d.id /\ t = d.to
  BY DEF Update
<1>3. PICK m \in Items : m = mirror
  BY ItemsFacts DEF ItemsInv
<1>4. PICK n \in Items : n = mirror' /\ n[w] = t /\ \A v \in Wi \ {w} : n[v] = m[v]
  BY <1>0, <1>1, <1>2, <1>3 DEF Items
<1>5. /\ work' \in [Process -> Doing] /\ work'[p] = Free
      /\ \A q \in Process \ {p} : work[q] = Free => work'[q] = Free
  BY <1>0 DEF ItemsInv, ItemTypes, Doing
<1>6. load' = load
  BY <1>0 DEF load
<1>7. ASSUME ~overlapped PROVE load' = kept' /\ Agree'
  <2>1. load[w] = t /\ Agree /\ load = kept
    BY <1>0, <1>1, <1>2, <1>7 DEF ItemsInv, Lone
  <2>2. unsynced' = unsynced \ {w}
    BY <1>0, <1>1, <1>2, <1>7
  <2>3. ASSUME NEW v \in Wi, v \notin unsynced' PROVE n[v] = load[v]
    <3>1. v = w \/ m[v] = load[v]
      BY <1>3, <2>1, <2>2, <2>3 DEF Agree
    <3> QED
      BY <1>4, <2>1, <3>1
  <2> QED
    BY <1>0, <1>4, <1>6, <2>1, <2>3 DEF Agree
<1>8. /\ live' \in File /\ tmp' \in File /\ mirror' \in Items /\ kept' \in Items /\ unsynced' \in SUBSET Wi
      /\ overlapped => unsynced' = Wi
  BY <1>0, <1>4, ItemsFacts DEF ItemsInv
<1> QED
  BY <1>0, <1>1, <1>5, <1>7, <1>8, OneStep

\* Orphans are not in the file.
LEMMA QueryKeeps == ASSUME ItemsInv, NEW p \in Process, SweepQuery(p) PROVE ItemsInv'
<1>0. /\ work[p].at = "sweep"
      /\ UNCHANGED <<live, tmp, mirror, ops, overlapped, kept, unsynced>>
  BY DEF SweepQuery
<1>1. PICK d \in Sweep : d = work[p] /\ work[p] # Free
  BY <1>0, Shapes DEF ItemsInv, ItemTypes, Free
<1>2. PICK o \in SUBSET Wi : o = {w \in Wi : mirror[w] \in {"open", "implemented"}} \ d.listed
  OBVIOUS
<1>3. PICK e \in Swept : e = [at |-> "swept", orphans |-> o] /\ e.at = "swept" /\ e.orphans = o
  <2> DEFINE e == [at |-> "swept", orphans |-> o]
  <2>1. e \in Swept
    BY DEF Swept
  <2> QED
    BY <2>1
<1>4. work' = [work EXCEPT ![p] = e]
  BY <1>1, <1>2, <1>3 DEF SweepQuery
<1>5. ASSUME ~overlapped PROVE Lone(e, load, tmp)
  <2>1. d.listed = {w \in Wi : load[w] # None}
    BY <1>0, <1>1, <1>5 DEF ItemsInv, Lone
  <2>2. \A w \in o : load[w] = None
    BY <1>2, <2>1
  <2> QED
    BY <1>3, <2>2 DEF Lone
<1> QED
  BY <1>0, <1>1, <1>3, <1>4, <1>5, QuietStep DEF Doing

\* The record of an orphan goes, and the file does not have its item.
LEMMA OrphanKeeps == ASSUME ItemsInv, NEW p \in Process, SweepOrphan(p) PROVE ItemsInv'
<1>1. PICK w \in work[p].orphans : mirror' = [mirror EXCEPT ![w] = None] /\ work' = [work EXCEPT ![p].orphans = @ \ {w}]
  BY DEF SweepOrphan
<1>0. work[p].at = "swept" /\ UNCHANGED <<live, tmp, ops, overlapped, kept, unsynced>>
  BY DEF SweepOrphan
<1>2. PICK d \in Swept : d = work[p] /\ work[p] # Free
  BY <1>0, Shapes DEF ItemsInv, ItemTypes, Free
<1>3. PICK o \in SUBSET Wi : o = d.orphans \ {w} /\ w \in d.orphans /\ w \in Wi
  BY <1>1, <1>2 DEF Swept
<1>4. PICK e \in Swept : e = [d EXCEPT !.orphans = d.orphans \ {w}] /\ e.at = "swept" /\ e.orphans = o
  <2> DEFINE e == [at |-> "swept", orphans |-> o]
  <2>1. e \in Swept
    BY DEF Swept
  <2>2. e = [d EXCEPT !.orphans = d.orphans \ {w}]
    BY <1>3 DEF Swept
  <2> QED
    BY <2>1, <2>2
<1>5. work' = [work EXCEPT ![p] = e]
  BY <1>1, <1>2, <1>4
<1>6. /\ work' \in [Process -> Doing] /\ work'[p] = e
      /\ \A q \in Process \ {p} : work[q] = Free => work'[q] = Free
  BY <1>5 DEF ItemsInv, ItemTypes, Doing
<1>7. PICK m \in Items : m = mirror
  BY ItemsFacts DEF ItemsInv
<1>8. PICK n \in Items : n = mirror' /\ n[w] = None /\ \A v \in Wi \ {w} : n[v] = m[v]
  BY <1>1, <1>3, <1>7 DEF Items
<1>9. load' = load
  BY <1>0 DEF load
<1>10. ASSUME ~overlapped PROVE load' = kept' /\ Agree' /\ Lone(e, load', tmp')
  <2>1. Agree /\ load = kept /\ \A v \in d.orphans : load[v] = None
    BY <1>0, <1>2, <1>10 DEF ItemsInv, Lone
  <2>2. \A v \in Wi \ unsynced : n[v] = load[v]
    BY <1>3, <1>7, <1>8, <2>1 DEF Agree
  <2>3. Lone(e, load, tmp)
    BY <1>3, <1>4, <2>1 DEF Lone
  <2> QED
    BY <1>0, <1>8, <1>9, <2>1, <2>2, <2>3 DEF Agree
<1>11. /\ live' \in File /\ tmp' \in File /\ mirror' \in Items /\ kept' \in Items /\ unsynced' \in SUBSET Wi
       /\ overlapped => unsynced' = Wi
  BY <1>0, <1>8, ItemsFacts DEF ItemsInv
<1> QED
  BY <1>0, <1>2, <1>6, <1>10, <1>11, OneStep

\* A command that begins alone starts from what is there; after one that does
\* not, nothing is said until all are done.
LEMMA BeginKeeps ==
    ASSUME ItemsInv, NEW p \in Process, NEW e \in Doing, BeginBy(p), work' = [work EXCEPT ![p] = e],
           UNCHANGED <<live, tmp, mirror>>, Lone(e, load, tmp)
    PROVE  ItemsInv'
<1>0. work[p] = Free /\ ops' = ops + 1 /\ ops < MaxOps
  BY DEF BeginBy
<1>1. work' \in [Process -> Doing] /\ work'[p] = e /\ \A q \in Process \ {p} : work'[q] = work[q]
  BY DEF ItemsInv, ItemTypes
<1>2. load' = load /\ load \in Items
  BY ItemsFacts DEF load, ItemsInv
<1>3. kept' \in Items /\ unsynced' \in SUBSET Wi /\ overlapped' \in BOOLEAN
  BY <1>2, ItemsFacts DEF BeginBy, ItemsInv
<1>4. ItemTypes'
  <2>1. ops' \in 0..MaxOps
    BY <1>0, WorkItemAssumption DEF ItemsInv, ItemTypes, ItemsTypeOK
  <2> QED
    BY <1>1, <1>3, <2>1 DEF ItemsInv, ItemTypes, ItemsTypeOK
<1>5. CASE Others(p) = {}
  <2>1. overlapped' = FALSE /\ kept' = load /\ unsynced' = unsynced
    BY <1>5 DEF BeginBy
  <2>2. \A q \in Process \ {p} : work'[q] = Free
    BY <1>1, <1>5 DEF Others
  <2>3. Agree'
    <3>1. overlapped \/ Agree
      BY DEF ItemsInv
    <3> QED
      BY <1>2, <2>1, <3>1 DEF Agree, ItemsInv
  <2>4. \A q \in Process : work'[q] # Free => Others(q)' = {} /\ Lone(work'[q], load', tmp')
    <3>1. Lone(e, load', tmp')
      BY <1>2
    <3>2. Others(p)' = {}
      BY <2>2 DEF Others
    <3> QED
      BY <1>1, <2>2, <3>1, <3>2
  <2>5. \A q \in Process : Lone(work[q], load, tmp)' <=> Lone(work'[q], load', tmp')
    BY DEF Lone
  <2>6. \A q \in Process : work'[q] # Free => Others(q)' = {} /\ Lone(work[q], load, tmp)'
    BY <2>4, <2>5
  <2> QED
    BY <1>2, <1>4, <2>1, <2>3, <2>6 DEF ItemsInv
<1>6. CASE Others(p) # {}
  <2>1. overlapped' /\ unsynced' = Wi
    BY <1>6 DEF BeginBy
  <2> QED
    BY <1>4, <2>1 DEF ItemsInv
<1> QED
  BY <1>5, <1>6

\* A command makes a legal change, or none.
LEMMA CommandFacts ==
    ASSUME NEW from \in WI_STATES \cup {None}, NEW command \in Commands(from)
    PROVE  /\ command.op \in Ops /\ command.to \in WI_STATES
           /\ Legal(from, command.to) \/ command.to = from
<1>1. None \notin WI_STATES /\ WI_TRANSITIONS(from) \subseteq WI_STATES /\ \A t \in WI_TRANSITIONS(from) : Legal(from, t)
  BY DEF None, WI_STATES, WI_TRANSITIONS, Legal
<1>2. CASE command \in [op : {"create"}, to : {t \in {"open"} : from = None}]
  BY <1>2 DEF Ops, WI_STATES, Legal
<1>3. CASE command \in [op : {"set_status"}, to : WI_TRANSITIONS(from)]
  BY <1>1, <1>3 DEF Ops
<1>4. CASE command \in [op : {"mark_implemented"}, to : {t \in {"implemented"} : from = "open"}]
  BY <1>4 DEF Ops, WI_STATES, Legal
<1>5. CASE command \in [op : {"promote_to_req"}, to : {t \in {"promoted"} : from \in {"open", "implemented"}}]
  BY <1>5 DEF Ops, WI_STATES, Legal
<1>6. CASE command \in [op : {"set_files_touched", "add_test_case_ids", "tag"}, to : {from} \ {None}]
  BY <1>1, <1>6 DEF Ops
<1> QED
  BY <1>2, <1>3, <1>4, <1>5, <1>6 DEF Commands

\* A command that begins is legal for the status it read.
LEMMA CommandKeeps == ASSUME ItemsInv, NEW p \in Process, NEW w \in Wi, Begin(p, w) PROVE ItemsInv'
<1>1. PICK command \in Commands(load[w]) :
          work' = [work EXCEPT ![p] = [at |-> "got", op |-> command.op, id |-> w, to |-> command.to]]
  BY DEF Begin
<1>2. PICK s \in Items : s = load
  BY ItemsFacts DEF ItemsInv
<1>3. s[w] \in WI_STATES \cup {None}
  BY DEF Items
<1>4. command.op \in Ops /\ command.to \in WI_STATES /\ (Legal(s[w], command.to) \/ command.to = s[w])
  BY <1>1, <1>2, <1>3, CommandFacts
<1>5. PICK e \in Begun : /\ e = [at |-> "got", op |-> command.op, id |-> w, to |-> command.to]
                         /\ e.at = "got" /\ e.id = w /\ e.to = command.to
  <2> DEFINE e == [at |-> "got", op |-> command.op, id |-> w, to |-> command.to]
  <2>1. e \in Begun
    BY <1>4 DEF Begun
  <2> QED
    BY <2>1
<1>6. work' = [work EXCEPT ![p] = e]
  BY <1>1, <1>5
<1>7. Lone(e, load, tmp)
  BY <1>2, <1>4, <1>5 DEF Lone
<1>8. BeginBy(p) /\ UNCHANGED <<live, tmp, mirror>>
  BY DEF Begin
<1> QED
  BY <1>6, <1>7, <1>8, BeginKeeps DEF Doing

\* A sweep begins with the items of the file.
LEMMA SweepKeeps == ASSUME ItemsInv, NEW p \in Process, BeginSweep(p) PROVE ItemsInv'
<1>1. PICK e \in Sweep : /\ e = [at |-> "sweep", listed |-> {w \in Wi : load[w] # None}]
                         /\ e.at = "sweep" /\ e.listed = {w \in Wi : load[w] # None}
  <2> DEFINE e == [at |-> "sweep", listed |-> {w \in Wi : load[w] # None}]
  <2>1. e \in Sweep
    BY DEF Sweep
  <2> QED
    BY <2>1
<1>2. work' = [work EXCEPT ![p] = e]
  BY <1>1 DEF BeginSweep
<1>3. Lone(e, load, tmp)
  BY <1>1 DEF Lone
<1>4. BeginBy(p) /\ UNCHANGED <<live, tmp, mirror>>
  BY DEF BeginSweep
<1> QED
  BY <1>2, <1>3, <1>4, BeginKeeps DEF Doing

\* Every step keeps what lone commands know.
LEMMA ItemsStep == ItemsInv /\ [ItemsNext]_itemVars => ItemsInv'
<1> SUFFICES ASSUME ItemsInv, [ItemsNext]_itemVars PROVE ItemsInv'
  OBVIOUS
<1>1. CASE UNCHANGED itemVars
  BY <1>1 DEF itemVars, ItemsInv, ItemTypes, ItemsTypeOK, Agree, load, Lone, Others
<1>2. ASSUME NEW p \in Process, Sync(p) \/ SweepQuery(p) \/ SweepOrphan(p) \/ BeginSweep(p) \/ \E w \in Wi : Begin(p, w)
      PROVE  ItemsInv'
  BY <1>2, SyncKeeps, QueryKeeps, OrphanKeeps, SweepKeeps, CommandKeeps
<1>3. ASSUME NEW p \in Process, Reload(p) \/ Open(p) \/ Write(p) \/ Replace(p) \/ ReplaceFails(p) \/ Leave(p)
      PROVE  ItemsInv'
  BY <1>3, ReloadKeeps, OpenKeeps, WriteKeeps, ReplaceKeeps, LeaveKeeps
<1> QED
  BY <1>1, <1>2, <1>3 DEF ItemsNext

\* No item, no record and nobody at work.
LEMMA ItemsInitially == ItemsInit => ItemsInv
<1> SUFFICES ASSUME ItemsInit PROVE ItemsInv
  OBVIOUS
<1>1. NoItems \in Items /\ Contents(NoFile) = NoItems /\ 0 \in 0..MaxOps
  BY WorkItemAssumption DEF NoItems, Items, Contents, NoFile
<1>2. load = NoItems
  BY <1>1 DEF ItemsInit, load, Contents
<1>3. ItemTypes
  BY <1>1 DEF ItemsInit, ItemTypes, ItemsTypeOK, Doing
<1> QED
  BY <1>2, <1>3 DEF ItemsInit, ItemsInv, Agree, NoItems

\* In every reachable state what a lone command knows is so.
LEMMA ItemsInvariant == ItemsSpec => []ItemsInv
BY ItemsInitially, ItemsStep, PTL DEF ItemsSpec

\* Without overlap the file is the one whole list that the commands made of it,
\* whatever died or was left behind before.
THEOREM UpdatesAreKept == ItemsSpec => []UpdatesKept
<1>1. ItemsInv => UpdatesKept
  BY DEF ItemsInv, UpdatesKept
<1> QED
  BY <1>1, ItemsInvariant, PTL

\* The variables keep their types.
THEOREM ItemsTypeCorrect == ItemsSpec => []ItemsTypeOK
<1>1. ItemsInv => ItemsTypeOK
  BY DEF ItemsInv, ItemTypes
<1> QED
  BY <1>1, ItemsInvariant, PTL

\* Without overlap the ESDB has the status of every item whose last change was mirrored.
THEOREM MirrorIsTrue == ItemsSpec => []MirrorAgrees
<1>1. ItemsInv => MirrorAgrees
  BY DEF ItemsInv, MirrorAgrees, Agree
<1> QED
  BY <1>1, ItemsInvariant, PTL

\* Only a replace changes what is loaded, by the change it was begun with.
LEMMA LegalStep == ItemsInv /\ [ItemsNext]_itemVars =>
    (~overlapped' /\ load' # load =>
           \E w \in Wi : load' = [load EXCEPT ![w] = load'[w]] /\ Legal(load[w], load'[w]))
<1> SUFFICES ASSUME ItemsInv, [ItemsNext]_itemVars, ~overlapped', load' # load
             PROVE  \E w \in Wi : load' = [load EXCEPT ![w] = load'[w]] /\ Legal(load[w], load'[w])
  OBVIOUS
<1>1. live' # live
  BY DEF load
<1>2. PICK p \in Process : Write(p) \/ Replace(p)
  <2>1. ~UNCHANGED itemVars
    BY <1>1 DEF itemVars
  <2>2. ASSUME NEW p \in Process, NEW w \in Wi, Begin(p, w) PROVE FALSE
    BY <1>1, <2>2 DEF Begin
  <2>3. ASSUME NEW p \in Process, Reload(p) \/ Open(p) \/ ReplaceFails(p) \/ Sync(p) \/ Leave(p) PROVE FALSE
    BY <1>1, <2>3 DEF Reload, Open, ReplaceFails, Sync, Leave
  <2>4. ASSUME NEW p \in Process, BeginSweep(p) \/ SweepQuery(p) \/ SweepOrphan(p) PROVE FALSE
    BY <1>1, <2>4 DEF BeginSweep, SweepQuery, SweepOrphan
  <2> QED
    BY <2>1, <2>2, <2>3, <2>4 DEF ItemsNext
<1>3. ~overlapped
  BY <1>2 DEF Write, Replace
<1>4. Replace(p)
  <2>1. ASSUME Write(p) PROVE FALSE
    <3>0. Free.at = "idle" /\ work[p].at \in {"writing tmp", "writing live", "writing nothing"}
      BY <2>1 DEF Free, Write
    <3>1. Lone(work[p], load, tmp)
      BY <1>3, <3>0 DEF ItemsInv
    <3>2. live' = live
      BY <2>1, <3>1 DEF Write, Lone
    <3> QED
      BY <1>1, <3>2
  <2> QED
    BY <1>2, <2>1
<1>5. PICK w \in Wi, t \in WI_STATES : load' = [load EXCEPT ![w] = t] /\ (Legal(load[w], t) \/ t = load[w])
  BY <1>3, <1>4, ReplaceKeeps
<1>6. PICK s \in Items : s = load
  BY ItemsFacts DEF ItemsInv
<1>7. PICK n \in Items : n = load' /\ n = [s EXCEPT ![w] = t] /\ n[w] = t
  BY <1>5, <1>6 DEF Items
<1>8. t # s[w]
  <2>1. t = s[w] => n = s
    BY <1>7 DEF Items
  <2> QED
    BY <1>6, <1>7, <2>1
<1> QED
  BY <1>5, <1>6, <1>7, <1>8

\* Without overlap an item moves only along the table or by a promotion.
THEOREM ItemsMoveLegally == ItemsSpec => MovesAreLegal
<1>1. ItemsInv /\ [ItemsNext]_itemVars =>
         [~overlapped' /\ load' # load =>
             \E w \in Wi : load' = [load EXCEPT ![w] = load'[w]] /\ Legal(load[w], load'[w])]_itemVars
  BY LegalStep
<1> QED
  BY <1>1, ItemsInvariant, PTL DEF ItemsSpec, MovesAreLegal

-----------------------------------------------------------------------------
(* Tracked processes.                                                      *)

Held == {"spawned", "writing", "waiting", "terminating", "killed"}
Gone == {"reaped", "unlinking"}
RunnerState == {Away} \cup [at : Held \cup Gone, pid : Pid, cmd : Command]

Looking == {"listing", "checking", "pruning"}
Aborting == {"aborting", "terminating", "killed", "removing"}
Working == [at : Looking \cup Aborting, then : {"show", "abort"}, todo : SUBSET Pid, listed : SUBSET Pid,
            hand : SUBSET Pid, targets : SUBSET Command]
Finished == [at : {"aborted"}, targets : SUBSET Command]
OperatorState == {Quiet} \cup Finished \cup Working

ProcTypes == /\ os \in [Pid -> Command \cup {NoCommand}]
             /\ ended \subseteq Command
             /\ file \in [Pid -> {NoPidFile} \cup [cmd : Command, whole : BOOLEAN]]
             /\ runner \in [Runner -> RunnerState]
             /\ operator \in [Operator -> OperatorState]
             /\ runs \in 0..MaxRuns
             /\ orders \in 0..MaxOrders
             /\ abandoned \subseteq Command
             /\ disturbed \subseteq Command

\* A command has one pid, and its runner, until it has waited for it, that very one.
PidsInv ==
    /\ \A p, q \in Pid : os[p] = os[q] /\ os[p] # NoCommand => p = q
    /\ \A p \in Pid : os[p] <= runs
    /\ \A r \in Runner : runner[r] # Away =>
          /\ runner[r].cmd <= runs
          /\ runner[r].at \in Held => os[runner[r].pid] = runner[r].cmd
          /\ runner[r].at \in Gone => runner[r].cmd \in ended
          /\ \A s \in Runner : runner[s].cmd = runner[r].cmd => s = r

\* A file is that of its pid's command, or of one that has ended.
FilesInv ==
    \A p \in PidFiles :
        /\ file[p].cmd <= runs
        /\ file[p].cmd \notin ended => os[p] = file[p].cmd
        /\ Parents(file[p].cmd) # {} \/ file[p].cmd \in abandoned
        /\ \A r \in Parents(file[p].cmd) :
              /\ runner[r].pid = p
              /\ runner[r].at # "spawned"
              /\ runner[r].at = "writing" => ~file[p].whole

\* What an operator has in hand.
Hands(d) == d.at \in Looking \cup Aborting =>
    /\ d.at \in {"listing", "aborting"} => d.hand = {}
    /\ d.at \notin {"listing", "aborting"} => \E p \in Pid : d.hand = {p}
    /\ d.at \in Aborting => d.listed = {}

HandsInv == \A o \in Operator : Hands(operator[o])

Sound(c) == c \notin ended \cup disturbed \cup {NoCommand}

\* What an operator deletes next is not the file of a sound command.
Harmless(o) == operator[o].at \in {"pruning", "killed", "removing"} =>
    \A p \in operator[o].hand : Sound(os[p]) => file[p] # Whole(os[p])

\* Nobody is about to delete the file of a sound command.
KeptInv ==
    /\ \A r \in Runner : runner[r].at \in {"spawned", "writing"} /\ runner[r].cmd \notin disturbed =>
          \A o \in Operator : runner[r].pid \notin InHand(o)
    /\ \A r \in Runner : runner[r].at = "writing" /\ Sound(runner[r].cmd) =>
          file[runner[r].pid] = Opened(runner[r].cmd)
    /\ \A r \in Runner : runner[r].at \in {"waiting", "terminating", "killed"} /\ Sound(runner[r].cmd) =>
          file[runner[r].pid] = Whole(runner[r].cmd)
    /\ \A r \in Runner : runner[r].at \in Gone => ~Sound(os[runner[r].pid])
    /\ \A o \in Operator : Harmless(o)

\* The pids an abort has still to come to.
Pending(d) == d.todo \cup d.listed \cup (IF d.at \in {"checking", "terminating"} THEN d.hand ELSE {})

Reaches(o) ==
    /\ operator[o].at = "aborted" => operator[o].targets \subseteq ended \cup disturbed
    /\ operator[o].at \in Looking \cup Aborting => \A c \in operator[o].targets : Sound(c) =>
          \E p \in Pending(operator[o]) :
              /\ os[p] = c
              /\ operator[o].at \in Looking => file[p] = Whole(c)

TargetsInv == \A o \in Operator : Reaches(o)

ProcInv == ProcTypes /\ PidsInv /\ FilesInv /\ HandsInv /\ KeptInv /\ TargetsInv

\* A runner is away, or has a pid and a command.
LEMMA RunnerShapes ==
    ASSUME NEW d \in RunnerState
    PROVE  /\ d.at \in Held \cup Gone \cup {"away"}
           /\ d.at = "away" <=> d = Away
           /\ d # Away => d.pid \in Pid /\ d.cmd \in Command
<1>1. Away.at = "away" /\ Away \notin [at : Held \cup Gone, pid : Pid, cmd : Command]
  BY DEF Away, Held, Gone
<1>2. \A r \in [at : Held \cup Gone, pid : Pid, cmd : Command] : r.at \in Held \cup Gone /\ r.pid \in Pid /\ r.cmd \in Command
  OBVIOUS
<1> QED
  BY <1>1, <1>2 DEF RunnerState, Held, Gone

\* An operator is quiet, done, or at work on pids.
LEMMA OperatorShapes ==
    ASSUME NEW d \in OperatorState
    PROVE  /\ d.at \in {"quiet", "aborted"} \cup Looking \cup Aborting
           /\ d.at = "quiet" <=> d = Quiet
           /\ d.at = "aborted" => d \in Finished
           /\ d.at \in Looking \cup Aborting => d \in Working
<1>1. Quiet.at = "quiet" /\ Quiet \notin Working /\ Quiet \notin Finished
  BY DEF Quiet, Working, Finished, Looking, Aborting
<1>2. (\A r \in Finished : r.at = "aborted") /\ (\A r \in Working : r.at \in Looking \cup Aborting)
  BY DEF Finished, Working
<1> QED
  BY <1>1, <1>2 DEF OperatorState, Looking, Aborting

\* Pids only become free, when their command has ended and has no parent.
PidsFreed == /\ os' \in [Pid -> Command \cup {NoCommand}]
             /\ \A p \in Pid : os'[p] = os[p] \/ (os'[p] = NoCommand /\ os[p] \in ended' /\ Parents(os[p]) = {})
             /\ ended \subseteq ended' /\ ended' \subseteq Command

\* Pids that become free leave those of the runners alone.
LEMMA PidsKept == ASSUME ProcTypes, PidsInv, PidsFreed, UNCHANGED <<runner, runs>> PROVE PidsInv'
<1>1. ASSUME NEW r \in Runner, runner[r] # Away, runner[r].at \in Held PROVE os'[runner[r].pid] = runner[r].cmd
  <2>1. r \in Parents(runner[r].cmd) /\ os[runner[r].pid] = runner[r].cmd /\ runner[r].pid \in Pid
    BY <1>1, RunnerShapes DEF PidsInv, Parents, ProcTypes
  <2> QED
    BY <2>1 DEF PidsFreed
<1>2. \A p \in Pid : os'[p] <= runs
  <2>1. \A p \in Pid : os'[p] = os[p] \/ os'[p] = 0
    BY DEF PidsFreed, NoCommand
  <2> QED
    BY <2>1 DEF PidsInv, ProcTypes
<1>3. \A p, q \in Pid : os'[p] = os'[q] /\ os'[p] # NoCommand => p = q
  BY DEF PidsInv, PidsFreed
<1>4. UNCHANGED runner /\ runs' = runs /\ \A c : c \in ended => c \in ended'
  BY DEF PidsFreed
<1> QED
  BY <1>1, <1>2, <1>3, <1>4 DEF PidsInv

\* Files are only deleted.
FilesDeleted == /\ file' \in [Pid -> {NoPidFile} \cup [cmd : Command, whole : BOOLEAN]]
                /\ \A p \in Pid : file'[p] = file[p] \/ file'[p] = NoPidFile

\* What is left of the files is still true when pids become free.
LEMMA FilesKept == ASSUME ProcTypes, FilesInv, PidsFreed, FilesDeleted, UNCHANGED <<runner, runs, abandoned>> PROVE FilesInv'
<1>1. ASSUME NEW p \in PidFiles' PROVE p \in PidFiles /\ file'[p] = file[p]
  BY <1>1 DEF FilesDeleted, PidFiles
<1>2. \A p \in PidFiles' : file'[p].cmd \notin ended' => os'[p] = file'[p].cmd
  BY <1>1 DEF FilesInv, PidsFreed, PidFiles
<1>3. \A c : Parents(c)' = Parents(c)
  BY DEF Parents
<1> QED
  BY <1>1, <1>2, <1>3 DEF FilesInv

\* Operators go on from what they have in hand, pids become free and files are deleted.
Turning ==
    /\ PidsFreed /\ FilesDeleted
    /\ UNCHANGED <<runner, runs, abandoned, disturbed>>
    /\ operator' \in [Operator -> OperatorState] /\ orders' \in 0..MaxOrders
    /\ \A p \in Pid : file'[p] # file[p] => (\E o \in Operator : p \in InHand(o)) /\ (Sound(os[p]) => file[p] # Whole(os[p]))
    /\ \A o \in Operator : \/ operator'[o] = operator[o]
                           \/ Hands(operator'[o]) /\ InHand(o)' \subseteq InHand(o) /\ Harmless(o)' /\ Reaches(o)'

\* A sound command was sound before, and keeps its pid.
LEMMA SoundBefore ==
    ASSUME ProcTypes, Turning
    PROVE  /\ \A c : Sound(c)' => Sound(c)
           /\ \A p \in Pid : Sound(os[p])' => os'[p] = os[p] /\ Sound(os[p])
           /\ \A p \in Pid : \A c : Sound(c)' /\ os[p] = c => os'[p] = c
BY DEF Turning, PidsFreed, Sound

\* No operator becomes harmful by what another does.
LEMMA HarmlessKept ==
    ASSUME ProcInv, Turning, NEW o \in Operator
    PROVE  Harmless(o)'
<1>1. CASE operator'[o] = operator[o]
  <2>1. ASSUME NEW p \in operator[o].hand, operator[o].at \in {"pruning", "killed", "removing"}, Sound(os[p])'
        PROVE  file'[p] # Whole(os'[p])
    <3>1. p \in Pid
      BY <2>1, OperatorShapes DEF ProcInv, ProcTypes, Working, Looking, Aborting
    <3>2. os'[p] = os[p] /\ Sound(os[p])
      BY <2>1, <3>1, SoundBefore DEF ProcInv
    <3>3. file[p] # Whole(os[p])
      BY <2>1, <3>2 DEF ProcInv, KeptInv, Harmless
    <3>4. NoPidFile # Whole(os[p])
      BY DEF NoPidFile, Whole
    <3> QED
      BY <3>1, <3>2, <3>3, <3>4 DEF Turning, FilesDeleted
  <2> QED
    BY <1>1, <2>1 DEF Harmless
<1>2. CASE operator'[o] # operator[o]
  BY <1>2 DEF Turning
<1> QED
  BY <1>1, <1>2

\* No operator loses a target by what another does.
LEMMA ReachesKept ==
    ASSUME ProcInv, Turning, NEW o \in Operator
    PROVE  Reaches(o)'
<1>1. CASE operator'[o] = operator[o]
  <2>0. Reaches(o)
    BY DEF ProcInv, TargetsInv
  <2>1. operator[o].at = "aborted" => operator[o].targets \subseteq ended' \cup disturbed'
    BY <2>0 DEF Reaches, Turning, PidsFreed
  <2>2. ASSUME operator[o].at \in Looking \cup Aborting, NEW c \in operator[o].targets, Sound(c)'
        PROVE  \E p \in Pending(operator[o]) : os'[p] = c /\ (operator[o].at \in Looking => file'[p] = Whole(c))
    <3>1. Sound(c)
      BY <2>2, SoundBefore DEF ProcInv
    <3>2. PICK p \in Pending(operator[o]) : os[p] = c /\ (operator[o].at \in Looking => file[p] = Whole(c))
      BY <2>0, <2>2, <3>1 DEF Reaches
    <3>3. p \in Pid
      BY <2>2, OperatorShapes DEF ProcInv, ProcTypes, Working, Pending
    <3>4. os'[p] = c
      BY <2>2, <3>2, <3>3, SoundBefore DEF ProcInv
    <3>5. file[p] = Whole(c) => file'[p] = file[p]
      BY <3>1, <3>2, <3>3 DEF Turning
    <3> QED
      BY <3>2, <3>4, <3>5
  <2>3. Pending(operator[o])' = Pending(operator[o])
    BY <1>1 DEF Pending
  <2> QED
    BY <1>1, <2>1, <2>2, <2>3 DEF Reaches
<1>2. CASE operator'[o] # operator[o]
  BY <1>2 DEF Turning
<1> QED
  BY <1>1, <1>2

\* Operators that only go on keep the invariant.
LEMMA TurningKeeps == ASSUME ProcInv, Turning PROVE ProcInv'
<1>1. ProcTypes'
  BY DEF ProcInv, ProcTypes, Turning, PidsFreed, FilesDeleted
<1>2. PidsInv' /\ FilesInv'
  BY PidsKept, FilesKept DEF ProcInv, Turning
<1>3. HandsInv'
  <2>1. \A o \in Operator : Hands(operator'[o])
    BY DEF ProcInv, HandsInv, Turning
  <2>2. \A o \in Operator : Hands(operator[o])' <=> Hands(operator'[o])
    BY DEF Hands
  <2> QED
    BY <2>1, <2>2 DEF HandsInv
<1>4. TargetsInv'
  BY ReachesKept DEF TargetsInv
<1>5. KeptInv'
  <2>0. runner' = runner /\ disturbed' = disturbed
    BY DEF Turning
  <2>1. \A o \in Operator : InHand(o)' \subseteq InHand(o)
    BY DEF Turning, InHand
  <2>2. \A r \in Runner : runner[r].at \in {"spawned", "writing"} /\ runner[r].cmd \notin disturbed =>
          \A o \in Operator : runner[r].pid \notin InHand(o)
    BY DEF ProcInv, KeptInv
  <2>3. ASSUME NEW r \in Runner, runner[r].at = "writing", Sound(runner[r].cmd)'
        PROVE  file'[runner[r].pid] = Opened(runner[r].cmd)
    <3>0. PICK c : c = runner[r].cmd
      OBVIOUS
    <3>4. Sound(c)'
      BY <2>0, <2>3, <3>0 DEF Sound
    <3>1. Sound(runner[r].cmd) /\ runner[r].cmd \notin disturbed
      BY <3>0, <3>4, SoundBefore DEF ProcInv, Sound
    <3>2. runner[r].pid \in Pid /\ file[runner[r].pid] = Opened(runner[r].cmd)
      BY <2>3, <3>1, RunnerShapes DEF ProcInv, ProcTypes, KeptInv, Away
    <3>3. \A o \in Operator : runner[r].pid \notin InHand(o)
      BY <2>2, <2>3, <3>1
    <3> QED
      BY <3>2, <3>3 DEF Turning
  <2>4. ASSUME NEW r \in Runner, runner[r].at \in {"waiting", "terminating", "killed"}, Sound(runner[r].cmd)'
        PROVE  file'[runner[r].pid] = Whole(runner[r].cmd)
    <3>3. PICK c : c = runner[r].cmd
      OBVIOUS
    <3>4. Sound(c)'
      BY <2>0, <2>4, <3>3 DEF Sound
    <3>1. Sound(runner[r].cmd)
      BY <3>3, <3>4, SoundBefore DEF ProcInv
    <3>0. runner[r] # Away
      BY <2>4, RunnerShapes DEF ProcInv, ProcTypes
    <3>2. /\ runner[r].pid \in Pid /\ file[runner[r].pid] = Whole(runner[r].cmd)
          /\ os[runner[r].pid] = runner[r].cmd
      BY <2>4, <3>0, <3>1, RunnerShapes DEF ProcInv, ProcTypes, KeptInv, PidsInv, Held
    <3> QED
      BY <3>1, <3>2 DEF Turning
  <2>5. ASSUME NEW r \in Runner, runner[r].at \in Gone
        PROVE  ~Sound(os[runner[r].pid])'
    <3>1. runner[r].pid \in Pid
      BY <2>5, RunnerShapes DEF ProcInv, ProcTypes, Gone
    <3> QED
      BY <2>0, <2>5, <3>1, SoundBefore DEF ProcInv, KeptInv
  <2>6. \A o \in Operator : Harmless(o)'
    BY HarmlessKept
  <2> QED
    BY <2>0, <2>1, <2>2, <2>3, <2>4, <2>5, <2>6 DEF KeptInv
<1> QED
  BY <1>1, <1>2, <1>3, <1>4, <1>5 DEF ProcInv

\* Where no process ends, no pid becomes free.
LEMMA NothingFreed == ASSUME ProcTypes, UNCHANGED <<os, ended>> PROVE PidsFreed
<1>1. os' = os /\ ended' = ended
  OBVIOUS
<1>2. os \in [Pid -> Command \cup {NoCommand}] /\ ended \subseteq Command
  BY DEF ProcTypes
<1>3. os' \in [Pid -> Command \cup {NoCommand}]
  BY <1>1, <1>2
<1>4. ended \subseteq ended' /\ ended' \subseteq Command
  BY <1>1, <1>2
<1>5. \A p \in Pid : os'[p] = os[p]
  BY <1>1
<1> QED
  BY <1>3, <1>4, <1>5 DEF PidsFreed

\* Where no file is written, none is deleted.
LEMMA NothingDeleted == ProcTypes /\ UNCHANGED file => FilesDeleted
BY DEF ProcTypes, FilesDeleted

\* A step that only takes an operator further.
LEMMA QuietTurn ==
    ASSUME ProcInv, NEW o \in Operator, NEW e \in OperatorState, Turns(o, e),
           UNCHANGED <<os, ended, file, runner, runs, orders, abandoned, disturbed>>,
           Hands(e),
           e.at \in Looking \cup Aborting => e.todo \cup e.listed \cup e.hand \subseteq InHand(o),
           e.at \in {"pruning", "killed", "removing"} => \A p \in e.hand : Sound(os[p]) => file[p] # Whole(os[p]),
           e.at = "aborted" => e.targets \subseteq ended \cup disturbed,
           e.at \in Looking \cup Aborting => \A c \in e.targets : Sound(c) =>
              \E p \in Pending(e) : os[p] = c /\ (e.at \in Looking => file[p] = Whole(c))
    PROVE  ProcInv'
<1>1. operator' \in [Operator -> OperatorState] /\ operator'[o] = e /\ \A q \in Operator \ {o} : operator'[q] = operator[q]
  BY DEF ProcInv, ProcTypes, Turns
<1>2. PidsFreed /\ FilesDeleted
  BY NothingFreed, NothingDeleted DEF ProcInv
<1>3. InHand(o)' \subseteq InHand(o)
  BY <1>1, OperatorShapes DEF InHand
<1>4. Harmless(o)'
  BY <1>1 DEF Harmless, Sound
<1>5. Reaches(o)'
  <2>1. Pending(operator[o])' = Pending(e)
    BY <1>1 DEF Pending
  <2>2. \A c : Sound(c)' <=> Sound(c)
    BY DEF Sound
  <2> QED
    BY <1>1, <2>1, <2>2 DEF Reaches
<1>6. orders' \in 0..MaxOrders
  BY DEF ProcInv, ProcTypes
<1>7. Turning
  BY <1>1, <1>2, <1>3, <1>4, <1>5, <1>6 DEF Turning
<1> QED
  BY <1>7, TurningKeeps

\* What is known of an operator at work.
LEMMA AtWork ==
    ASSUME ProcInv, NEW o \in Operator, operator[o].at \in Looking \cup Aborting
    PROVE  /\ operator[o] \in Working
           /\ Hands(operator[o]) /\ Harmless(o) /\ Reaches(o)
           /\ InHand(o) = operator[o].todo \cup operator[o].listed \cup operator[o].hand
           /\ operator[o].todo \in SUBSET Pid /\ operator[o].listed \in SUBSET Pid /\ operator[o].hand \in SUBSET Pid
BY OperatorShapes DEF ProcInv, ProcTypes, HandsInv, KeptInv, TargetsInv, InHand, Looking, Aborting, Working

\* The pid of a target goes from the files to come into the hand, not to prune.
LEMMA ReadKeeps == ASSUME ProcInv, NEW o \in Operator, ReadFile(o) PROVE ProcInv'
<1>0. operator[o].at = "listing" /\ UNCHANGED <<os, ended, file, runner, runs, orders, abandoned, disturbed>>
  BY DEF ReadFile
<1>1. PICK d \in Working : /\ d = operator[o] /\ d.at = "listing" /\ Hands(d) /\ Reaches(o)
                           /\ InHand(o) = d.todo \cup d.listed \cup d.hand
                           /\ d.todo \in SUBSET Pid /\ d.listed \in SUBSET Pid
  BY <1>0, AtWork DEF Looking
<1>2. d.hand = {}
  BY <1>1 DEF Hands, Looking
<1>3. PICK p \in d.todo :
          Turns(o, [d EXCEPT !.todo = @ \ {p}, !.hand = {p}, !.at = IF file[p].whole THEN "checking" ELSE "pruning"])
  BY <1>1 DEF ReadFile
<1>4. PICK x \in {"checking", "pruning"} : x = IF file[p].whole THEN "checking" ELSE "pruning"
  OBVIOUS
<1>5. PICK e \in Working : /\ e = [d EXCEPT !.todo = @ \ {p}, !.hand = {p}, !.at = x]
                           /\ e.at = x /\ e.todo = d.todo \ {p} /\ e.listed = d.listed /\ e.hand = {p} /\ e.targets = d.targets
  <2> DEFINE w == [d EXCEPT !.todo = @ \ {p}, !.hand = {p}, !.at = x]
  <2>1. w \in Working
    BY <1>1, <1>4 DEF Working, Looking, Aborting
  <2>2. w.at = x /\ w.todo = d.todo \ {p} /\ w.listed = d.listed /\ w.hand = {p} /\ w.targets = d.targets
    BY <1>1, <1>4 DEF Working
  <2> QED
    BY <2>1, <2>2
<1>7. Turns(o, e)
  BY <1>3, <1>4, <1>5
<1>8. Hands(e)
  BY <1>1, <1>4, <1>5 DEF Hands, Looking, Aborting
<1>9. e.at = "pruning" => \A q \in e.hand : Sound(os[q]) => file[q] # Whole(os[q])
  BY <1>4, <1>5 DEF Whole
<1>10. ASSUME NEW c \in e.targets, Sound(c)
       PROVE  \E q \in Pending(e) : os[q] = c /\ file[q] = Whole(c)
  <2>1. PICK q \in Pending(d) : os[q] = c /\ file[q] = Whole(c)
    BY <1>1, <1>5, <1>10 DEF Reaches, Looking
  <2>2. q \in d.todo \cup d.listed
    BY <1>1, <1>2 DEF Pending
  <2>3. q = p => x = "checking"
    BY <1>4, <2>1 DEF Whole
  <2>4. q \in Pending(e)
    BY <1>5, <2>2, <2>3 DEF Pending
  <2> QED
    BY <2>1, <2>4
<1>11. e.todo \cup e.listed \cup e.hand \subseteq InHand(o)
  BY <1>1, <1>5
<1>12. e \in OperatorState
  BY DEF OperatorState
<1>13. e.at \in {"checking", "pruning"}
  BY <1>5
<1> QED
  BY <1>0, <1>7, <1>8, <1>9, <1>10, <1>11, <1>12, <1>13, QuietTurn

\* The command of the pid in hand is there: that is known of a sound target.
LEMMA CheckKeeps == ASSUME ProcInv, NEW o \in Operator, CheckAlive(o) PROVE ProcInv'
<1>0. operator[o].at = "checking" /\ UNCHANGED <<os, ended, file, runner, runs, orders, abandoned, disturbed>>
  BY DEF CheckAlive
<1>1. PICK d \in Working : /\ d = operator[o] /\ d.at = "checking" /\ Hands(d) /\ Reaches(o)
                           /\ InHand(o) = d.todo \cup d.listed \cup d.hand
                           /\ d.todo \in SUBSET Pid /\ d.listed \in SUBSET Pid /\ d.hand \in SUBSET Pid
  BY <1>0, AtWork DEF Looking
<1>2. PICK p \in d.hand :
          Turns(o, IF _is_process_alive(p)
                    THEN [d EXCEPT !.at = "listing", !.listed = @ \cup {p}, !.hand = {}]
                    ELSE [d EXCEPT !.at = "pruning"])
  BY <1>1 DEF CheckAlive
<1>3. d.hand = {p} /\ p \in Pid
  BY <1>1, <1>2 DEF Hands, Looking
<1>4. CASE _is_process_alive(p)
  <2>1. PICK e \in Working : /\ e = [d EXCEPT !.at = "listing", !.listed = @ \cup {p}, !.hand = {}]
                             /\ e.at = "listing" /\ e.todo = d.todo /\ e.listed = d.listed \cup {p} /\ e.hand = {} /\ e.targets = d.targets
    <3> DEFINE w == [d EXCEPT !.at = "listing", !.listed = @ \cup {p}, !.hand = {}]
    <3>1. w \in Working
      BY <1>1, <1>3 DEF Working, Looking, Aborting
    <3>2. w.at = "listing" /\ w.todo = d.todo /\ w.listed = d.listed \cup {p} /\ w.hand = {} /\ w.targets = d.targets
      BY <1>1, <1>3 DEF Working
    <3> QED
      BY <3>1, <3>2
  <2>3. Turns(o, e) /\ e \in OperatorState
    BY <1>2, <1>4, <2>1 DEF OperatorState
  <2>4. Hands(e) /\ e.todo \cup e.listed \cup e.hand \subseteq InHand(o)
    BY <1>1, <1>3, <2>1 DEF Hands, Looking, Aborting
  <2>5. Pending(d) = Pending(e)
    BY <1>1, <1>3, <2>1 DEF Pending
  <2>6. \A c \in e.targets : Sound(c) => \E q \in Pending(e) : os[q] = c /\ file[q] = Whole(c)
    BY <1>1, <2>1, <2>5 DEF Reaches, Looking
  <2>7. e.at \in Looking \cup Aborting /\ e.at = "listing"
    BY <2>1 DEF Looking
  <2> QED
    BY <1>0, <2>3, <2>4, <2>6, <2>7, QuietTurn
<1>5. CASE ~_is_process_alive(p)
  <2>1. PICK e \in Working : /\ e = [d EXCEPT !.at = "pruning"]
                             /\ e.at = "pruning" /\ e.todo = d.todo /\ e.listed = d.listed /\ e.hand = {p} /\ e.targets = d.targets
    <3> DEFINE w == [d EXCEPT !.at = "pruning"]
    <3>1. w \in Working
      BY <1>1, <1>3 DEF Working, Looking, Aborting
    <3>2. w.at = "pruning" /\ w.todo = d.todo /\ w.listed = d.listed /\ w.hand = {p} /\ w.targets = d.targets
      BY <1>1, <1>3 DEF Working
    <3> QED
      BY <3>1, <3>2
  <2>3. Turns(o, e) /\ e \in OperatorState
    BY <1>2, <1>5, <2>1 DEF OperatorState
  <2>4. Hands(e) /\ e.todo \cup e.listed \cup e.hand \subseteq InHand(o)
    BY <1>1, <1>3, <2>1 DEF Hands, Looking, Aborting
  <2>5. os[p] = NoCommand
    BY <1>5 DEF _is_process_alive
  <2>6. \A q \in e.hand : ~Sound(os[q])
    BY <2>1, <2>5 DEF Sound
  <2>7. ASSUME NEW c \in e.targets, Sound(c) PROVE \E q \in Pending(e) : os[q] = c /\ file[q] = Whole(c)
    <3>1. PICK q \in Pending(d) : os[q] = c /\ file[q] = Whole(c)
      BY <1>1, <2>1, <2>7 DEF Reaches, Looking
    <3>2. q # p
      BY <2>5, <2>7, <3>1 DEF Sound
    <3>3. q \in Pending(e)
      BY <1>1, <1>3, <2>1, <3>1, <3>2 DEF Pending
    <3> QED
      BY <3>1, <3>3
  <2> QED
    BY <1>0, <2>1, <2>3, <2>4, <2>6, <2>7, QuietTurn
<1> QED
  BY <1>4, <1>5

\* What was listed is what is aborted.
LEMMA ListedKeeps == ASSUME ProcInv, NEW o \in Operator, Listed(o) PROVE ProcInv'
<1>0. operator[o].at = "listing" /\ operator[o].todo = {} /\ UNCHANGED <<os, ended, file, runner, runs, orders, abandoned, disturbed>>
  BY DEF Listed
<1>1. PICK d \in Working : /\ d = operator[o] /\ d.at = "listing" /\ Hands(d) /\ Harmless(o) /\ Reaches(o)
                           /\ InHand(o) = d.todo \cup d.listed \cup d.hand
                           /\ d.todo \in SUBSET Pid /\ d.listed \in SUBSET Pid /\ d.hand \in SUBSET Pid
  BY <1>0, AtWork DEF Looking, Aborting
<1>2. d.hand = {} /\ d.todo = {}
  BY <1>0, <1>1 DEF Hands, Looking
<1>3. CASE d.then = "abort"
  <2>1. PICK e \in Working : /\ e = [d EXCEPT !.at = "aborting", !.todo = d.listed, !.listed = {}]
                             /\ e.at = "aborting" /\ e.todo = d.listed /\ e.listed = {} /\ e.hand = d.hand /\ e.targets = d.targets
    <3> DEFINE w == [d EXCEPT !.at = "aborting", !.todo = d.listed, !.listed = {}]
    <3>1. w \in Working
      BY <1>1 DEF Working, Looking, Aborting
    <3>2. w.at = "aborting" /\ w.todo = d.listed /\ w.listed = {} /\ w.hand = d.hand /\ w.targets = d.targets
      BY <1>1 DEF Working
    <3> QED
      BY <3>1, <3>2
  <2>2. Turns(o, e) /\ e \in OperatorState
    BY <1>1, <1>3, <2>1 DEF Listed, OperatorState
  <2>3. Hands(e) /\ e.todo \cup e.listed \cup e.hand \subseteq InHand(o)
    BY <1>1, <1>2, <2>1 DEF Hands, Looking, Aborting
  <2>4. Pending(d) = d.listed /\ Pending(e) = d.listed
    BY <1>1, <1>2, <2>1 DEF Pending
  <2>5. \A c \in e.targets : Sound(c) => \E q \in Pending(e) : os[q] = c
    BY <1>1, <2>1, <2>4 DEF Reaches, Looking
  <2>6. e.at = "aborting" /\ e.at \notin Looking
    BY <2>1 DEF Looking
  <2> QED
    BY <1>0, <2>2, <2>3, <2>5, <2>6, QuietTurn
<1>4. CASE d.then # "abort"
  <2>1. Turns(o, Quiet) /\ Quiet \in OperatorState /\ Quiet.at = "quiet" /\ "quiet" \notin Looking \cup Aborting
    BY <1>1, <1>4 DEF Listed, OperatorState, Quiet, Looking, Aborting
  <2>2. Hands(Quiet)
    BY <2>1 DEF Hands
  <2> QED
    BY <1>0, <2>1, <2>2, QuietTurn
<1> QED
  BY <1>3, <1>4

\* A target that is terminated is still in hand.
LEMMA TerminateKeeps == ASSUME ProcInv, NEW o \in Operator, Terminate(o) PROVE ProcInv'
<1>0. operator[o].at = "aborting" /\ UNCHANGED <<os, ended, file, runner, runs, orders, abandoned, disturbed>>
  BY DEF Terminate
<1>1. PICK d \in Working : /\ d = operator[o] /\ d.at = "aborting" /\ Hands(d) /\ Harmless(o) /\ Reaches(o)
                           /\ InHand(o) = d.todo \cup d.listed \cup d.hand
                           /\ d.todo \in SUBSET Pid /\ d.listed \in SUBSET Pid /\ d.hand \in SUBSET Pid
  BY <1>0, AtWork DEF Looking, Aborting
<1>2. d.hand = {} /\ d.listed = {}
  BY <1>1 DEF Hands, Aborting
<1>3. PICK p \in d.todo, x \in {"terminating", "killed"} :
          /\ x = IF _is_process_alive(p) THEN "terminating" ELSE "killed"
          /\ Turns(o, [d EXCEPT !.todo = @ \ {p}, !.hand = {p}, !.at = x])
  BY <1>1 DEF Terminate
<1>4. PICK e \in Working : /\ e = [d EXCEPT !.todo = @ \ {p}, !.hand = {p}, !.at = x]
                           /\ e.at = x /\ e.todo = d.todo \ {p} /\ e.listed = d.listed /\ e.hand = {p} /\ e.targets = d.targets
  <2> DEFINE w == [d EXCEPT !.todo = @ \ {p}, !.hand = {p}, !.at = x]
  <2>1. w \in Working
    BY <1>1, <1>3 DEF Working, Looking, Aborting
  <2>2. w.at = x /\ w.todo = d.todo \ {p} /\ w.listed = d.listed /\ w.hand = {p} /\ w.targets = d.targets
    BY <1>1, <1>3 DEF Working
  <2> QED
    BY <2>1, <2>2
<1>5. Turns(o, e) /\ e \in OperatorState
  BY <1>3, <1>4 DEF OperatorState
<1>6. Hands(e) /\ e.todo \cup e.listed \cup e.hand \subseteq InHand(o)
  BY <1>1, <1>2, <1>3, <1>4 DEF Hands, Looking, Aborting
<1>7. x = "killed" => ~Sound(os[p])
  BY <1>3 DEF _is_process_alive, Sound
<1>8. ASSUME NEW c \in e.targets, Sound(c) PROVE \E q \in Pending(e) : os[q] = c
  <2>1. PICK q \in Pending(d) : os[q] = c
    BY <1>1, <1>4, <1>8 DEF Reaches, Aborting
  <2>2. q \in d.todo
    BY <1>1, <1>2 DEF Pending
  <2>3. q = p => x = "terminating"
    BY <1>3, <1>7, <1>8, <2>1
  <2>4. q \in Pending(e)
    BY <1>4, <2>2, <2>3 DEF Pending
  <2> QED
    BY <2>1, <2>4
<1>9. e.at \in {"terminating", "killed"} /\ e.at \notin Looking
  BY <1>4 DEF Looking
<1>10. e.at = "killed" => \A q \in e.hand : ~Sound(os[q])
  BY <1>4, <1>7
<1> QED
  BY <1>0, <1>5, <1>6, <1>8, <1>9, <1>10, QuietTurn

\* A pid that is free has no sound command.
LEMMA GoneKeeps == ASSUME ProcInv, NEW o \in Operator, GoneInTime(o) PROVE ProcInv'
<1>0. operator[o].at = "terminating" /\ UNCHANGED <<os, ended, file, runner, runs, orders, abandoned, disturbed>>
  BY DEF GoneInTime
<1>1. PICK d \in Working : /\ d = operator[o] /\ d.at = "terminating" /\ Hands(d) /\ Harmless(o) /\ Reaches(o)
                           /\ InHand(o) = d.todo \cup d.listed \cup d.hand
                           /\ d.todo \in SUBSET Pid /\ d.listed \in SUBSET Pid /\ d.hand \in SUBSET Pid
  BY <1>0, AtWork DEF Looking, Aborting
<1>2. PICK p \in d.hand : os[p] = NoCommand /\ d.listed = {} /\ d.hand = {p}
  BY <1>1 DEF GoneInTime, _is_process_alive, Hands, Aborting
<1>4. PICK e \in Working : /\ e = [d EXCEPT !.at = "killed"]
                           /\ e.at = "killed" /\ e.todo = d.todo /\ e.listed = d.listed /\ e.hand = d.hand /\ e.targets = d.targets
  <2> DEFINE w == [d EXCEPT !.at = "killed"]
  <2>1. w \in Working
    BY <1>1 DEF Working, Looking, Aborting
  <2>2. w.at = "killed" /\ w.todo = d.todo /\ w.listed = d.listed /\ w.hand = d.hand /\ w.targets = d.targets
    BY <1>1 DEF Working
  <2> QED
    BY <2>1, <2>2
<1>5. Turns(o, e) /\ e \in OperatorState
  BY <1>1, <1>4 DEF GoneInTime, OperatorState
<1>6. Hands(e) /\ e.todo \cup e.listed \cup e.hand \subseteq InHand(o)
  BY <1>1, <1>2, <1>4 DEF Hands, Looking, Aborting
<1>7. \A q \in e.hand : ~Sound(os[q])
  BY <1>2, <1>4 DEF Sound
<1>8. ASSUME NEW c \in e.targets, Sound(c) PROVE \E q \in Pending(e) : os[q] = c
  <2>1. PICK q \in Pending(d) : os[q] = c
    BY <1>1, <1>4, <1>8 DEF Reaches, Aborting
  <2>2. q # p
    BY <1>2, <1>8, <2>1 DEF Sound
  <2>4. q \in Pending(e)
    BY <1>1, <1>2, <1>4, <2>1, <2>2 DEF Pending
  <2> QED
    BY <2>1, <2>4
<1>9. e.at = "killed" /\ e.at \notin Looking
  BY <1>4 DEF Looking
<1> QED
  BY <1>0, <1>5, <1>6, <1>7, <1>8, <1>9, QuietTurn

\* What was killed is not sound, so its file may go.
LEMMA ForgetKeeps == ASSUME ProcInv, NEW o \in Operator, Forget(o) PROVE ProcInv'
<1>0. operator[o].at = "killed" /\ UNCHANGED <<os, ended, file, runner, runs, orders, abandoned, disturbed>>
  BY DEF Forget
<1>1. PICK d \in Working : /\ d = operator[o] /\ d.at = "killed" /\ Hands(d) /\ Harmless(o) /\ Reaches(o)
                           /\ InHand(o) = d.todo \cup d.listed \cup d.hand
                           /\ d.todo \in SUBSET Pid /\ d.listed \in SUBSET Pid /\ d.hand \in SUBSET Pid
  BY <1>0, AtWork DEF Looking, Aborting
<1>2. PICK p \in d.hand : /\ d.listed = {} /\ d.hand = {p}
                          /\ \/ Turns(o, [d EXCEPT !.at = "aborting", !.hand = {}])
                             \/ Turns(o, [d EXCEPT !.at = "removing"])
  BY <1>1 DEF Forget, NextTodo, Hands, Aborting
<1>3. CASE Turns(o, [d EXCEPT !.at = "aborting", !.hand = {}])
  <2>1. PICK e \in Working : /\ e = [d EXCEPT !.at = "aborting", !.hand = {}]
                             /\ e.at = "aborting" /\ e.todo = d.todo /\ e.listed = d.listed /\ e.hand = {} /\ e.targets = d.targets
    <3> DEFINE w == [d EXCEPT !.at = "aborting", !.hand = {}]
    <3>1. w \in Working
      BY <1>1 DEF Working, Looking, Aborting
    <3>2. w.at = "aborting" /\ w.todo = d.todo /\ w.listed = d.listed /\ w.hand = {} /\ w.targets = d.targets
      BY <1>1 DEF Working
    <3> QED
      BY <3>1, <3>2
  <2>2. Turns(o, e) /\ e \in OperatorState
    BY <1>3, <2>1 DEF OperatorState
  <2>3. Hands(e) /\ e.todo \cup e.listed \cup e.hand \subseteq InHand(o)
    BY <1>1, <1>2, <2>1 DEF Hands, Looking, Aborting
  <2>4. Pending(e) = Pending(d)
    BY <1>1, <2>1 DEF Pending
  <2>5. \A c \in e.targets : Sound(c) => \E q \in Pending(e) : os[q] = c
    BY <1>1, <2>1, <2>4 DEF Reaches, Aborting
  <2>6. e.at = "aborting" /\ e.at \notin Looking
    BY <2>1 DEF Looking
  <2> QED
    BY <1>0, <2>2, <2>3, <2>5, <2>6, QuietTurn
<1>4. CASE Turns(o, [d EXCEPT !.at = "removing"])
  <2>1. PICK e \in Working : /\ e = [d EXCEPT !.at = "removing"]
                             /\ e.at = "removing" /\ e.todo = d.todo /\ e.listed = d.listed /\ e.hand = d.hand /\ e.targets = d.targets
    <3> DEFINE w == [d EXCEPT !.at = "removing"]
    <3>1. w \in Working
      BY <1>1 DEF Working, Looking, Aborting
    <3>2. w.at = "removing" /\ w.todo = d.todo /\ w.listed = d.listed /\ w.hand = d.hand /\ w.targets = d.targets
      BY <1>1 DEF Working
    <3> QED
      BY <3>1, <3>2
  <2>2. Turns(o, e) /\ e \in OperatorState
    BY <1>4, <2>1 DEF OperatorState
  <2>3. Hands(e) /\ e.todo \cup e.listed \cup e.hand \subseteq InHand(o)
    BY <1>1, <1>2, <2>1 DEF Hands, Looking, Aborting
  <2>4. Pending(e) = Pending(d)
    BY <1>1, <2>1 DEF Pending
  <2>5. \A c \in e.targets : Sound(c) => \E q \in Pending(e) : os[q] = c
    BY <1>1, <2>1, <2>4 DEF Reaches, Aborting
  <2>6. e.at = "removing" /\ e.at \notin Looking
    BY <2>1 DEF Looking
  <2>7. \A q \in e.hand : Sound(os[q]) => file[q] # Whole(os[q])
    BY <1>1, <2>1 DEF Harmless
  <2> QED
    BY <1>0, <2>2, <2>3, <2>5, <2>6, <2>7, QuietTurn
<1> QED
  BY <1>2, <1>3, <1>4

\* With nothing left to come, every target has ended.
LEMMA AbortedKeeps == ASSUME ProcInv, NEW o \in Operator, Aborted(o) PROVE ProcInv'
<1>0. operator[o].at = "aborting" /\ operator[o].todo = {} /\ UNCHANGED <<os, ended, file, runner, runs, orders, abandoned, disturbed>>
  BY DEF Aborted
<1>1. PICK d \in Working : /\ d = operator[o] /\ d.at = "aborting" /\ Hands(d) /\ Harmless(o) /\ Reaches(o)
                           /\ InHand(o) = d.todo \cup d.listed \cup d.hand
                           /\ d.todo \in SUBSET Pid /\ d.listed \in SUBSET Pid /\ d.hand \in SUBSET Pid
  BY <1>0, AtWork DEF Looking, Aborting
<1>2. Pending(d) = {}
  BY <1>0, <1>1 DEF Pending, Hands, Aborting
<1>3. \A c \in d.targets : ~Sound(c)
  BY <1>1, <1>2 DEF Reaches, Aborting
<1>4. d.targets \subseteq Command /\ \A c \in Command : c # NoCommand
  BY TrackedAssumption DEF Working, Command, NoCommand
<1>5. PICK e \in Finished : e = [at |-> "aborted", targets |-> d.targets] /\ e.at = "aborted" /\ e.targets = d.targets
  <2> DEFINE w == [at |-> "aborted", targets |-> d.targets]
  <2>1. w \in Finished
    BY <1>4 DEF Finished
  <2> QED
    BY <2>1
<1>6. Turns(o, e) /\ e \in OperatorState
  BY <1>1, <1>5 DEF Aborted, OperatorState
<1>7. e.targets \subseteq ended \cup disturbed
  BY <1>3, <1>4, <1>5 DEF Sound
<1>8. e.at = "aborted" /\ e.at \notin Looking \cup Aborting /\ Hands(e)
  BY <1>5 DEF Looking, Aborting, Hands
<1> QED
  BY <1>0, <1>6, <1>7, <1>8, QuietTurn

\* An operator that dies has nothing in hand.
LEMMA DeathKeeps == ASSUME ProcInv, NEW o \in Operator, OperatorDies(o) PROVE ProcInv'
<1>1. Turns(o, Quiet) /\ UNCHANGED <<os, ended, file, runner, runs, orders, abandoned, disturbed>>
  BY DEF OperatorDies
<1>2. Quiet \in OperatorState /\ Quiet.at = "quiet" /\ "quiet" \notin Looking \cup Aborting
  BY DEF OperatorState, Quiet, Looking, Aborting
<1>3. Hands(Quiet)
  BY <1>2 DEF Hands
<1> QED
  BY <1>1, <1>2, <1>3, QuietTurn

\* A step of one operator that may end a process or delete a file.
LEMMA OneTurn ==
    ASSUME ProcInv, NEW o \in Operator, NEW e \in OperatorState, Turns(o, e), PidsFreed, FilesDeleted,
           UNCHANGED <<runner, runs, orders, abandoned, disturbed>>,
           \A p \in Pid : file'[p] # file[p] => p \in InHand(o) /\ (Sound(os[p]) => file[p] # Whole(os[p])),
           Hands(e),
           e.at \in Looking \cup Aborting => e.todo \cup e.listed \cup e.hand \subseteq InHand(o),
           e.at \in {"pruning", "killed", "removing"} => \A p \in e.hand : ~Sound(os[p])',
           e.at # "aborted",
           e.at \in Looking \cup Aborting => \A c \in e.targets : Sound(c)' =>
              \E p \in Pending(e) : os'[p] = c /\ (e.at \in Looking => file'[p] = Whole(c))
    PROVE  ProcInv'
<1>1. operator' \in [Operator -> OperatorState] /\ operator'[o] = e /\ \A q \in Operator \ {o} : operator'[q] = operator[q]
  BY DEF ProcInv, ProcTypes, Turns
<1>3. InHand(o)' \subseteq InHand(o)
  BY <1>1, OperatorShapes DEF InHand
<1>4. Harmless(o)'
  BY <1>1 DEF Harmless
<1>5. Reaches(o)'
  <2>1. Pending(operator[o])' = Pending(e)
    BY <1>1 DEF Pending
  <2> QED
    BY <1>1, <2>1 DEF Reaches
<1>6. orders' \in 0..MaxOrders
  BY DEF ProcInv, ProcTypes
<1>7. Turning
  BY <1>1, <1>3, <1>4, <1>5, <1>6 DEF Turning
<1> QED
  BY <1>7, TurningKeeps

\* One file is deleted.
LEMMA FileDeleted ==
    ASSUME ProcTypes, NEW p \in Pid, file' = [file EXCEPT ![p] = NoPidFile]
    PROVE  FilesDeleted /\ file'[p] = NoPidFile /\ \A q \in Pid \ {p} : file'[q] = file[q]
BY DEF ProcTypes, FilesDeleted

\* What is pruned is the file of no sound command.
LEMMA PruneKeeps == ASSUME ProcInv, NEW o \in Operator, Prune(o) PROVE ProcInv'
<1>0. operator[o].at = "pruning" /\ UNCHANGED <<os, ended, runner, runs, orders, abandoned, disturbed>>
  BY DEF Prune
<1>1. PICK d \in Working : /\ d = operator[o] /\ d.at = "pruning" /\ Hands(d) /\ Harmless(o) /\ Reaches(o)
                           /\ InHand(o) = d.todo \cup d.listed \cup d.hand
                           /\ d.todo \in SUBSET Pid /\ d.listed \in SUBSET Pid /\ d.hand \in SUBSET Pid
  BY <1>0, AtWork DEF Looking, Aborting
<1>2. PICK p \in Pid : file' = [file EXCEPT ![p] = NoPidFile] /\ d.hand = {p} /\ p \in d.hand
  BY <1>1 DEF Prune, Hands, Looking
<1>3. FilesDeleted /\ file'[p] = NoPidFile /\ \A q \in Pid \ {p} : file'[q] = file[q]
  BY <1>2, FileDeleted DEF ProcInv
<1>4. Sound(os[p]) => file[p] # Whole(os[p])
  BY <1>1, <1>2 DEF Harmless
<1>5. PICK e \in Working : /\ e = [d EXCEPT !.at = "listing", !.hand = {}]
                           /\ e.at = "listing" /\ e.todo = d.todo /\ e.listed = d.listed /\ e.hand = {} /\ e.targets = d.targets
  <2> DEFINE w == [d EXCEPT !.at = "listing", !.hand = {}]
  <2>1. w \in Working
    BY <1>1 DEF Working, Looking, Aborting
  <2>2. w.at = "listing" /\ w.todo = d.todo /\ w.listed = d.listed /\ w.hand = {} /\ w.targets = d.targets
    BY <1>1 DEF Working
  <2> QED
    BY <2>1, <2>2
<1>6. Turns(o, e) /\ e \in OperatorState
  BY <1>1, <1>5 DEF Prune, OperatorState
<1>7. Hands(e) /\ e.todo \cup e.listed \cup e.hand \subseteq InHand(o)
  BY <1>1, <1>5 DEF Hands, Looking, Aborting
<1>8. PidsFreed
  BY <1>0, NothingFreed DEF ProcInv
<1>9. \A c : Sound(c)' <=> Sound(c)
  BY <1>0 DEF Sound
<1>10. ASSUME NEW c \in e.targets, Sound(c)' PROVE \E q \in Pending(e) : os'[q] = c /\ file'[q] = Whole(c)
  <2>1. PICK q \in Pending(d) : os[q] = c /\ file[q] = Whole(c)
    BY <1>1, <1>5, <1>9, <1>10 DEF Reaches, Looking
  <2>2. q # p /\ q \in Pid
    BY <1>1, <1>4, <1>9, <1>10, <2>1 DEF Pending
  <2>3. q \in Pending(e)
    BY <1>1, <1>5, <2>1 DEF Pending
  <2> QED
    BY <1>0, <1>3, <2>1, <2>2, <2>3
<1>11. \A q \in Pid : file'[q] # file[q] => q \in InHand(o) /\ (Sound(os[q]) => file[q] # Whole(os[q]))
  BY <1>1, <1>2, <1>3, <1>4
<1>12. e.at = "listing"
  BY <1>5
<1> QED
  BY <1>0, <1>3, <1>6, <1>7, <1>8, <1>10, <1>11, <1>12, OneTurn

\* What is removed is the file of no sound command.
LEMMA RemoveKeeps == ASSUME ProcInv, NEW o \in Operator, Remove(o) PROVE ProcInv'
<1>0. operator[o].at = "removing" /\ UNCHANGED <<os, ended, runner, runs, orders, abandoned, disturbed>>
  BY DEF Remove
<1>1. PICK d \in Working : /\ d = operator[o] /\ d.at = "removing" /\ Hands(d) /\ Harmless(o) /\ Reaches(o)
                           /\ InHand(o) = d.todo \cup d.listed \cup d.hand
                           /\ d.todo \in SUBSET Pid /\ d.listed \in SUBSET Pid /\ d.hand \in SUBSET Pid
  BY <1>0, AtWork DEF Looking, Aborting
<1>2. PICK p \in Pid : /\ file' = [file EXCEPT ![p] = NoPidFile] /\ d.hand = {p} /\ p \in d.hand
                       /\ Turns(o, Quiet) \/ Turns(o, [d EXCEPT !.at = "aborting", !.hand = {}])
  BY <1>1 DEF Remove, Hands, Aborting, NextTodo
<1>3. FilesDeleted /\ file'[p] = NoPidFile /\ \A q \in Pid \ {p} : file'[q] = file[q]
  BY <1>2, FileDeleted DEF ProcInv
<1>4. Sound(os[p]) => file[p] # Whole(os[p])
  BY <1>1, <1>2 DEF Harmless
<1>8. PidsFreed
  BY <1>0, NothingFreed DEF ProcInv
<1>11. \A q \in Pid : file'[q] # file[q] => q \in InHand(o) /\ (Sound(os[q]) => file[q] # Whole(os[q]))
  BY <1>1, <1>2, <1>3, <1>4
<1>5. CASE Turns(o, Quiet)
  <2>1. Quiet \in OperatorState /\ Quiet.at = "quiet" /\ "quiet" \notin Looking \cup Aborting
    BY DEF OperatorState, Quiet, Looking, Aborting
  <2>2. Hands(Quiet)
    BY <2>1 DEF Hands
  <2> QED
    BY <1>0, <1>3, <1>5, <1>8, <1>11, <2>1, <2>2, OneTurn
<1>6. CASE Turns(o, [d EXCEPT !.at = "aborting", !.hand = {}])
  <2>1. PICK e \in Working : /\ e = [d EXCEPT !.at = "aborting", !.hand = {}]
                             /\ e.at = "aborting" /\ e.todo = d.todo /\ e.listed = d.listed /\ e.hand = {} /\ e.targets = d.targets
    <3> DEFINE w == [d EXCEPT !.at = "aborting", !.hand = {}]
    <3>1. w \in Working
      BY <1>1 DEF Working, Looking, Aborting
    <3>2. w.at = "aborting" /\ w.todo = d.todo /\ w.listed = d.listed /\ w.hand = {} /\ w.targets = d.targets
      BY <1>1 DEF Working
    <3> QED
      BY <3>1, <3>2
  <2>2. Turns(o, e) /\ e \in OperatorState
    BY <1>6, <2>1 DEF OperatorState
  <2>3. Hands(e) /\ e.todo \cup e.listed \cup e.hand \subseteq InHand(o)
    BY <1>1, <2>1 DEF Hands, Looking, Aborting
  <2>4. Pending(e) = Pending(d)
    BY <1>1, <2>1 DEF Pending
  <2>5. \A c : Sound(c)' <=> Sound(c)
    BY <1>0 DEF Sound
  <2>6. \A c \in e.targets : Sound(c)' => \E q \in Pending(e) : os'[q] = c
    BY <1>0, <1>1, <2>1, <2>4, <2>5 DEF Reaches, Aborting
  <2>7. e.at = "aborting" /\ e.at \notin Looking
    BY <2>1 DEF Looking
  <2> QED
    BY <1>0, <1>3, <1>8, <1>11, <2>2, <2>3, <2>6, <2>7, OneTurn
<1> QED
  BY <1>2, <1>5, <1>6

\* A process that ends is not sound, and its pid is at most freed.
LEMMA EndsFrees ==
    ASSUME ProcTypes, NEW p \in Pid, Ends(p)
    PROVE  PidsFreed /\ ~Sound(os[p])'
<1>1. os' \in [Pid -> Command \cup {NoCommand}] /\ ended' \subseteq Command /\ ended \subseteq ended'
  BY DEF ProcTypes, Ends
<1>2. ASSUME NEW q \in Pid, os'[q] # os[q] PROVE q = p /\ os'[q] = NoCommand /\ os[q] \in ended' /\ Parents(os[q]) = {}
  BY <1>2 DEF ProcTypes, Ends
<1>3. os'[p] \in ended' \cup {NoCommand}
  BY DEF ProcTypes, Ends
<1> QED
  BY <1>1, <1>2, <1>3 DEF PidsFreed, Sound

\* What is killed is not sound any more.
LEMMA KillHardKeeps == ASSUME ProcInv, NEW o \in Operator, KillHard(o) PROVE ProcInv'
<1>0. operator[o].at = "terminating" /\ UNCHANGED <<file, runner, runs, orders, abandoned, disturbed>>
  BY DEF KillHard
<1>1. PICK d \in Working : /\ d = operator[o] /\ d.at = "terminating" /\ Hands(d) /\ Harmless(o) /\ Reaches(o)
                           /\ InHand(o) = d.todo \cup d.listed \cup d.hand
                           /\ d.todo \in SUBSET Pid /\ d.listed \in SUBSET Pid /\ d.hand \in SUBSET Pid
  BY <1>0, AtWork DEF Looking, Aborting
<1>2. PICK p \in Pid : Ends(p) /\ d.hand = {p} /\ p \in d.hand /\ d.listed = {}
  BY <1>1 DEF KillHard, Hands, Aborting
<1>3. PidsFreed /\ ~Sound(os[p])'
  BY <1>2, EndsFrees DEF ProcInv
<1>5. PICK e \in Working : /\ e = [d EXCEPT !.at = "killed"]
                           /\ e.at = "killed" /\ e.todo = d.todo /\ e.listed = d.listed /\ e.hand = d.hand /\ e.targets = d.targets
  <2> DEFINE w == [d EXCEPT !.at = "killed"]
  <2>1. w \in Working
    BY <1>1 DEF Working, Looking, Aborting
  <2>2. w.at = "killed" /\ w.todo = d.todo /\ w.listed = d.listed /\ w.hand = d.hand /\ w.targets = d.targets
    BY <1>1 DEF Working
  <2> QED
    BY <2>1, <2>2
<1>6. Turns(o, e) /\ e \in OperatorState
  BY <1>1, <1>5 DEF KillHard, OperatorState
<1>7. Hands(e) /\ e.todo \cup e.listed \cup e.hand \subseteq InHand(o)
  BY <1>1, <1>5 DEF Hands, Looking, Aborting
<1>8. FilesDeleted
  BY <1>0, NothingDeleted DEF ProcInv
<1>9. /\ \A c : Sound(c)' => Sound(c)
      /\ \A q \in Pid : \A c : Sound(c)' /\ os[q] = c => os'[q] = c
  BY <1>0, <1>3 DEF PidsFreed, Sound
<1>10. ASSUME NEW c \in e.targets, Sound(c)' PROVE \E q \in Pending(e) : os'[q] = c
  <2>1. PICK q \in Pending(d) : os[q] = c
    BY <1>1, <1>5, <1>9, <1>10 DEF Reaches, Aborting
  <2>2. q \in Pid
    BY <1>1, <2>1 DEF Pending
  <2>3. os'[q] = c
    BY <1>9, <1>10, <2>1, <2>2
  <2>4. q # p
    BY <1>3, <1>10, <2>3 DEF Sound
  <2>5. q \in Pending(e)
    BY <1>1, <1>2, <1>5, <2>1, <2>4 DEF Pending
  <2> QED
    BY <2>3, <2>5
<1>12. e.at = "killed" /\ e.at \notin Looking /\ \A q \in e.hand : ~Sound(os[q])'
  <2>1. \A q \in {p} : ~Sound(os[q])'
    BY <1>3
  <2> QED
    BY <1>2, <1>5, <2>1 DEF Looking
<1>13. file' = file
  BY <1>0
<1> QED
  BY <1>0, <1>3, <1>6, <1>7, <1>8, <1>10, <1>12, <1>13, OneTurn

\* A process that ends leaves what is known of the others.
LEMMA EndingKeeps == ASSUME ProcInv, NEW p \in Pid, ProcessEnds(p) PROVE ProcInv'
<1>1. PidsFreed
  BY EndsFrees DEF ProcInv, ProcessEnds
<1>2. FilesDeleted
  BY NothingDeleted DEF ProcInv, ProcessEnds
<1>3. /\ UNCHANGED <<file, runner, runs, abandoned, disturbed>>
      /\ operator' \in [Operator -> OperatorState] /\ orders' \in 0..MaxOrders
      /\ \A o \in Operator : operator'[o] = operator[o]
  BY DEF ProcessEnds, ProcInv, ProcTypes
<1>4. Turning
  BY <1>1, <1>2, <1>3 DEF Turning
<1> QED
  BY <1>4, TurningKeeps

\* The whole file of a command that runs is that of its pid.
LEMMA TrackedFacts ==
    ASSUME ProcInv, NEW P \in SUBSET Pid, NEW c \in Tracked(P)
    PROVE  c \in Command /\ c \notin ended /\ \E p \in P : os[p] = c /\ file[p] = Whole(c)
<1>1. PICK p \in P : file[p].whole /\ file[p].cmd = c /\ c \in Running
  BY DEF Tracked
<1>2. file[p] \in {NoPidFile} \cup [cmd : Command, whole : BOOLEAN] /\ file[p] # NoPidFile
  BY <1>1 DEF ProcInv, ProcTypes, NoPidFile
<1>3. file[p] = Whole(c) /\ c \in Command
  BY <1>1, <1>2 DEF Whole
<1>4. c \notin ended /\ p \in PidFiles
  BY <1>1, <1>2 DEF Running, PidFiles
<1>5. os[p] = c
  BY <1>1, <1>4 DEF ProcInv, FilesInv
<1> QED
  BY <1>3, <1>4, <1>5

\* An order begins with files whose commands hold their pids.
LEMMA BeginsOrderKeeps ==
    ASSUME ProcInv, NEW o \in Operator, NEW x \in {"listing", "aborting"}, NEW P \in SUBSET Pid, NEW then \in {"show", "abort"},
           BeginsOrder(o, x, P, then)
    PROVE  ProcInv'
<1>0. /\ UNCHANGED <<os, ended, file, runner, runs, abandoned>>
      /\ disturbed' = disturbed \cup Starting(P) /\ orders' = orders + 1 /\ orders < MaxOrders
  BY DEF BeginsOrder
<1>1. PICK T \in SUBSET Command : T = IF then = "abort" THEN Tracked(P) ELSE {}
  BY TrackedFacts
<1>2. PICK e \in Working : /\ e = [at |-> x, then |-> then, todo |-> P, listed |-> {}, hand |-> {}, targets |-> T]
                           /\ e.at = x /\ e.todo = P /\ e.listed = {} /\ e.hand = {} /\ e.targets = T
  <2> DEFINE w == [at |-> x, then |-> then, todo |-> P, listed |-> {}, hand |-> {}, targets |-> T]
  <2>1. w \in Working
    BY DEF Working, Looking, Aborting
  <2> QED
    BY <2>1
<1>3. Turns(o, e)
  BY <1>1, <1>2 DEF BeginsOrder
<1>4. operator' \in [Operator -> OperatorState] /\ operator'[o] = e /\ \A q \in Operator \ {o} : operator'[q] = operator[q]
  BY <1>3 DEF ProcInv, ProcTypes, Turns, OperatorState
<1>5. Starting(P) \subseteq Command
  <2>1. ASSUME NEW r \in Runner, runner[r].at \in {"spawned", "writing"} PROVE runner[r].cmd \in Command
    BY <2>1, RunnerShapes DEF ProcInv, ProcTypes
  <2> QED
    BY <2>1 DEF Starting
<1>6. ProcTypes'
  <2>1. orders' \in 0..MaxOrders
    BY <1>0, TrackedAssumption DEF ProcInv, ProcTypes
  <2> QED
    BY <1>0, <1>4, <1>5, <2>1 DEF ProcInv, ProcTypes
<1>7. PidsInv'
  BY <1>0 DEF ProcInv, PidsInv
<1>8. FilesInv'
  BY <1>0 DEF ProcInv, FilesInv, PidFiles, Parents
<1>9. HandsInv'
  <2>1. Hands(e)
    BY <1>2 DEF Hands, Looking, Aborting
  <2>2. \A q \in Operator : Hands(operator'[q])
    BY <1>4, <2>1 DEF ProcInv, HandsInv
  <2>3. \A q \in Operator : Hands(operator[q])' <=> Hands(operator'[q])
    BY DEF Hands
  <2> QED
    BY <2>2, <2>3 DEF HandsInv
<1>10. \A c : Sound(c)' => Sound(c)
  BY <1>0 DEF Sound
<1>11. InHand(o)' = P /\ \A q \in Operator \ {o} : InHand(q)' = InHand(q)
  BY <1>2, <1>4 DEF InHand
<1>12. KeptInv'
  <2>1. ASSUME NEW r \in Runner, runner[r].at \in {"spawned", "writing"}, runner[r].cmd \notin disturbed', NEW q \in Operator
        PROVE  runner[r].pid \notin InHand(q)'
    <3>1. runner[r].pid \notin P
      BY <1>0, <2>1 DEF Starting
    <3>2. q # o => runner[r].pid \notin InHand(q)
      BY <1>0, <2>1 DEF ProcInv, KeptInv
    <3> QED
      BY <1>11, <3>1, <3>2
  <2>2. ASSUME NEW q \in Operator PROVE Harmless(q)'
    <3>1. CASE q = o
      BY <1>2, <1>4, <3>1 DEF Harmless
    <3>2. CASE q # o
      <4>1. Harmless(q) /\ operator'[q] = operator[q]
        BY <1>4, <3>2 DEF ProcInv, KeptInv
      <4> QED
        BY <1>0, <4>1 DEF Harmless, Sound
    <3> QED
      BY <3>1, <3>2
  <2>3. \A r \in Runner : Sound(runner[r].cmd)' => Sound(runner[r].cmd)
    BY <1>0 DEF Sound
  <2>4. \A r \in Runner : Sound(os[runner[r].pid])' => Sound(os[runner[r].pid])
    BY <1>0 DEF Sound
  <2>5. /\ \A r \in Runner : runner[r].at = "writing" /\ Sound(runner[r].cmd)' => file[runner[r].pid] = Opened(runner[r].cmd)
        /\ \A r \in Runner : runner[r].at \in {"waiting", "terminating", "killed"} /\ Sound(runner[r].cmd)' =>
              file[runner[r].pid] = Whole(runner[r].cmd)
        /\ \A r \in Runner : runner[r].at \in Gone => ~Sound(os[runner[r].pid])'
    BY <2>3, <2>4 DEF ProcInv, KeptInv
  <2> QED
    BY <1>0, <2>1, <2>2, <2>5 DEF KeptInv
<1>13. TargetsInv'
  <2>1. ASSUME NEW q \in Operator PROVE Reaches(q)'
    <3>1. CASE q = o
      <4>1. ASSUME NEW c \in T PROVE \E p \in P : os[p] = c /\ file[p] = Whole(c)
        BY <1>1, <4>1, TrackedFacts
      <4>2. Pending(operator[q])' = P
        BY <1>2, <1>4, <3>1 DEF Pending
      <4>3. operator'[q].at = x /\ operator'[q].targets = T /\ x # "aborted"
        BY <1>2, <1>4, <3>1
      <4> QED
        BY <1>0, <4>1, <4>2, <4>3 DEF Reaches
    <3>2. CASE q # o
      <4>1. Reaches(q) /\ operator'[q] = operator[q]
        BY <1>4, <3>2 DEF ProcInv, TargetsInv
      <4>2. Pending(operator[q])' = Pending(operator[q])
        BY <4>1 DEF Pending
      <4>3. disturbed \subseteq disturbed'
        BY <1>0
      <4> QED
        BY <1>0, <1>10, <4>1, <4>2, <4>3 DEF Reaches
    <3> QED
      BY <3>1, <3>2
  <2> QED
    BY <2>1 DEF TargetsInv
<1> QED
  BY <1>6, <1>7, <1>8, <1>9, <1>12, <1>13 DEF ProcInv

\* Whatever an operator does keeps the invariant.
LEMMA OperatorStepKeeps ==
    ASSUME ProcInv, NEW o \in Operator,
           OperatorStep(o) \/ OperatorDies(o) \/ list_processes(o, "show") \/ list_processes(o, "abort")
              \/ \E p \in Pid : abort_process(o, p)
    PROVE  ProcInv'
<1>1. CASE OperatorStep(o)
  BY <1>1, ReadKeeps, CheckKeeps, PruneKeeps, ListedKeeps, TerminateKeeps, GoneKeeps, KillHardKeeps, ForgetKeeps,
     RemoveKeeps, AbortedKeeps DEF OperatorStep
<1>2. CASE OperatorDies(o)
  BY <1>2, DeathKeeps
<1>3. CASE list_processes(o, "show") \/ list_processes(o, "abort")
  <2>1. PidFiles \in SUBSET Pid
    BY DEF PidFiles
  <2> QED
    BY <1>3, <2>1, BeginsOrderKeeps DEF list_processes
<1>4. ASSUME NEW p \in Pid, abort_process(o, p) PROVE ProcInv'
  <2>1. {p} \in SUBSET Pid
    OBVIOUS
  <2> QED
    BY <1>4, <2>1, BeginsOrderKeeps DEF abort_process
<1> QED
  BY <1>1, <1>2, <1>3, <1>4

\* What is left alone of a sound command is so for the operators.
LEMMA OperatorsKept ==
    ASSUME ProcInv, UNCHANGED operator,
           ended \subseteq ended', disturbed \subseteq disturbed',
           \A p \in Pid : \A c : Sound(c)' /\ os[p] = c => os'[p] = c,
           \A p \in Pid : \A c : Sound(c)' /\ os[p] = c /\ file[p] = Whole(c) => file'[p] = file[p],
           \A p \in Pid : Sound(os[p])' /\ file'[p] = Whole(os'[p]) =>
              (Sound(os[p]) /\ file[p] = Whole(os[p])) \/ \A o \in Operator : p \notin InHand(o)
    PROVE  HandsInv' /\ TargetsInv' /\ \A o \in Operator : Harmless(o)'
<1>0. \A c : Sound(c)' => Sound(c)
  BY DEF Sound
<1>1. HandsInv'
  BY DEF ProcInv, HandsInv, Hands
<1>2. ASSUME NEW o \in Operator PROVE Reaches(o)'
  <2>0. Reaches(o)
    BY DEF ProcInv, TargetsInv
  <2>1. operator[o].at = "aborted" => operator[o].targets \subseteq ended' \cup disturbed'
    BY <2>0 DEF Reaches
  <2>2. ASSUME operator[o].at \in Looking \cup Aborting, NEW c \in operator[o].targets, Sound(c)'
        PROVE  \E p \in Pending(operator[o]) : os'[p] = c /\ (operator[o].at \in Looking => file'[p] = Whole(c))
    <3>1. PICK p \in Pending(operator[o]) : os[p] = c /\ (operator[o].at \in Looking => file[p] = Whole(c))
      BY <1>0, <2>0, <2>2 DEF Reaches
    <3>2. p \in Pid
      BY <2>2, AtWork DEF Pending
    <3> QED
      BY <2>2, <3>1, <3>2
  <2>3. Pending(operator[o])' = Pending(operator[o])
    BY DEF Pending
  <2> QED
    BY <2>1, <2>2, <2>3 DEF Reaches
<1>3. ASSUME NEW o \in Operator PROVE Harmless(o)'
  <2>1. ASSUME operator[o].at \in {"pruning", "killed", "removing"}, NEW p \in operator[o].hand, Sound(os[p])', file'[p] = Whole(os'[p])
        PROVE  FALSE
    <3>1. p \in Pid /\ p \in InHand(o)
      BY <2>1, AtWork DEF Looking, Aborting
    <3>2. Sound(os[p]) => file[p] # Whole(os[p])
      BY <2>1 DEF ProcInv, KeptInv, Harmless
    <3> QED
      BY <2>1, <3>1, <3>2
  <2> QED
    BY <2>1 DEF Harmless
<1> QED
  BY <1>1, <1>2, <1>3 DEF TargetsInv

\* What is known of a runner that is under way.
LEMMA UnderWay ==
    ASSUME ProcInv, NEW r \in Runner, runner[r].at # "away"
    PROVE  /\ runner[r] # Away
           /\ runner[r].at \in Held \cup Gone
           /\ runner[r].pid \in Pid /\ runner[r].cmd \in Command /\ runner[r].cmd # NoCommand /\ runner[r].cmd <= runs
           /\ runner[r].at \in Held => os[runner[r].pid] = runner[r].cmd
           /\ runner[r].at \in Gone => runner[r].cmd \in ended
           /\ \A s \in Runner : runner[s].cmd = runner[r].cmd => s = r
<1>1. runner[r] # Away /\ runner[r].at \in Held \cup Gone /\ runner[r].pid \in Pid /\ runner[r].cmd \in Command
  BY RunnerShapes DEF ProcInv, ProcTypes
<1>2. runner[r].cmd # NoCommand
  BY <1>1, TrackedAssumption DEF Command, NoCommand
<1> QED
  BY <1>1, <1>2 DEF ProcInv, PidsInv

\* The steps of a runner that goes on with its command.
LEMMA GoingOn ==
    ASSUME ProcInv, NEW r \in Runner, runner[r].at # "away", NEW x \in Held \cup Gone, RunnerGoes(r, x)
    PROVE  /\ runner' \in [Runner -> RunnerState]
           /\ runner'[r].at = x /\ runner'[r].pid = runner[r].pid /\ runner'[r].cmd = runner[r].cmd
           /\ runner'[r] # Away
           /\ \A s \in Runner \ {r} : runner'[s] = runner[s]
           /\ \A c : Parents(c)' = Parents(c)
<1>1. PICK d \in [at : Held \cup Gone, pid : Pid, cmd : Command] : d = runner[r]
  BY UnderWay DEF ProcInv, ProcTypes, RunnerState
<1>2. PICK e \in [at : Held \cup Gone, pid : Pid, cmd : Command] :
          e = [d EXCEPT !.at = x] /\ e.at = x /\ e.pid = d.pid /\ e.cmd = d.cmd
  <2> DEFINE w == [d EXCEPT !.at = x]
  <2>1. w \in [at : Held \cup Gone, pid : Pid, cmd : Command]
    OBVIOUS
  <2>2. w.at = x /\ w.pid = d.pid /\ w.cmd = d.cmd
    OBVIOUS
  <2> QED
    BY <2>1, <2>2
<1>3. runner' = [runner EXCEPT ![r] = e]
  BY <1>1, <1>2 DEF RunnerGoes
<1>4. e \in RunnerState
  BY DEF RunnerState
<1>5. runner' \in [Runner -> RunnerState] /\ runner'[r] = e /\ \A s \in Runner \ {r} : runner'[s] = runner[s]
  BY <1>3, <1>4 DEF ProcInv, ProcTypes
<1>6. e # Away
  BY <1>2, RunnerShapes, <1>4 DEF Held, Gone
<1>7. \A c : Parents(c)' = Parents(c)
  BY <1>1, <1>2, <1>5 DEF Parents
<1> QED
  BY <1>1, <1>2, <1>5, <1>6, <1>7

\* A timeout only takes the runner further.
LEMMA WaitingKeeps == ASSUME ProcInv, NEW r \in Runner, TimesOut(r) PROVE ProcInv'
<1>0. runner[r].at = "waiting" /\ RunnerGoes(r, "terminating") /\ UNCHANGED <<os, ended, file, operator, runs, orders, abandoned, disturbed>>
  BY DEF TimesOut
<1>1. /\ runner' \in [Runner -> RunnerState]
      /\ runner'[r].at = "terminating" /\ runner'[r].pid = runner[r].pid /\ runner'[r].cmd = runner[r].cmd
      /\ runner'[r] # Away
      /\ \A s \in Runner \ {r} : runner'[s] = runner[s]
      /\ \A c : Parents(c)' = Parents(c)
  BY <1>0, GoingOn DEF Held
<1>2. ProcTypes'
  BY <1>0, <1>1 DEF ProcInv, ProcTypes
<1>3. PidsInv'
  BY <1>0, <1>1, UnderWay DEF ProcInv, PidsInv, Held, Gone
<1>4. FilesInv'
  BY <1>0, <1>1 DEF ProcInv, FilesInv, PidFiles, Parents
<1>5. HandsInv' /\ TargetsInv' /\ \A o \in Operator : Harmless(o)'
  BY <1>0, OperatorsKept DEF Sound
<1>6. KeptInv'
  BY <1>0, <1>1, <1>5 DEF ProcInv, KeptInv, Sound, InHand, Gone
<1> QED
  BY <1>2, <1>3, <1>4, <1>5, <1>6 DEF ProcInv

\* The command of a runner ends under its own pid.
LEMMA KillKeeps == ASSUME ProcInv, NEW r \in Runner, Kill(r) PROVE ProcInv'
<1>0. /\ runner[r].at = "terminating" /\ RunnerGoes(r, "killed") /\ Ends(runner[r].pid)
      /\ UNCHANGED <<file, operator, runs, orders, abandoned, disturbed>>
  BY DEF Kill
<1>1. /\ runner' \in [Runner -> RunnerState]
      /\ runner'[r].at = "killed" /\ runner'[r].pid = runner[r].pid /\ runner'[r].cmd = runner[r].cmd
      /\ runner'[r] # Away
      /\ \A s \in Runner \ {r} : runner'[s] = runner[s]
      /\ \A c : Parents(c)' = Parents(c)
  BY <1>0, GoingOn DEF Held
<1>2. /\ runner[r].pid \in Pid /\ runner[r].cmd \in Command /\ runner[r].cmd # NoCommand
      /\ os[runner[r].pid] = runner[r].cmd
      /\ \A s \in Runner : runner[s].cmd = runner[r].cmd => s = r
  BY <1>0, UnderWay DEF Held
<1>3. ended' = ended \cup {runner[r].cmd} /\ os' = os
  <2>1. r \in Parents(runner[r].cmd)
    BY DEF Parents
  <2> QED
    BY <1>0, <1>2, <2>1 DEF Ends
<1>4. ProcTypes'
  BY <1>0, <1>1, <1>2, <1>3 DEF ProcInv, ProcTypes
<1>5. PidsInv'
  BY <1>0, <1>1, <1>2, <1>3, UnderWay DEF ProcInv, PidsInv, Held, Gone
<1>6. FilesInv'
  BY <1>0, <1>1, <1>3 DEF ProcInv, FilesInv, PidFiles, Parents
<1>7. HandsInv' /\ TargetsInv' /\ \A o \in Operator : Harmless(o)'
  BY <1>0, <1>3, OperatorsKept DEF Sound
<1>8. KeptInv'
  BY <1>0, <1>1, <1>3, <1>7 DEF ProcInv, KeptInv, Sound, InHand, Gone
<1> QED
  BY <1>4, <1>5, <1>6, <1>7, <1>8 DEF ProcInv

\* The pid of a command that was waited for is free.
LEMMA WaitKeeps == ASSUME ProcInv, NEW r \in Runner, Wait(r) PROVE ProcInv'
<1>0. /\ runner[r].at \in {"waiting", "killed"} /\ runner[r].cmd \in ended /\ RunnerGoes(r, "reaped")
      /\ os' = [os EXCEPT ![runner[r].pid] = NoCommand]
      /\ UNCHANGED <<ended, file, operator, runs, orders, abandoned, disturbed>>
  BY DEF Wait
<1>1. /\ runner' \in [Runner -> RunnerState]
      /\ runner'[r].at = "reaped" /\ runner'[r].pid = runner[r].pid /\ runner'[r].cmd = runner[r].cmd
      /\ runner'[r] # Away
      /\ \A s \in Runner \ {r} : runner'[s] = runner[s]
      /\ \A c : Parents(c)' = Parents(c)
  BY <1>0, GoingOn DEF Gone
<1>2. /\ runner[r].pid \in Pid /\ runner[r].cmd \in Command /\ runner[r].cmd # NoCommand
      /\ os[runner[r].pid] = runner[r].cmd /\ runner[r] # Away
      /\ \A s \in Runner : runner[s].cmd = runner[r].cmd => s = r
  BY <1>0, UnderWay DEF Held
<1>3. /\ os' \in [Pid -> Command \cup {NoCommand}]
      /\ os'[runner[r].pid] = NoCommand /\ \A p \in Pid \ {runner[r].pid} : os'[p] = os[p]
  BY <1>0, <1>2 DEF ProcInv, ProcTypes
<1>4. ProcTypes'
  BY <1>0, <1>1, <1>3 DEF ProcInv, ProcTypes
<1>5. PidsInv'
  <2>1. \A p, q \in Pid : os'[p] = os'[q] /\ os'[p] # NoCommand => p = q
    BY <1>3 DEF ProcInv, PidsInv
  <2>2. \A p \in Pid : os'[p] <= runs
    <3>1. 0 <= runs /\ os'[runner[r].pid] = 0
      BY <1>3 DEF ProcInv, ProcTypes, NoCommand
    <3> QED
      BY <1>3, <3>1 DEF ProcInv, PidsInv
  <2>3. ASSUME NEW s \in Runner, runner[s] # Away, s # r, runner[s].at \in Held PROVE os'[runner[s].pid] = runner[s].cmd
    <3>1. runner[s].pid \in Pid /\ os[runner[s].pid] = runner[s].cmd /\ runner[s].cmd # runner[r].cmd
      BY <1>2, <2>3, RunnerShapes DEF ProcInv, ProcTypes, PidsInv
    <3> QED
      BY <1>2, <1>3, <3>1
  <2>4. \A s, t \in Runner : runner'[s] # Away /\ runner'[t].cmd = runner'[s].cmd => t = s
    BY <1>1, <1>2 DEF ProcInv, PidsInv
  <2>5. "reaped" \notin Held
    BY DEF Held
  <2> QED
    BY <1>0, <1>1, <1>2, <2>1, <2>2, <2>3, <2>4, <2>5 DEF ProcInv, PidsInv
<1>6. FilesInv'
  <2>1. \A p \in PidFiles : file[p].cmd \notin ended => os'[p] = file[p].cmd
    BY <1>0, <1>2, <1>3 DEF ProcInv, FilesInv, PidFiles
  <2>2. PidFiles' = PidFiles
    BY <1>0 DEF PidFiles
  <2>3. \A c : \A s \in Parents(c) : runner'[s].pid = runner[s].pid /\ (runner'[s].at = runner[s].at \/ runner'[s].at = "reaped")
    BY <1>1 DEF Parents
  <2>4. \A c : \A s \in Parents(c)' : s \in Parents(c)
    BY <1>1
  <2> QED
    BY <1>0, <1>1, <2>1, <2>2, <2>3, <2>4 DEF ProcInv, FilesInv
<1>7. /\ \A c : Sound(c)' <=> Sound(c)
      /\ \A p \in Pid : \A c : Sound(c) /\ os[p] = c => os'[p] = c
      /\ \A p \in Pid : Sound(os[p])' => os'[p] = os[p] /\ Sound(os[p])
  BY <1>0, <1>2, <1>3 DEF Sound
<1>8. HandsInv' /\ TargetsInv' /\ \A o \in Operator : Harmless(o)'
  BY <1>0, <1>7, OperatorsKept
<1>9. KeptInv'
  <2>1. \A s \in Runner : runner'[s].at \in Gone => ~Sound(os[runner[s].pid])'
    <3>1. ASSUME NEW s \in Runner, s # r, runner[s].at \in Gone PROVE ~Sound(os[runner[s].pid])'
      <4>1. runner[s].pid \in Pid
        BY <3>1, UnderWay DEF Gone
      <4>2. runner'[s].pid = runner[s].pid /\ ~Sound(os[runner[s].pid])
        BY <1>1, <3>1 DEF ProcInv, KeptInv
      <4>3. PICK p \in Pid : p = runner[s].pid
        BY <4>1
      <4>4. ~Sound(os[p])'
        BY <1>7, <4>2, <4>3
      <4> QED
        BY <4>2, <4>3, <4>4 DEF Sound
    <3>2. ~Sound(os[runner[r].pid])'
      BY <1>1, <1>3 DEF Sound
    <3> QED
      BY <1>1, <3>1, <3>2
  <2>2. \A s \in Runner : runner'[s].at \in Held => runner[s].at = runner'[s].at /\ runner'[s] = runner[s]
    BY <1>1 DEF Held
  <2>4. \A s \in Runner : runner'[s].at \in {"spawned", "writing"} /\ runner'[s].cmd \notin disturbed =>
          \A o \in Operator : runner'[s].pid \notin InHand(o)
    BY <2>2 DEF ProcInv, KeptInv, Held
  <2>5. \A s \in Runner : runner'[s].at = "writing" /\ Sound(runner'[s].cmd) => file[runner'[s].pid] = Opened(runner'[s].cmd)
    BY <2>2 DEF ProcInv, KeptInv, Held
  <2>6. \A s \in Runner : runner'[s].at \in {"waiting", "terminating", "killed"} /\ Sound(runner'[s].cmd) =>
          file[runner'[s].pid] = Whole(runner'[s].cmd)
    BY <2>2 DEF ProcInv, KeptInv, Held
  <2>7. \A o \in Operator : InHand(o)' = InHand(o)
    BY <1>0 DEF InHand
  <2> QED
    BY <1>0, <1>8, <2>1, <2>4, <2>5, <2>6, <2>7 DEF KeptInv, Sound
<1> QED
  BY <1>4, <1>5, <1>6, <1>8, <1>9 DEF ProcInv

\* A file that is opened is that of the command that holds the pid.
LEMMA OpenFileKeeps == ASSUME ProcInv, NEW r \in Runner, OpenPidFile(r) PROVE ProcInv'
<1>0. /\ runner[r].at = "spawned" /\ RunnerGoes(r, "writing")
      /\ file' = [file EXCEPT ![runner[r].pid] = Opened(runner[r].cmd)]
      /\ UNCHANGED <<os, ended, operator, runs, orders, abandoned, disturbed>>
  BY DEF OpenPidFile
<1>1. /\ runner' \in [Runner -> RunnerState]
      /\ runner'[r].at = "writing" /\ runner'[r].pid = runner[r].pid /\ runner'[r].cmd = runner[r].cmd
      /\ runner'[r] # Away
      /\ \A s \in Runner \ {r} : runner'[s] = runner[s]
      /\ \A c : Parents(c)' = Parents(c)
  BY <1>0, GoingOn DEF Held
<1>2. PICK p \in Pid, c \in Command : /\ p = runner[r].pid /\ c = runner[r].cmd
                                      /\ c # NoCommand /\ os[p] = c /\ c <= runs
                                      /\ \A s \in Runner : runner[s].cmd = c => s = r
  BY <1>0, UnderWay DEF Held
<1>3. /\ file' \in [Pid -> {NoPidFile} \cup [cmd : Command, whole : BOOLEAN]]
      /\ file'[p] = Opened(c) /\ \A q \in Pid \ {p} : file'[q] = file[q]
  BY <1>0, <1>2 DEF ProcInv, ProcTypes, Opened
<1>4. \A q \in PidFiles : file[q].cmd # c
  <2>1. r \in Parents(c)
    BY <1>2 DEF Parents
  <2> QED
    BY <1>0, <2>1 DEF ProcInv, FilesInv
<1>5. Opened(c).cmd = c /\ ~Opened(c).whole /\ Opened(c) # NoPidFile /\ \A b : Opened(c) # Whole(b)
  BY <1>2 DEF Opened, Whole, NoPidFile
<1>6. ProcTypes'
  BY <1>0, <1>1, <1>3 DEF ProcInv, ProcTypes
<1>7. PidsInv'
  BY <1>0, <1>1, UnderWay DEF ProcInv, PidsInv, Held, Gone
<1>8. FilesInv'
  <2>1. PidFiles' = PidFiles \cup {p}
    BY <1>3, <1>5 DEF PidFiles
  <2>2. ASSUME NEW q \in PidFiles' PROVE
          /\ file'[q].cmd <= runs
          /\ file'[q].cmd \notin ended => os[q] = file'[q].cmd
          /\ Parents(file'[q].cmd) # {} \/ file'[q].cmd \in abandoned
          /\ \A s \in Parents(file'[q].cmd) :
              /\ runner'[s].pid = q
              /\ runner'[s].at # "spawned"
              /\ runner'[s].at = "writing" => ~file'[q].whole
    <3>1. CASE q = p
      <4>1. file'[q].cmd = c /\ ~file'[q].whole
        BY <1>3, <1>5, <3>1
      <4>2. Parents(c) = {r}
        BY <1>2 DEF Parents
      <4> QED
        BY <1>1, <1>2, <3>1, <4>1, <4>2
    <3>2. CASE q # p
      <4>1. q \in PidFiles /\ file'[q] = file[q]
        BY <1>3, <2>1, <2>2, <3>2 DEF PidFiles
      <4>2. \A s \in Parents(file[q].cmd) : s # r
        BY <1>2, <1>4, <4>1 DEF Parents
      <4>3. \A s \in Parents(file[q].cmd) : runner'[s] = runner[s]
        BY <1>1, <4>2 DEF Parents
      <4> QED
        BY <4>1, <4>3 DEF ProcInv, FilesInv
    <3> QED
      BY <3>1, <3>2
  <2> QED
    BY <1>0, <1>1, <2>2 DEF FilesInv
<1>9. HandsInv' /\ TargetsInv' /\ \A o \in Operator : Harmless(o)'
  <2>1. \A q \in Pid : \A b : os[q] = b /\ file[q] = Whole(b) /\ Sound(b) => file'[q] = file[q]
    <3>1. file[p] # Whole(c)
      BY <1>4 DEF PidFiles, Whole, NoPidFile
    <3> QED
      BY <1>2, <1>3, <3>1
  <2>2. \A q \in Pid : file'[q] = Whole(os[q]) => file[q] = Whole(os[q])
    BY <1>3, <1>5
  <2>3. \A b : Sound(b)' <=> Sound(b)
    BY <1>0 DEF Sound
  <2>4. \A q \in Pid : Sound(os[q])' <=> Sound(os[q])
    BY <1>0 DEF Sound
  <2> QED
    BY <1>0, <2>1, <2>2, <2>3, <2>4, OperatorsKept
<1>10. KeptInv'
  <2>1. ASSUME NEW s \in Runner, s # r, runner[s].at \in Held PROVE file'[runner[s].pid] = file[runner[s].pid]
    <3>1. runner[s].pid \in Pid /\ os[runner[s].pid] = runner[s].cmd /\ runner[s].cmd # c
      BY <1>2, <2>1, UnderWay DEF Held
    <3> QED
      BY <1>2, <1>3, <3>1
  <2>2. file'[runner'[r].pid] = Opened(runner'[r].cmd)
    BY <1>1, <1>2, <1>3
  <2>3. \A s \in Runner : runner'[s].at \in {"spawned", "writing"} => runner[s].at \in {"spawned", "writing"} /\ runner'[s].pid = runner[s].pid
                                                                      /\ runner'[s].cmd = runner[s].cmd
    BY <1>0, <1>1
  <2>4. \A s \in Runner : runner'[s].at = "writing" /\ Sound(runner'[s].cmd) => file'[runner'[s].pid] = Opened(runner'[s].cmd)
    BY <1>1, <2>1, <2>2 DEF ProcInv, KeptInv, Held
  <2>5. \A s \in Runner : runner'[s].at \in {"waiting", "terminating", "killed"} /\ Sound(runner'[s].cmd) =>
          file'[runner'[s].pid] = Whole(runner'[s].cmd)
    BY <1>1, <2>1 DEF ProcInv, KeptInv, Held
  <2>6. \A s \in Runner : runner'[s].at \in Gone => ~Sound(os[runner'[s].pid])
    BY <1>1 DEF ProcInv, KeptInv, Gone
  <2> QED
    BY <1>0, <1>9, <2>3, <2>4, <2>5, <2>6 DEF ProcInv, KeptInv, Sound, InHand
<1> QED
  BY <1>6, <1>7, <1>8, <1>9, <1>10 DEF ProcInv

\* A file is written whole unless another deleted it meanwhile.
LEMMA WriteFileKeeps == ASSUME ProcInv, NEW r \in Runner, WritePidFile(r) PROVE ProcInv'
<1>0. /\ runner[r].at = "writing" /\ RunnerGoes(r, "waiting")
      /\ file' = IF file[runner[r].pid].cmd = runner[r].cmd
                 THEN [file EXCEPT ![runner[r].pid] = Whole(runner[r].cmd)] ELSE file
      /\ UNCHANGED <<os, ended, operator, runs, orders, abandoned, disturbed>>
  BY DEF WritePidFile
<1>1. /\ runner' \in [Runner -> RunnerState]
      /\ runner'[r].at = "waiting" /\ runner'[r].pid = runner[r].pid /\ runner'[r].cmd = runner[r].cmd
      /\ runner'[r] # Away
      /\ \A s \in Runner \ {r} : runner'[s] = runner[s]
      /\ \A c : Parents(c)' = Parents(c)
  BY <1>0, GoingOn DEF Held
<1>2. PICK p \in Pid, c \in Command : /\ p = runner[r].pid /\ c = runner[r].cmd
                                      /\ c # NoCommand /\ os[p] = c /\ c <= runs
                                      /\ \A s \in Runner : runner[s].cmd = c => s = r
  BY <1>0, UnderWay DEF Held
<1>3. /\ file' \in [Pid -> {NoPidFile} \cup [cmd : Command, whole : BOOLEAN]]
      /\ \A q \in Pid : file'[q] = file[q] \/ (q = p /\ file[p].cmd = c /\ file'[p] = Whole(c))
      /\ file[p].cmd = c => file'[p] = Whole(c)
  BY <1>0, <1>2 DEF ProcInv, ProcTypes, Whole
<1>5. Whole(c).cmd = c /\ Whole(c) # NoPidFile /\ Opened(c).cmd = c
  BY <1>2 DEF Opened, Whole, NoPidFile
<1>6. ProcTypes'
  BY <1>0, <1>1, <1>3 DEF ProcInv, ProcTypes
<1>7. PidsInv'
  BY <1>0, <1>1, UnderWay DEF ProcInv, PidsInv, Held, Gone
<1>8. FilesInv'
  <2>1. /\ PidFiles' = PidFiles
        /\ \A q \in PidFiles : file'[q].cmd = file[q].cmd
    <3>1. file[p].cmd = c => file[p] # NoPidFile
      BY <1>2 DEF NoPidFile
    <3> QED
      BY <1>3, <1>5, <3>1 DEF PidFiles
  <2>2. ASSUME NEW q \in PidFiles, NEW s \in Parents(file[q].cmd)
        PROVE  runner'[s].at = "writing" => ~file'[q].whole
    <3>1. CASE s = r
      BY <1>1, <3>1
    <3>2. CASE s # r
      <4>1. runner'[s] = runner[s]
        BY <1>1, <3>2 DEF Parents
      <4>2. q # p \/ file[q].cmd # c
        BY <1>2, <3>2 DEF Parents
      <4>3. file'[q] = file[q]
        BY <1>3, <4>2 DEF PidFiles
      <4> QED
        BY <4>1, <4>3 DEF ProcInv, FilesInv
    <3> QED
      BY <3>1, <3>2
  <2>3. \A b : \A s \in Parents(b) : runner'[s].pid = runner[s].pid /\ (runner[s].at # "spawned" => runner'[s].at # "spawned")
    BY <1>1 DEF Parents
  <2> QED
    BY <1>0, <1>1, <2>1, <2>2, <2>3 DEF ProcInv, FilesInv
<1>9. HandsInv' /\ TargetsInv' /\ \A o \in Operator : Harmless(o)'
  <2>1. \A q \in Pid : \A b : os[q] = b /\ file[q] = Whole(b) => file'[q] = file[q]
    BY <1>2, <1>3
  <2>2. ASSUME NEW q \in Pid, Sound(os[q]), file'[q] = Whole(os[q])
        PROVE  file[q] = Whole(os[q]) \/ \A o \in Operator : q \notin InHand(o)
    <3>1. CASE file'[q] = file[q]
      BY <2>2, <3>1
    <3>2. CASE q = p
      BY <1>0, <1>2, <2>2, <3>2 DEF ProcInv, KeptInv, Sound
    <3> QED
      BY <1>3, <3>1, <3>2
  <2>3. \A b : Sound(b)' <=> Sound(b)
    BY <1>0 DEF Sound
  <2>4. \A q \in Pid : Sound(os[q])' <=> Sound(os[q])
    BY <1>0 DEF Sound
  <2> QED
    BY <1>0, <2>1, <2>2, <2>3, <2>4, OperatorsKept
<1>10. KeptInv'
  <2>1. ASSUME NEW s \in Runner, s # r, runner[s].at \in Held PROVE file'[runner[s].pid] = file[runner[s].pid]
    <3>1. runner[s].pid \in Pid /\ os[runner[s].pid] = runner[s].cmd /\ runner[s].cmd # c
      BY <1>2, <2>1, UnderWay DEF Held
    <3> QED
      BY <1>2, <1>3, <3>1
  <2>2. Sound(c) => file'[p] = Whole(c)
    <3>1. Sound(c) => file[p] = Opened(c)
      BY <1>0, <1>2 DEF ProcInv, KeptInv
    <3> QED
      BY <1>3, <1>5, <3>1
  <2>3. \A s \in Runner : runner'[s].at \in {"spawned", "writing"} => runner[s].at \in {"spawned", "writing"} /\ runner'[s].pid = runner[s].pid
                                                                      /\ runner'[s].cmd = runner[s].cmd
    BY <1>0, <1>1
  <2>4. \A s \in Runner : runner'[s].at = "writing" /\ Sound(runner'[s].cmd) => file'[runner'[s].pid] = Opened(runner'[s].cmd)
    BY <1>1, <2>1 DEF ProcInv, KeptInv, Held
  <2>5. ASSUME NEW s \in Runner, runner'[s].at \in {"waiting", "terminating", "killed"}, Sound(runner'[s].cmd)
        PROVE  file'[runner'[s].pid] = Whole(runner'[s].cmd)
    <3>1. CASE s = r
      BY <1>1, <1>2, <2>2, <2>5, <3>1
    <3>2. CASE s # r
      BY <1>1, <2>1, <2>5, <3>2 DEF ProcInv, KeptInv, Held
    <3> QED
      BY <3>1, <3>2
  <2>6. \A s \in Runner : runner'[s].at \in Gone => ~Sound(os[runner'[s].pid])
    BY <1>1 DEF ProcInv, KeptInv, Gone
  <2> QED
    BY <1>0, <1>9, <2>3, <2>4, <2>5, <2>6 DEF ProcInv, KeptInv, Sound, InHand
<1> QED
  BY <1>6, <1>7, <1>8, <1>9, <1>10 DEF ProcInv

\* A runner that is done, or dies, leaves its file only if it dies.
LEMMA LeavingKeeps ==
    ASSUME ProcInv, NEW r \in Runner, runner[r].at # "away",
           runner' = [runner EXCEPT ![r] = Away],
           file' \in [Pid -> {NoPidFile} \cup [cmd : Command, whole : BOOLEAN]],
           \A p \in Pid : file'[p] = file[p] \/ (p = runner[r].pid /\ file'[p] = NoPidFile /\ ~Sound(os[p])),
           os' \in [Pid -> Command \cup {NoCommand}],
           \A p \in Pid : os'[p] = os[p] \/ (os'[p] = NoCommand /\ os[p] = runner[r].cmd /\ runner[r].cmd \in ended),
           abandoned' \subseteq Command, abandoned \subseteq abandoned',
           runner[r].cmd \in abandoned' \/ file'[runner[r].pid] = NoPidFile,
           UNCHANGED <<ended, operator, runs, orders, disturbed>>
    PROVE  ProcInv'
<1>1. runner' \in [Runner -> RunnerState] /\ runner'[r] = Away /\ \A s \in Runner \ {r} : runner'[s] = runner[s]
  BY DEF ProcInv, ProcTypes, RunnerState
<1>2. PICK p \in Pid, c \in Command : /\ p = runner[r].pid /\ c = runner[r].cmd
                                      /\ c # NoCommand /\ runner[r] # Away
                                      /\ \A s \in Runner : runner[s].cmd = c => s = r
  BY UnderWay
<1>3. /\ Away.cmd = NoCommand /\ Away.at = "away" /\ "away" \notin Held \cup Gone
      /\ \A b \in Command : b # NoCommand
  BY TrackedAssumption DEF Away, Held, Gone, Command, NoCommand
<1>4. ProcTypes'
  BY <1>1 DEF ProcInv, ProcTypes
<1>5. PidsInv'
  <2>1. \A q, t \in Pid : os'[q] = os'[t] /\ os'[q] # NoCommand => q = t
    BY DEF ProcInv, PidsInv
  <2>2. \A q \in Pid : os'[q] <= runs
    <3>1. 0 <= runs /\ \A q \in Pid : os'[q] = os[q] \/ os'[q] = 0
      BY DEF ProcInv, ProcTypes, NoCommand
    <3> QED
      BY <3>1 DEF ProcInv, PidsInv
  <2>3. ASSUME NEW s \in Runner, s # r, runner[s] # Away
        PROVE  /\ runner[s].at \in Held => os'[runner[s].pid] = runner[s].cmd
               /\ runner[s].cmd <= runs /\ runner[s].cmd \in Command
               /\ runner[s].at \in Gone => runner[s].cmd \in ended
               /\ \A t \in Runner : runner[t].cmd = runner[s].cmd => t = s
    <3>1. runner[s].at # "away"
      BY <2>3, RunnerShapes DEF ProcInv, ProcTypes
    <3> QED
      BY <1>2, <2>3, <3>1, UnderWay
  <2>4. \A s \in Runner : runner'[s] # Away => s # r /\ runner'[s] = runner[s] /\ \A t \in Runner : runner'[t].cmd = runner'[s].cmd => t = s
    <3>1. ASSUME NEW s \in Runner, runner'[s] # Away PROVE s # r /\ runner'[s] = runner[s]
      BY <1>1, <3>1
    <3>2. ASSUME NEW s \in Runner, runner'[s] # Away, NEW t \in Runner, runner'[t].cmd = runner'[s].cmd PROVE t = s
      <4>1. t # r
        BY <1>1, <1>3, <2>3, <3>1, <3>2
      <4> QED
        BY <1>1, <2>3, <3>1, <3>2, <4>1
    <3> QED
      BY <3>1, <3>2
  <2> QED
    BY <2>1, <2>2, <2>3, <2>4 DEF PidsInv
<1>6. \A b \in Command : Parents(b)' = Parents(b) \ {r}
  BY <1>1, <1>3 DEF Parents
<1>7. FilesInv'
  <2>1. ASSUME NEW q \in PidFiles' PROVE q \in PidFiles /\ file'[q] = file[q] /\ file[q].cmd \in Command
    BY <2>1 DEF PidFiles, ProcInv, ProcTypes
  <2>2. ASSUME NEW q \in PidFiles'
        PROVE  /\ file[q].cmd <= runs
               /\ file[q].cmd \notin ended => os'[q] = file[q].cmd
               /\ Parents(file[q].cmd)' # {} \/ file[q].cmd \in abandoned'
               /\ \A s \in Parents(file[q].cmd) : /\ runner[s].pid = q
                                                  /\ runner[s].at # "spawned"
                                                  /\ runner[s].at = "writing" => ~file[q].whole
    <3>1. /\ file[q].cmd <= runs
          /\ file[q].cmd \notin ended => os[q] = file[q].cmd
          /\ Parents(file[q].cmd) # {} \/ file[q].cmd \in abandoned
          /\ \A s \in Parents(file[q].cmd) : /\ runner[s].pid = q
                                             /\ runner[s].at # "spawned"
                                             /\ runner[s].at = "writing" => ~file[q].whole
      BY <2>1 DEF ProcInv, FilesInv
    <3>2. file[q].cmd \notin ended => os'[q] = file[q].cmd
      BY <2>1, <3>1 DEF PidFiles
    <3>3. CASE file[q].cmd = c
      <4>1. r \in Parents(file[q].cmd)
        BY <1>2, <3>3 DEF Parents
      <4>2. q = p
        BY <1>2, <3>1, <4>1
      <4>3. c \in abandoned'
        BY <1>2, <2>2, <4>2 DEF PidFiles
      <4> QED
        BY <3>1, <3>2, <3>3, <4>3
    <3>4. CASE file[q].cmd # c
      <4>1. r \notin Parents(file[q].cmd)
        BY <1>2, <3>4 DEF Parents
      <4> QED
        BY <1>6, <2>1, <3>1, <3>2, <4>1
    <3> QED
      BY <3>3, <3>4
  <2>3. \A b \in Command : \A s \in Parents(b)' : s \in Parents(b) /\ runner'[s] = runner[s]
    BY <1>1, <1>6 DEF Parents
  <2> QED
    BY <2>1, <2>2, <2>3 DEF FilesInv
<1>8. /\ \A b : Sound(b)' <=> Sound(b)
      /\ \A q \in Pid : \A b : Sound(b) /\ os[q] = b => os'[q] = b
      /\ \A q \in Pid : Sound(os[q])' => os'[q] = os[q] /\ Sound(os[q])
  BY <1>2 DEF Sound
<1>9. HandsInv' /\ TargetsInv' /\ \A o \in Operator : Harmless(o)'
  <2>1. \A q \in Pid : \A b : Sound(b)' /\ os[q] = b /\ file[q] = Whole(b) => file'[q] = file[q]
    BY <1>8
  <2>2. NoPidFile.cmd = 0 /\ \A b \in Command : Whole(b).cmd # 0
    BY TrackedAssumption DEF NoPidFile, NoCommand, Whole, Command
  <2>3. ASSUME NEW q \in Pid, Sound(os[q])', file'[q] = Whole(os'[q]) PROVE Sound(os[q]) /\ file[q] = Whole(os[q])
    BY <1>8, <2>3
  <2> QED
    BY <1>8, <2>1, <2>3, OperatorsKept
<1>10. KeptInv'
  <2>1. ASSUME NEW s \in Runner, s # r, runner[s].at \in Held, Sound(runner[s].cmd)
        PROVE  file'[runner[s].pid] = file[runner[s].pid]
    <3>1. runner[s].pid \in Pid /\ os[runner[s].pid] = runner[s].cmd
      BY <2>1, UnderWay DEF Held
    <3> QED
      BY <2>1, <3>1
  <2>2. \A s \in Runner : runner'[s].at \in Held \cup Gone => s # r /\ runner'[s] = runner[s]
    BY <1>1, <1>3
  <2>3. \A s \in Runner : runner'[s].at \in {"spawned", "writing"} /\ runner'[s].cmd \notin disturbed =>
          \A o \in Operator : runner'[s].pid \notin InHand(o)
    BY <2>2 DEF ProcInv, KeptInv, Held
  <2>4. \A s \in Runner : runner'[s].at = "writing" /\ Sound(runner'[s].cmd) => file'[runner'[s].pid] = Opened(runner'[s].cmd)
    BY <2>1, <2>2 DEF ProcInv, KeptInv, Held
  <2>5. \A s \in Runner : runner'[s].at \in {"waiting", "terminating", "killed"} /\ Sound(runner'[s].cmd) =>
          file'[runner'[s].pid] = Whole(runner'[s].cmd)
    BY <2>1, <2>2 DEF ProcInv, KeptInv, Held
  <2>6. ASSUME NEW s \in Runner, runner'[s].at \in Gone PROVE ~Sound(os[runner[s].pid])'
    <3>1. s # r /\ runner'[s] = runner[s] /\ runner[s].at \in Gone
      BY <2>2, <2>6
    <3>2. runner[s].pid \in Pid /\ ~Sound(os[runner[s].pid])
      BY <3>1, UnderWay DEF ProcInv, KeptInv, Gone
    <3>3. PICK q \in Pid : q = runner[s].pid
      BY <3>2
    <3>4. ~Sound(os[q])'
      BY <1>8, <3>2, <3>3
    <3> QED
      BY <3>1, <3>3, <3>4 DEF Sound
  <2>7. \A b : Sound(b)' <=> Sound(b)
    BY <1>8
  <2>8. \A s \in Runner : Sound(runner[s].cmd)' <=> Sound(runner'[s].cmd)
    BY DEF Sound
  <2>9. \A o \in Operator : InHand(o)' = InHand(o)
    BY DEF InHand
  <2> QED
    BY <1>9, <2>3, <2>4, <2>5, <2>6, <2>8, <2>9 DEF KeptInv
<1> QED
  BY <1>4, <1>5, <1>7, <1>9, <1>10 DEF ProcInv

\* A runner whose file is gone is done.
LEMMA CleanUpKeeps == ASSUME ProcInv, NEW r \in Runner, CleanUp(r) PROVE ProcInv'
<1>0. runner[r].at = "reaped" /\ UNCHANGED <<os, ended, file, operator, runs, orders, abandoned, disturbed>>
  BY DEF CleanUp
<1>1. CASE file[runner[r].pid] = NoPidFile /\ runner' = [runner EXCEPT ![r] = Away]
  <2>1. /\ file' \in [Pid -> {NoPidFile} \cup [cmd : Command, whole : BOOLEAN]]
        /\ os' \in [Pid -> Command \cup {NoCommand}] /\ abandoned' \subseteq Command
    BY <1>0 DEF ProcInv, ProcTypes
  <2> QED
    BY <1>0, <1>1, <2>1, LeavingKeeps
<1>2. CASE RunnerGoes(r, "unlinking")
  <2>1. /\ runner' \in [Runner -> RunnerState]
        /\ runner'[r].at = "unlinking" /\ runner'[r].pid = runner[r].pid /\ runner'[r].cmd = runner[r].cmd
        /\ runner'[r] # Away
        /\ \A s \in Runner \ {r} : runner'[s] = runner[s]
        /\ \A c : Parents(c)' = Parents(c)
    BY <1>0, <1>2, GoingOn DEF Gone
  <2>2. ProcTypes'
    BY <1>0, <2>1 DEF ProcInv, ProcTypes
  <2>3. PidsInv'
    BY <1>0, <2>1, UnderWay DEF ProcInv, PidsInv, Held, Gone
  <2>4. FilesInv'
    BY <1>0, <2>1 DEF ProcInv, FilesInv, PidFiles, Parents
  <2>5. HandsInv' /\ TargetsInv' /\ \A o \in Operator : Harmless(o)'
    BY <1>0, OperatorsKept DEF Sound
  <2>6. KeptInv'
    BY <1>0, <2>1, <2>5 DEF ProcInv, KeptInv, Sound, InHand, Gone
  <2> QED
    BY <2>2, <2>3, <2>4, <2>5, <2>6 DEF ProcInv
<1> QED
  BY <1>1, <1>2 DEF CleanUp

\* A runner deletes the file of the command it waited for.
LEMMA UnlinkKeeps == ASSUME ProcInv, NEW r \in Runner, Unlink(r) PROVE ProcInv'
<1>0. /\ runner[r].at = "unlinking" /\ runner' = [runner EXCEPT ![r] = Away]
      /\ file' = [file EXCEPT ![runner[r].pid] = NoPidFile]
      /\ UNCHANGED <<os, ended, operator, runs, orders, abandoned, disturbed>>
  BY DEF Unlink
<1>1. PICK p \in Pid : p = runner[r].pid /\ ~Sound(os[p])
  BY <1>0, UnderWay DEF ProcInv, KeptInv, Gone
<1>2. /\ file' \in [Pid -> {NoPidFile} \cup [cmd : Command, whole : BOOLEAN]]
      /\ file'[p] = NoPidFile /\ \A q \in Pid \ {p} : file'[q] = file[q]
  BY <1>0, <1>1 DEF ProcInv, ProcTypes
<1>3. os' \in [Pid -> Command \cup {NoCommand}] /\ abandoned' \subseteq Command
  BY <1>0 DEF ProcInv, ProcTypes
<1> QED
  BY <1>0, <1>1, <1>2, <1>3, LeavingKeeps

\* The file of a runner that dies stays, and its command is abandoned.
LEMMA RunnerDiesKeeps == ASSUME ProcInv, NEW r \in Runner, RunnerDies(r) PROVE ProcInv'
<1>0. /\ runner[r].at # "away" /\ runner' = [runner EXCEPT ![r] = Away]
      /\ abandoned' = abandoned \cup {runner[r].cmd}
      /\ os' = IF os[runner[r].pid] = runner[r].cmd /\ runner[r].cmd \in ended
               THEN [os EXCEPT ![runner[r].pid] = NoCommand] ELSE os
      /\ UNCHANGED <<ended, file, operator, runs, orders, disturbed>>
  BY DEF RunnerDies
<1>1. PICK p \in Pid, c \in Command : p = runner[r].pid /\ c = runner[r].cmd
  BY <1>0, UnderWay
<1>2. /\ os' \in [Pid -> Command \cup {NoCommand}]
      /\ \A q \in Pid : os'[q] = os[q] \/ (os'[q] = NoCommand /\ os[q] = c /\ c \in ended)
  BY <1>0, <1>1 DEF ProcInv, ProcTypes
<1>3. file' \in [Pid -> {NoPidFile} \cup [cmd : Command, whole : BOOLEAN]] /\ abandoned' \subseteq Command
  BY <1>0, <1>1 DEF ProcInv, ProcTypes
<1> QED
  BY <1>0, <1>1, <1>2, <1>3, LeavingKeeps

\* A pid that is given out is that of no other command, whatever its file says.
LEMMA PopenKeeps == ASSUME ProcInv, NEW r \in Runner, Popen(r) PROVE ProcInv'
<1>0. PICK p \in Pid :
          /\ os[p] = NoCommand
          /\ os' = [os EXCEPT ![p] = runs']
          /\ runner' = [runner EXCEPT ![r] = [at |-> "spawned", pid |-> p, cmd |-> runs']]
          /\ disturbed' = IF p \in InHands THEN disturbed \cup {runs'} ELSE disturbed
  BY DEF Popen, _is_process_alive
<1>1. /\ runner[r].at = "away" /\ runs < MaxRuns /\ runs' = runs + 1
      /\ UNCHANGED <<ended, file, operator, orders, abandoned>>
  BY DEF Popen
<1>2. PICK c \in Command : c = runs' /\ c = runs + 1 /\ c # NoCommand
  BY <1>1, TrackedAssumption DEF ProcInv, ProcTypes, Command, NoCommand
<1>3. PICK e \in [at : Held \cup Gone, pid : Pid, cmd : Command] :
          e = [at |-> "spawned", pid |-> p, cmd |-> c] /\ e.at = "spawned" /\ e.pid = p /\ e.cmd = c
  <2> DEFINE w == [at |-> "spawned", pid |-> p, cmd |-> c]
  <2>1. w \in [at : Held \cup Gone, pid : Pid, cmd : Command]
    BY DEF Held
  <2> QED
    BY <2>1
<1>4. e \in RunnerState /\ e # Away
  BY <1>3, RunnerShapes DEF RunnerState
<1>5. runner' \in [Runner -> RunnerState] /\ runner'[r] = e /\ \A s \in Runner \ {r} : runner'[s] = runner[s]
  BY <1>0, <1>2, <1>3, <1>4 DEF ProcInv, ProcTypes
<1>6. os' \in [Pid -> Command \cup {NoCommand}] /\ os'[p] = c /\ \A q \in Pid \ {p} : os'[q] = os[q]
  BY <1>0, <1>2 DEF ProcInv, ProcTypes
<1>7. disturbed \subseteq disturbed' /\ disturbed' \subseteq disturbed \cup {c} /\ (p \in InHands => c \in disturbed')
  BY <1>0, <1>2
<1>8. ProcTypes'
  <2>1. runs' \in 0..MaxRuns
    BY <1>1, TrackedAssumption DEF ProcInv, ProcTypes
  <2> QED
    BY <1>1, <1>5, <1>6, <1>7, <2>1 DEF ProcInv, ProcTypes
<1>9. \A b \in Command : b <= runs => b # c /\ b <= runs'
  BY <1>1, <1>2 DEF ProcInv, ProcTypes, Command
<1>10. ASSUME NEW s \in Runner, s # r, runner[s].at # "away"
       PROVE  /\ runner'[s] = runner[s] /\ runner[s].pid \in Pid /\ runner[s].cmd \in Command
              /\ runner[s].cmd # c /\ runner[s].cmd <= runs'
              /\ runner[s].at \in Held => os[runner[s].pid] = runner[s].cmd /\ runner[s].pid # p
              /\ runner[s].at \in Gone => runner[s].cmd \in ended
              /\ \A t \in Runner : runner[t].cmd = runner[s].cmd => t = s
  BY <1>0, <1>5, <1>9, <1>10, UnderWay
<1>11. \A s \in Runner : s = r \/ runner'[s] = Away \/ runner[s].at # "away"
  BY <1>5, RunnerShapes DEF ProcInv, ProcTypes
<1>12. Away.cmd = NoCommand /\ Away.at = "away" /\ "away" \notin Held \cup Gone /\ "spawned" \notin Gone
  BY DEF Away, Held, Gone
<1>13. PidsInv'
  <2>1. ASSUME NEW q \in Pid, q # p PROVE os'[q] # c
    <3>1. os[q] \in Command \cup {NoCommand} /\ os[q] <= runs
      BY DEF ProcInv, ProcTypes, PidsInv
    <3> QED
      BY <1>2, <1>6, <1>9, <2>1, <3>1
  <2>2. \A q, t \in Pid : os'[q] = os'[t] /\ os'[q] # NoCommand => q = t
    BY <1>6, <2>1 DEF ProcInv, PidsInv
  <2>3. \A q \in Pid : os'[q] <= runs'
    <3>1. \A q \in Pid : os[q] <= runs /\ os[q] \in Nat
      BY DEF ProcInv, ProcTypes, PidsInv, Command, NoCommand
    <3>2. runs \in Nat /\ runs' = runs + 1 /\ c <= runs'
      BY <1>1, <1>2 DEF ProcInv, ProcTypes
    <3> QED
      BY <1>6, <3>1, <3>2
  <2>4. c <= runs'
    BY <1>1, <1>2 DEF ProcInv, ProcTypes
  <2>5. ASSUME NEW s \in Runner, s # r, runner'[s] # Away
        PROVE  /\ runner'[s].cmd <= runs'
               /\ runner'[s].at \in Held => os'[runner'[s].pid] = runner'[s].cmd
               /\ runner'[s].at \in Gone => runner'[s].cmd \in ended
               /\ \A t \in Runner : runner'[t].cmd = runner'[s].cmd => t = s
    <3>1. runner[s].at # "away"
      BY <1>11, <2>5
    <3>2. \A t \in Runner : runner'[t].cmd = runner'[s].cmd => t = s
      BY <1>3, <1>5, <1>10, <2>5, <3>1
    <3> QED
      BY <1>6, <1>10, <2>5, <3>1, <3>2
  <2>6. \A t \in Runner : runner'[t].cmd = c => t = r
    BY <1>2, <1>10, <1>11, <1>12
  <2> QED
    BY <1>1, <1>3, <1>5, <1>6, <1>12, <2>2, <2>3, <2>4, <2>5, <2>6 DEF PidsInv
<1>14. FilesInv'
  <2>1. ASSUME NEW q \in PidFiles' PROVE
          /\ file[q].cmd <= runs'
          /\ file[q].cmd \notin ended => os'[q] = file[q].cmd
          /\ Parents(file[q].cmd)' # {} \/ file[q].cmd \in abandoned
          /\ \A s \in Parents(file[q].cmd)' :
              /\ runner'[s].pid = q
              /\ runner'[s].at # "spawned"
              /\ runner'[s].at = "writing" => ~file[q].whole
    <3>1. q \in PidFiles /\ q \in Pid
      BY <1>1, <2>1 DEF PidFiles
    <3>2. file[q].cmd \in Command
      BY <3>1 DEF PidFiles, ProcInv, ProcTypes
    <3>3. file[q].cmd # c /\ file[q].cmd <= runs'
      BY <1>9, <3>1, <3>2 DEF ProcInv, FilesInv
    <3>4. PICK b \in Command : b = file[q].cmd
      BY <3>2
    <3>5. b # NoCommand
      BY <3>4, TrackedAssumption DEF Command, NoCommand
    <3>6. Parents(b)' = Parents(b)
      <4>1. \A s \in Runner : runner'[s].cmd = b <=> runner[s].cmd = b
        <5>1. runner[r] = Away
          BY <1>1, RunnerShapes DEF ProcInv, ProcTypes
        <5> QED
          BY <1>3, <1>5, <1>12, <3>3, <3>4, <3>5, <5>1
      <4> QED
        BY <4>1 DEF Parents
    <3>7. \A s \in Parents(b) : s # r /\ runner'[s] = runner[s]
      <4>1. runner[r].cmd = NoCommand
        BY <1>1, <1>12, RunnerShapes DEF ProcInv, ProcTypes
      <4> QED
        BY <1>5, <3>5, <4>1 DEF Parents
    <3>8. b \notin ended => os'[q] = b
      BY <1>0, <1>6, <3>1, <3>4, <3>5 DEF ProcInv, FilesInv
    <3> QED
      BY <1>1, <3>1, <3>3, <3>4, <3>6, <3>7, <3>8 DEF ProcInv, FilesInv
  <2> QED
    BY <1>1, <2>1 DEF FilesInv
<1>15. \A b : b # c => (Sound(b)' <=> Sound(b))
  BY <1>1, <1>7 DEF Sound
<1>16. \A b : Sound(b)' => Sound(b)
  BY <1>1, <1>7 DEF Sound
<1>17. file[p] # Whole(c) /\ Sound(NoCommand) = FALSE
  <2>1. Whole(c) # NoPidFile /\ Whole(c).cmd = c
    BY <1>2 DEF Whole, NoPidFile
  <2>2. ~(c <= runs)
    BY <1>9
  <2> QED
    BY <2>1, <2>2 DEF ProcInv, FilesInv, PidFiles, Sound
<1>18. HandsInv' /\ TargetsInv' /\ \A o \in Operator : Harmless(o)'
  <2>1. \A q \in Pid : \A b : Sound(b)' /\ os[q] = b => os'[q] = b
    BY <1>0, <1>6, <1>16, <1>17
  <2>2. ASSUME NEW q \in Pid, Sound(os[q])', file'[q] = Whole(os'[q]) PROVE Sound(os[q]) /\ file[q] = Whole(os[q])
    <3>1. q # p
      BY <1>1, <1>6, <1>17, <2>2
    <3>2. os'[q] = os[q]
      BY <1>6, <3>1
    <3>3. Sound(os[q])
      BY <1>1, <1>7, <2>2, <3>2 DEF Sound
    <3> QED
      BY <1>1, <2>2, <3>2, <3>3
  <2> QED
    BY <1>1, <1>7, <2>1, <2>2, OperatorsKept
<1>19. KeptInv'
  <2>1. ASSUME c \notin disturbed', NEW o \in Operator PROVE p \notin InHand(o)
    BY <1>7, <2>1 DEF InHands
  <2>2. ASSUME NEW s \in Runner, s # r, runner[s].at \in Gone PROVE os'[runner[s].pid] \in ended' \cup disturbed' \cup {NoCommand}
    <3>1. runner[s].at # "away" /\ runner[s].pid \in Pid
      BY <1>10, <1>12, <2>2
    <3>2. CASE runner[s].pid = p
      <4>1. p \in Cleaning
        BY <2>2, <3>2 DEF Cleaning, Gone
      <4>2. c \in disturbed'
        BY <1>7, <4>1 DEF InHands
      <4> QED
        BY <1>6, <3>2, <4>2 DEF Sound
    <3>3. CASE runner[s].pid # p
      <4>1. os'[runner[s].pid] = os[runner[s].pid] /\ ~Sound(os[runner[s].pid])
        BY <1>6, <2>2, <3>1, <3>3 DEF ProcInv, KeptInv
      <4> QED
        BY <1>1, <1>7, <4>1 DEF Sound
    <3> QED
      BY <3>2, <3>3
  <2>3. \A s \in Runner : s # r /\ runner[s].at # "away" => runner'[s] = runner[s] /\ runner[s].cmd # c
    BY <1>10
  <2>4. \A s \in Runner : runner'[s].at \in {"spawned", "writing"} /\ runner'[s].cmd \notin disturbed' =>
            \A o \in Operator : runner'[s].pid \notin InHand(o)
    <3>1. ASSUME NEW s \in Runner, s # r, runner'[s].at \in {"spawned", "writing"}, runner'[s].cmd \notin disturbed', NEW o \in Operator
          PROVE  runner'[s].pid \notin InHand(o)
      <4>1. runner'[s] = runner[s] /\ runner[s].cmd \notin disturbed
        BY <1>5, <1>7, <3>1
      <4> QED
        BY <3>1, <4>1 DEF ProcInv, KeptInv
    <3> QED
      BY <1>3, <1>5, <2>1, <3>1
  <2>5. \A s \in Runner : runner'[s].at = "writing" /\ runner'[s].cmd \notin ended' \cup disturbed' \cup {NoCommand} => file[runner'[s].pid] = Opened(runner'[s].cmd)
    <3>1. ASSUME NEW s \in Runner, runner'[s].at = "writing", runner'[s].cmd \notin ended' \cup disturbed' \cup {NoCommand} PROVE file[runner'[s].pid] = Opened(runner'[s].cmd)
      <4>1. s # r /\ runner'[s] = runner[s]
        BY <1>3, <1>5, <3>1
      <4>2. Sound(runner[s].cmd)
        BY <1>1, <1>7, <3>1, <4>1 DEF Sound
      <4> QED
        BY <3>1, <4>1, <4>2 DEF ProcInv, KeptInv
    <3> QED
      BY <3>1
  <2>6. \A s \in Runner : runner'[s].at \in {"waiting", "terminating", "killed"} /\ runner'[s].cmd \notin ended' \cup disturbed' \cup {NoCommand} =>
            file[runner'[s].pid] = Whole(runner'[s].cmd)
    <3>1. ASSUME NEW s \in Runner, runner'[s].at \in {"waiting", "terminating", "killed"}, runner'[s].cmd \notin ended' \cup disturbed' \cup {NoCommand}
          PROVE  file[runner'[s].pid] = Whole(runner'[s].cmd)
      <4>1. s # r /\ runner'[s] = runner[s]
        BY <1>3, <1>5, <3>1
      <4>2. Sound(runner[s].cmd)
        BY <1>1, <1>7, <3>1, <4>1 DEF Sound
      <4> QED
        BY <3>1, <4>1, <4>2 DEF ProcInv, KeptInv
    <3> QED
      BY <3>1
  <2>7. \A s \in Runner : runner'[s].at \in Gone => os'[runner'[s].pid] \in ended' \cup disturbed' \cup {NoCommand}
    <3>1. \A s \in Runner : runner'[s].at \in Gone => s # r /\ runner'[s] = runner[s]
      BY <1>3, <1>5, <1>12
    <3> QED
      BY <2>2, <3>1
  <2>8. \A o \in Operator : InHand(o)' = InHand(o)
    BY <1>1 DEF InHand
  <2> QED
    BY <1>1, <1>18, <2>4, <2>5, <2>6, <2>7, <2>8 DEF KeptInv, Sound
<1> QED
  BY <1>8, <1>13, <1>14, <1>18, <1>19 DEF ProcInv

\* Every step keeps the invariant.
LEMMA ProcStep == ProcInv /\ [TrackedNext]_trackedVars => ProcInv'
<1> SUFFICES ASSUME ProcInv, [TrackedNext]_trackedVars PROVE ProcInv'
  OBVIOUS
<1>1. ASSUME NEW p \in Pid, ProcessEnds(p) PROVE ProcInv'
  BY <1>1, EndingKeeps
<1>2. ASSUME NEW r \in Runner, Popen(r) \/ RunnerDies(r) PROVE ProcInv'
  BY <1>2, PopenKeeps, RunnerDiesKeeps
<1>3. ASSUME NEW r \in Runner, RunnerStep(r) PROVE ProcInv'
  BY <1>3, OpenFileKeeps, WriteFileKeeps, WaitingKeeps, KillKeeps, WaitKeeps, CleanUpKeeps, UnlinkKeeps DEF RunnerStep
<1>4. ASSUME NEW o \in Operator,
             OperatorStep(o) \/ OperatorDies(o) \/ list_processes(o, "show") \/ list_processes(o, "abort")
                \/ \E p \in Pid : abort_process(o, p)
      PROVE  ProcInv'
  BY <1>4, OperatorStepKeeps
<1>5. CASE UNCHANGED trackedVars
  <2>1. UNCHANGED <<os, ended, file, runner, operator, runs, orders, abandoned, disturbed>>
    BY <1>5 DEF trackedVars
  <2>2. ProcTypes' /\ PidsInv'
    BY <2>1 DEF ProcInv, ProcTypes, PidsInv
  <2>3. FilesInv' /\ HandsInv'
    BY <2>1 DEF ProcInv, FilesInv, PidFiles, Parents, HandsInv, Hands
  <2>4. KeptInv'
    BY <2>1 DEF ProcInv, KeptInv, Sound, InHand, Harmless
  <2>5. TargetsInv'
    BY <2>1 DEF ProcInv, TargetsInv, Reaches, Pending, Sound
  <2> QED
    BY <2>2, <2>3, <2>4, <2>5 DEF ProcInv
<1> QED
  BY <1>1, <1>2, <1>3, <1>4, <1>5 DEF TrackedNext

\* Nothing runs and there is no file.
LEMMA ProcInitially == TrackedInit => ProcInv
<1> SUFFICES ASSUME TrackedInit PROVE ProcInv
  OBVIOUS
<1>1. Away.at = "away" /\ Quiet.at = "quiet" /\ Away \in RunnerState /\ Quiet \in OperatorState
  BY DEF Away, Quiet, RunnerState, OperatorState
<1>2. \A r \in Runner : runner[r] = Away
  BY DEF TrackedInit
<1>3. \A o \in Operator : operator[o] = Quiet
  BY DEF TrackedInit
<1>4. ProcTypes
  BY <1>1, TrackedAssumption DEF TrackedInit, ProcTypes
<1>5. PidsInv
  BY <1>2 DEF TrackedInit, PidsInv, NoCommand
<1>6. FilesInv
  BY DEF TrackedInit, FilesInv, PidFiles
<1>7. HandsInv /\ TargetsInv
  BY <1>1, <1>3 DEF HandsInv, Hands, TargetsInv, Reaches, Looking, Aborting
<1>8. KeptInv
  BY <1>1, <1>2, <1>3 DEF KeptInv, Harmless, Gone
<1> QED
  BY <1>4, <1>5, <1>6, <1>7, <1>8 DEF ProcInv

\* In every reachable state the files, the pids and what is in hand fit together.
LEMMA ProcInvariant == TrackedSpec => []ProcInv
BY ProcInitially, ProcStep, PTL DEF TrackedSpec

\* The variables keep their types.
THEOREM ProcessTypeCorrect == TrackedSpec => []TrackedTypeOK
<1>1. ProcInv => TrackedTypeOK
  <2>1. ASSUME ProcInv, NEW r \in Runner PROVE runner[r] = Away \/ <<runner[r].pid, runner[r].cmd>> \in Pid \X Command
    BY <2>1, RunnerShapes DEF ProcInv, ProcTypes
  <2> QED
    BY <2>1 DEF ProcInv, ProcTypes, TrackedTypeOK
<1> QED
  BY <1>1, ProcInvariant, PTL

\* While a runner waits for a command its file is there, unless the pid was in
\* other hands when it was started, and no file outlives its command but by a death.
THEOREM PidFilesAreTrue == TrackedSpec => []PidFilesTell
<1>1. ProcInv => PidFilesTell
  <2>1. ASSUME ProcInv, NEW r \in Runner, runner[r].at \in {"waiting", "terminating", "killed"}, runner[r].cmd \notin ended \cup disturbed
        PROVE  file[runner[r].pid] = Whole(runner[r].cmd)
    <3>1. Sound(runner[r].cmd)
      BY <2>1, UnderWay DEF Sound
    <3> QED
      BY <2>1, <3>1 DEF ProcInv, KeptInv
  <2>2. ASSUME ProcInv, NEW p \in PidFiles PROVE Parents(file[p].cmd) # {} \/ file[p].cmd \in abandoned
    BY <2>2 DEF ProcInv, FilesInv
  <2> QED
    BY <2>1, <2>2 DEF PidFilesTell
<1> QED
  BY <1>1, ProcInvariant, PTL

\* An abort that returns has ended every command that was tracked when it began.
THEOREM AbortsReachAll == TrackedSpec => []AbortReachesAll
<1>1. ProcInv => AbortReachesAll
  BY DEF ProcInv, TargetsInv, Reaches, AbortReachesAll
<1> QED
  BY <1>1, ProcInvariant, PTL
=============================================================================
