----------------------------- MODULE EsdbStore ------------------------------
(***************************************************************************)
(* SqliteStore of esdb/sqlite_store.py: records keyed by id and branch,    *)
(* tombstones, and the branch operations, each of which ends with an event *)
(* in the audit log (AuditChain).  Several processes use one database;     *)
(* each commit is a step, and so is each query outside a transaction.      *)
(*                                                                         *)
(* A record is its data and whether its status is "tombstone"; the columns *)
(* that are copied along with the data are left out.                       *)
(***************************************************************************)
EXTENDS AuditChain

CONSTANTS Id, Data, NoData,
          Payload,     \* what upsert is called with
          MaxOps       \* bound on the operations begun

ASSUME EsdbAssumption == MaxOps \in Nat /\ Payload \subseteq Data /\ NoData \notin Data

VARIABLES rows,        \* the records table
          begun        \* operations begun

storeVars == <<auditVars, rows, begun>>

Strategies == {"source_wins", "target_wins", "fail_on_conflict"}

Row == [data : Data, live : BOOLEAN]
NoRow == [data |-> NoData, live |-> FALSE]

StoreInit == /\ AuditInit
             /\ rows = [b \in Branch |-> [i \in Id |-> NoRow]]
             /\ begun = 0

Begin(p) == /\ job[p] = Idle
            /\ begun < MaxOps
            /\ begun' = begun + 1

Live(b) == {i \in Id : rows[b][i].live}

-----------------------------------------------------------------------------
(* Single records.                                                         *)

upsert(p, b, i, d) == /\ Begin(p)
                      /\ rows' = [rows EXCEPT ![b][i] = [data |-> d, live |-> TRUE]]
                      /\ UNCHANGED auditVars

Tombstone(row) == [row EXCEPT !.live = FALSE]

delete(p, b, i) == /\ Begin(p)
                   /\ rows' = [rows EXCEPT ![b][i] = Tombstone(@)]
                   /\ UNCHANGED auditVars

append_audit_event(p, b) == /\ Begin(p)
                            /\ job' = [job EXCEPT ![p] = LinkJob(b)]
                            /\ UNCHANGED <<events, crossed, rows>>

-----------------------------------------------------------------------------
(* create_branch(): count, copy and commit, audit.                         *)

create_branch(p, b, from) ==
    /\ Begin(p)
    /\ Live(from) # {}
    /\ job' = [job EXCEPT ![p] = [at |-> "copy", branch |-> b, from |-> from]]
    /\ UNCHANGED <<events, crossed, rows>>

\* Faulty: ON CONFLICT DO UPDATE, as upsert has it.
CopiedOver(b, from) == [i \in Id |-> IF rows[from][i].live THEN rows[from][i] ELSE rows[b][i]]

\* ON CONFLICT DO NOTHING: a tombstone of the same key stays as well.
Copied(b, from) == [i \in Id |-> IF rows[from][i].live /\ rows[b][i] = NoRow
                                 THEN rows[from][i] ELSE rows[b][i]]

CopyBranch(p) ==
    /\ job[p].at = "copy"
    /\ rows' = [rows EXCEPT ![job[p].branch] = Copied(job[p].branch, job[p].from)]
    /\ job' = [job EXCEPT ![p] = LinkJob(job[p].branch)]
    /\ UNCHANGED <<events, crossed, begun>>

delete_branch(p, b) ==
    /\ Begin(p)
    /\ rows' = [rows EXCEPT ![b] = [i \in Id |-> Tombstone(rows[b][i])]]
    /\ job' = [job EXCEPT ![p] = LinkJob(b)]
    /\ UNCHANGED <<events, crossed>>

-----------------------------------------------------------------------------
(* merge_branch(): the conflicts are read first, with the source's data.   *)

Conflicts(s, t) == {i \in Live(s) \cap Live(t) : rows[s][i].data # rows[t][i].data}

detect_merge_conflicts(s, t) == [i \in Conflicts(s, t) |-> rows[s][i].data]

merge_branch(p, s, t, strategy) ==
    /\ Begin(p)
    /\ strategy = "fail_on_conflict" => Conflicts(s, t) = {}
    /\ job' = [job EXCEPT ![p] = [at |-> "merge", source |-> s, branch |-> t, strategy |-> strategy,
                                  conflicts |-> detect_merge_conflicts(s, t)]]
    /\ UNCHANGED <<events, crossed, rows>>

\* The data is the one read with the conflicts, the status the source has now.
Resolved(m, i) == [data |-> m.conflicts[i], live |-> rows[m.source][i].live]

\* Faulty: conflicts are listed but never resolved.
MergedRowOnlyNew(m, i) == IF rows[m.source][i].live /\ ~rows[m.branch][i].live
                          THEN rows[m.source][i] ELSE rows[m.branch][i]

MergedRow(m, i) ==
    IF m.strategy = "source_wins" /\ i \in DOMAIN m.conflicts THEN Resolved(m, i)
    ELSE IF rows[m.source][i].live /\ ~rows[m.branch][i].live THEN rows[m.source][i]
    ELSE rows[m.branch][i]

ApplyMerge(p) ==
    /\ job[p].at = "merge"
    /\ rows' = [rows EXCEPT ![job[p].branch] = [i \in Id |-> MergedRow(job[p], i)]]
    /\ job' = [job EXCEPT ![p] = LinkJob(job[p].branch)]
    /\ UNCHANGED <<events, crossed, begun>>

-----------------------------------------------------------------------------
\* Anything that is done to the store; records are written under the given ids.
StoreStep(p, ids) ==
    \/ \E b \in Branch, i \in ids, d \in Payload : upsert(p, b, i, d)
    \/ \E b \in Branch, i \in Id : delete(p, b, i)
    \/ \E b \in Branch : append_audit_event(p, b) \/ delete_branch(p, b)
    \/ \E b, from \in Branch : create_branch(p, b, from)
    \/ \E s, t \in Branch, strategy \in Strategies : merge_branch(p, s, t, strategy)
    \/ CopyBranch(p)
    \/ ApplyMerge(p)

-----------------------------------------------------------------------------
StoreTypeOK == /\ events \in Seq(Event)
               /\ crossed \subseteq Branch
               /\ rows \in [Branch -> [Id -> Row \cup {NoRow}]]
               /\ begun \in 0..MaxOps
               /\ DOMAIN job = Proc

\* A source_wins merge that commits while its conflicts are still those it read.
SettlesAsRead(p, s, t) ==
    /\ job[p].at = "merge"
    /\ job[p].source = s
    /\ job[p].branch = t
    /\ job[p].strategy = "source_wins"
    /\ job[p].conflicts = detect_merge_conflicts(s, t)
    /\ job'[p].at = "link"

MergeSettles == \A p \in Proc, s, t \in Branch : SettlesAsRead(p, s, t) => Conflicts(s, t)' = {}

\* A source_wins merge leaves no conflict between the two branches, unless
\* one of them changed between the detection and the commit.
SourceWinsSettles == [][MergeSettles]_storeVars
=============================================================================
