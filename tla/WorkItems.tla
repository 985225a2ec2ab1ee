------------------------------ MODULE WorkItems ------------------------------
(***************************************************************************)
(* WorkItemStore of wi_store.py: every command reads .specsmith/           *)
(* workitems.json for its item, reads it again, replaces the whole file    *)
(* and then mirrors the item to the ESDB; there is no lock.                *)
(*                                                                         *)
(* All processes write the same temporary file.  Opening it truncates it   *)
(* for everyone, and who has it open when another renames it goes on       *)
(* writing to the live file.  A list that cannot be parsed loads as the    *)
(* empty list.  An item is its status; None is an item that is not there.  *)
(* An import from the ledger is a series of create.  run_sweep of          *)
(* esdb_sweep.py tombstones the records of items that it does not find in  *)
(* the file; a record that is gone, or was never there, is None too.       *)
(* force=True, which no caller passes, is left out.                        *)
(***************************************************************************)
EXTENDS Naturals

CONSTANTS Process, Wi,
          MaxOps       \* bound on the commands begun

ASSUME WorkItemAssumption == MaxOps \in Nat

None == "none"
WI_STATES == {"open", "implemented", "promoted", "closed", "archived", "rejected"}
WI_TERMINAL_STATES == {"promoted", "closed", "archived", "rejected"}

Items == [Wi -> WI_STATES \cup {None}]
NoItems == [w \in Wi |-> None]

NoFile == [kind |-> "absent"]
Empty == [kind |-> "empty"]
Torn == [kind |-> "torn"]
Listing(items) == [kind |-> "list", items |-> items]

VARIABLES
    live,        \* workitems.json
    tmp,         \* workitems.json.tmp
    work,       \* the command of each process
    mirror,      \* the status in the ESDB record of each item
    ops,
    overlapped,  \* history: since nobody was at it, two were
    kept,        \* history: the items as of the replaces since then
    unsynced     \* history: items whose last replace was not mirrored

itemVars == <<live, tmp, work, mirror, ops, overlapped, kept, unsynced>>

Free == [at |-> "idle"]

ItemsInit == /\ live = NoFile
             /\ tmp = NoFile
             /\ work = [p \in Process |-> Free]
             /\ mirror = NoItems
             /\ ops = 0
             /\ overlapped = FALSE
             /\ kept = NoItems
             /\ unsynced = {}

load == IF live.kind = "list" THEN live.items ELSE NoItems

-----------------------------------------------------------------------------
(* The commands: what they make of the status they read.                   *)

\* Faulty: an item that was put off cannot be told from one that was closed.
MovesFromTerminal(from) ==
    CASE from = "open" -> {"implemented", "archived", "rejected"}
      [] from = "implemented" -> {"promoted", "closed", "archived"}
      [] from \in WI_TERMINAL_STATES -> {"open"}
      [] OTHER -> {}

WI_TRANSITIONS(from) ==
    CASE from = "open" -> {"implemented", "archived", "rejected"}
      [] from = "implemented" -> {"promoted", "closed", "archived"}
      [] from = "archived" -> {"open"}
      [] OTHER -> {}

Commands(from) ==
    [op : {"create"}, to : {t \in {"open"} : from = None}]
    \cup [op : {"set_status"}, to : WI_TRANSITIONS(from)]
    \cup [op : {"mark_implemented"}, to : {t \in {"implemented"} : from = "open"}]
    \cup [op : {"promote_to_req"}, to : {t \in {"promoted"} : from \in {"open", "implemented"}}]
    \cup [op : {"set_files_touched", "add_test_case_ids", "tag"}, to : {from} \ {None}]

Others(p) == {q \in Process \ {p} : work[q] # Free}

BeginBy(p) ==
    /\ work[p] = Free
    /\ ops < MaxOps
    /\ ops' = ops + 1
    /\ IF Others(p) = {} THEN overlapped' = FALSE /\ kept' = load /\ UNCHANGED unsynced
                         ELSE overlapped' = TRUE /\ unsynced' = Wi /\ UNCHANGED kept

Begin(p, w) ==
    /\ BeginBy(p)
    /\ \E command \in Commands(load[w]) :
           work' = [work EXCEPT ![p] = [at |-> "got", op |-> command.op, id |-> w, to |-> command.to]]
    /\ UNCHANGED <<live, tmp, mirror>>

-----------------------------------------------------------------------------
(* upsert() and save().                                                    *)

Proceeds(p, at) == work' = [work EXCEPT ![p].at = at]

Reload(p) ==
    /\ work[p].at = "got"
    /\ work' = [work EXCEPT ![p] = [at |-> "loaded", op |-> @.op, id |-> @.id, to |-> @.to,
                                    items |-> [load EXCEPT ![work[p].id] = work[p].to]]]
    /\ UNCHANGED <<live, tmp, mirror, ops, overlapped, kept, unsynced>>

\* Faulty: without the temporary file.
OpenLive(p) ==
    /\ work[p].at = "loaded"
    /\ live' = Empty
    /\ Proceeds(p, "writing live")
    /\ UNCHANGED <<tmp, mirror, ops, overlapped, kept, unsynced>>

Open(p) ==
    /\ work[p].at = "loaded"
    /\ tmp' = Empty
    /\ Proceeds(p, "writing tmp")
    /\ UNCHANGED <<live, mirror, ops, overlapped, kept, unsynced>>

\* Over what another has written something of that may be left.
Written(file, items) == {Listing(items)} \cup {f \in {Torn} : file # Empty}

Write(p) ==
    /\ \/ work[p].at = "writing tmp" /\ tmp' \in Written(tmp, work[p].items) /\ UNCHANGED live
       \/ work[p].at = "writing live" /\ live' \in Written(live, work[p].items) /\ UNCHANGED tmp
       \/ work[p].at = "writing nothing" /\ UNCHANGED <<live, tmp>>
    /\ Proceeds(p, "written")
    /\ UNCHANGED <<mirror, ops, overlapped, kept, unsynced>>

\* The file of those that are still writing has become the live one, or lost its name.
Renamed(d) == CASE d.at = "writing tmp" -> [d EXCEPT !.at = "writing live"]
                [] d.at = "writing live" -> [d EXCEPT !.at = "writing nothing"]
                [] OTHER -> d

Replace(p) ==
    /\ work[p].at = "written"
    /\ tmp # NoFile
    /\ live' = tmp
    /\ tmp' = NoFile
    /\ work' = [q \in Process |-> IF q = p THEN [work[p] EXCEPT !.at = "saved"] ELSE Renamed(work[q])]
    /\ kept' = [kept EXCEPT ![work[p].id] = work[p].to]
    /\ unsynced' = IF kept[work[p].id] = work[p].to THEN unsynced ELSE unsynced \cup {work[p].id}
    /\ UNCHANGED <<mirror, ops, overlapped>>

\* FileNotFoundError: another renamed it.
ReplaceFails(p) ==
    /\ work[p].at = "written"
    /\ tmp = NoFile
    /\ work' = [work EXCEPT ![p] = Free]
    /\ UNCHANGED <<live, tmp, mirror, ops, overlapped, kept, unsynced>>

-----------------------------------------------------------------------------
(* _sync_to_esdb(), which never fails; tag() does not call it.             *)

\* Faulty: the record is written before the file.
SyncFirst(p) ==
    /\ work[p].at \in {"loaded", "saved"}
    /\ work[p].op # "tag"
    /\ mirror' = [mirror EXCEPT ![work[p].id] = work[p].to]
    /\ work' = IF work[p].at = "saved" THEN [work EXCEPT ![p] = Free] ELSE work
    /\ unsynced' = IF overlapped THEN unsynced ELSE unsynced \ {work[p].id}
    /\ UNCHANGED <<live, tmp, ops, overlapped, kept>>

Sync(p) ==
    /\ work[p].at = "saved"
    /\ work[p].op # "tag"
    /\ mirror' = [mirror EXCEPT ![work[p].id] = work[p].to]
    /\ work' = [work EXCEPT ![p] = Free]
    /\ unsynced' = IF overlapped THEN unsynced ELSE unsynced \ {work[p].id}
    /\ UNCHANGED <<live, tmp, ops, overlapped, kept>>

-----------------------------------------------------------------------------
(* run_sweep(): the items of the file, then the active records that are     *)
(* not among them, which are tombstoned one by one.                         *)

BeginSweep(p) ==
    /\ BeginBy(p)
    /\ work' = [work EXCEPT ![p] = [at |-> "sweep", listed |-> {w \in Wi : load[w] # None}]]
    /\ UNCHANGED <<live, tmp, mirror>>

\* A record is active while its item is open or implemented.
SweepQuery(p) ==
    /\ work[p].at = "sweep"
    /\ work' = [work EXCEPT ![p] =
                     [at |-> "swept", orphans |-> {w \in Wi : mirror[w] \in {"open", "implemented"}}
                                                  \ work[p].listed]]
    /\ UNCHANGED <<live, tmp, mirror, ops, overlapped, kept, unsynced>>

SweepOrphan(p) ==
    /\ work[p].at = "swept"
    /\ \E w \in work[p].orphans :
           /\ mirror' = [mirror EXCEPT ![w] = None]
           /\ work' = [work EXCEPT ![p].orphans = @ \ {w}]
    /\ UNCHANGED <<live, tmp, ops, overlapped, kept, unsynced>>

-----------------------------------------------------------------------------
\* tag() or the sweep is done; the ESDB could not be written; or the process dies, at any point.
Leave(p) ==
    /\ work[p] # Free
    /\ work' = [work EXCEPT ![p] = Free]
    /\ UNCHANGED <<live, tmp, mirror, ops, overlapped, kept, unsynced>>

ItemsNext == \E p \in Process : \/ \E w \in Wi : Begin(p, w)
                                \/ Reload(p) \/ Open(p) \/ Write(p) \/ Replace(p) \/ ReplaceFails(p)
                                \/ Sync(p) \/ Leave(p)
                                \/ BeginSweep(p) \/ SweepQuery(p) \/ SweepOrphan(p)

ItemsSpec == ItemsInit /\ [][ItemsNext]_itemVars

-----------------------------------------------------------------------------
ItemsTypeOK == /\ live \in {NoFile, Empty, Torn} \cup {Listing(items) : items \in Items}
               /\ tmp \in {NoFile, Empty, Torn} \cup {Listing(items) : items \in Items}
               /\ DOMAIN work = Process
               /\ mirror \in Items
               /\ ops \in 0..MaxOps
               /\ overlapped \in BOOLEAN
               /\ kept \in Items
               /\ unsynced \subseteq Wi

\* Unless another process is at it at the same time, the file is one whole
\* list, that of the commands that replaced it: a process that dies anywhere in
\* save leaves the old list or the new one, and what it leaves behind, or an
\* earlier collision of two left, does not get into a later list.
UpdatesKept == ~overlapped => load = kept

\* Unless another process is at it at the same time, a command changes its one
\* item, and that along the table or by a promotion; an item that was promoted,
\* closed or rejected stays so, whatever is lost or dies on the way.
Legal(from, to) == \/ from = None /\ to = "open"
                   \/ to \in {"implemented", "archived", "rejected", "promoted"} /\ from = "open"
                   \/ to \in {"promoted", "closed", "archived"} /\ from = "implemented"
                   \/ from = "archived" /\ to = "open"

MovesAreLegal ==
    [][~overlapped' /\ load' # load =>
           \E w \in Wi : load' = [load EXCEPT ![w] = load'[w]] /\ Legal(load[w], load'[w])]_itemVars

\* The ESDB has the status of every item, but of those whose last change died
\* before it was mirrored or was made while another process was at it.  A sweep
\* takes no record away whose item is in the file, whatever the file is like.
MirrorAgrees == ~overlapped => \A w \in Wi \ unsynced : mirror[w] = load[w]
=============================================================================
