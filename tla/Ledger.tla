------------------------------- MODULE Ledger -------------------------------
(***************************************************************************)
(* add_entry of ledger.py: the entry is hashed with the last line of       *)
(* ledger-chain.txt, appended to LEDGER.md by append_file of safe_write.py, *)
(* which reads the file and replaces it, and its hash to the chain; then   *)
(* comes an event in the audit log (AuditChain), which may fail silently.  *)
(* There is no lock.                                                       *)
(*                                                                         *)
(* A hash is the number of its add_entry.  The record that is written to   *)
(* the store at the end has a fresh id and is not read back; it is left    *)
(* out.                                                                    *)
(***************************************************************************)
EXTENDS AuditChain, SequencesExt

CONSTANTS LedgerBranch,   \* the branch of the audit events
          MaxEntries      \* bound on the entries begun

ASSUME LedgerAssumption == LedgerBranch \in Branch /\ MaxEntries \in Nat

VARIABLES ledger,      \* the entries of LEDGER.md: the hash and the one before
          chain,       \* the lines of ledger-chain.txt, likewise
          entries,     \* entries begun
          shared       \* history: entries during which there was another

ledgerVars == <<ledger, chain, entries, shared>>

Entry == [hash : 1..MaxEntries, prev : 0..MaxEntries]

LedgerInit == /\ ledger = <<>>
              /\ chain = <<>>
              /\ entries = 0
              /\ shared = {}

Adding == {p \in Proc : job[p].at \in {"hashed", "read", "replaced"}}
InProgress == {job[p].entry.hash : p \in Adding}

\* Faulty: the hash of the last entry of LEDGER.md.
last_of_ledger == IF ledger = <<>> THEN 0 ELSE Last(ledger).hash

latest_hash == IF chain = <<>> THEN 0 ELSE Last(chain).hash

add_entry(p) ==
    /\ job[p] = Idle
    /\ entries < MaxEntries
    /\ entries' = entries + 1
    /\ job' = [job EXCEPT ![p] = [at |-> "hashed", entry |-> [hash |-> entries', prev |-> latest_hash]]]
    /\ shared' = IF Adding = {} THEN shared ELSE shared \cup InProgress \cup {entries'}
    /\ UNCHANGED <<events, crossed, ledger, chain>>

AppendRead(p) ==
    /\ job[p].at = "hashed"
    /\ job' = [job EXCEPT ![p] = [at |-> "read", entry |-> @.entry, existing |-> ledger]]
    /\ UNCHANGED <<events, crossed, ledgerVars>>

\* Faulty: the file is written in place, and is empty for a while.
AppendTruncates(p) ==
    /\ job[p].at \in {"hashed", "read"}
    /\ IF job[p].at = "hashed"
       THEN /\ ledger' = <<>>
            /\ job' = [job EXCEPT ![p] = [at |-> "read", entry |-> @.entry, existing |-> ledger]]
       ELSE /\ ledger' = Append(job[p].existing, job[p].entry)
            /\ job' = [job EXCEPT ![p] = [at |-> "replaced", entry |-> @.entry]]
    /\ UNCHANGED <<events, crossed, chain, entries, shared>>

\* _atomic_write(), in a temporary file of its own.
AppendReplace(p) ==
    /\ job[p].at = "read"
    /\ ledger' = Append(job[p].existing, job[p].entry)
    /\ job' = [job EXCEPT ![p] = [at |-> "replaced", entry |-> @.entry]]
    /\ UNCHANGED <<events, crossed, chain, entries, shared>>

ChainAppend(p) ==
    /\ job[p].at = "replaced"
    /\ chain' = Append(chain, job[p].entry)
    /\ job' = [job EXCEPT ![p] = LinkJob(LedgerBranch)]
    /\ UNCHANGED <<events, crossed, ledger, entries, shared>>

AddStep(p) == add_entry(p) \/ AppendRead(p) \/ AppendReplace(p) \/ ChainAppend(p)

-----------------------------------------------------------------------------
Alone(h) == h \notin shared
Places(lines, h) == {n \in DOMAIN lines : lines[n].hash = h}

\* Entries whose add_entry ran alone up to its line in the chain are in
\* LEDGER.md for good, once each and in the order of the chain: later ones
\* that collide lose one another's entries only, and a process that dies
\* leaves the file whole.
LedgerKept ==
    \A i, j \in DOMAIN chain : Alone(chain[i].hash) /\ Alone(chain[j].hash) =>
        \E m, n \in DOMAIN ledger : /\ Places(ledger, chain[i].hash) = {m}
                                   /\ Places(ledger, chain[j].hash) = {n}
                                   /\ i < j => m < n

\* Its line in the chain links to the line before it, although there may be
\* entries in LEDGER.md whose process died before it wrote the line, and forks
\* in the chain before it.
ChainLinks ==
    \A n \in DOMAIN chain :
        Alone(chain[n].hash) => chain[n].prev = (IF n = 1 THEN 0 ELSE chain[n - 1].hash)
=============================================================================
