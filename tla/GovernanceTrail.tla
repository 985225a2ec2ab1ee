-------------------------- MODULE GovernanceTrail ---------------------------
(***************************************************************************)
(* The trail a project keeps of its decisions: the ledger, the seals of    *)
(* the vault and the audit log, written by several processes at once, each *)
(* of which may die at any point.  The vault, the audit log and all other  *)
(* records are in one database.                                            *)
(***************************************************************************)
EXTENDS TraceVault, Ledger

CONSTANT Workloads     \* what may be done in a run, which of them is chosen at the start

ASSUME WorkloadsAssumption ==
    Workloads \subseteq [ops : 0..MaxOps, entries : 0..MaxEntries, events : 0..MaxEvents,
                         ids : SUBSET Id, seals : BOOLEAN]

VARIABLE work          \* the workload

vars == <<auditVars, rows, begun, vaultVars, ledgerVars, work>>

Init == /\ StoreInit /\ VaultInit /\ LedgerInit
        /\ work \in Workloads

VaultStep(p) == \/ work.seals /\ SealLoad(p)
                \/ SealWrite(p)
                \/ Otherwise(p, work.ids)

InBounds == begun <= work.ops /\ entries <= work.entries /\ Len(events) <= work.events

Next == /\ \E p \in Proc : \/ VaultStep(p) /\ UNCHANGED ledgerVars
                           \/ AddStep(p) /\ UNCHANGED <<rows, begun, vaultVars>>
                           \/ (FindPrevious(p) \/ InsertEvent(p) \/ Dies(p))
                              /\ UNCHANGED <<rows, begun, vaultVars, ledgerVars>>
        /\ UNCHANGED work
        /\ InBounds'

Spec == Init /\ [][Next]_vars

-----------------------------------------------------------------------------
TypeOK == /\ StoreTypeOK
          /\ ledger \in Seq(Entry)
          /\ chain \in Seq(Entry)
          /\ entries \in 0..MaxEntries
          /\ shared \subseteq 1..MaxEntries
          /\ sealed \in Seq(1..MaxOps)
          /\ disturbed \in BOOLEAN
          /\ work \in Workloads
=============================================================================
