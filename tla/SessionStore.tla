---------------------------- MODULE SessionStore ----------------------------
(***************************************************************************)
(* session_store.py: save_session replaces session-state.json and          *)
(* conversation-history.jsonl and then adds an event with both to          *)
(* session-events.jsonl, which load_session prefers; /api/session/clear of *)
(* serve.py removes the first two files.                                   *)
(*                                                                         *)
(* Savers are the handler threads of the server and the shutdown of a      *)
(* command line session; each may fail or die between two files.  Saves    *)
(* are numbered; an event has the digest of its contents for an id, which  *)
(* is an arbitrary number, and times have the resolution of saved_at, one  *)
(* second.  Writing a file is one step.  (Two savers would also share the  *)
(* temporary file: what is said here of saves that do not overlap does not *)
(* depend on it.)                                                          *)
(***************************************************************************)
EXTENDS Naturals, FiniteSets

CONSTANTS Saver,
          MaxSaves,    \* bound on the saves begun
          MaxTime      \* bound on the clock

ASSUME SessionAssumption == MaxSaves \in Nat /\ MaxTime \in Nat

VARIABLES
    state,       \* the save session-state.json is of, 0 if there is none
    hist,        \* the save conversation-history.jsonl is of
    stored,      \* the events of session-events.jsonl
    saving,      \* what each saver is in the middle of
    saves,       \* saves begun
    clock,
    completed,   \* history: events of the saves that returned
    overlapped   \* history: two saves were under way at once

sessionVars == <<state, hist, stored, saving, saves, clock, completed, overlapped>>

SessionEvent == [ctx : 1..MaxSaves, hist : 0..MaxSaves, at : 0..MaxTime, id : 1..MaxSaves]
NotSaving == [at |-> "idle"]

SessionInit == /\ state = 0
               /\ hist = 0
               /\ stored = {}
               /\ saving = [s \in Saver |-> NotSaving]
               /\ saves = 0
               /\ clock = 0
               /\ completed = {}
               /\ overlapped = FALSE

\* Only the times between saves matter.
Tick == /\ clock < MaxTime
        /\ saves > 0
        /\ clock' = clock + 1
        /\ UNCHANGED <<state, hist, stored, saving, saves, completed, overlapped>>

-----------------------------------------------------------------------------
(* load_session().                                                         *)

\* Faulty: the last line, of a file that is sorted by id.
LastById(events) == CHOOSE e \in events : \A f \in events : e.id >= f.id

\* max(..., key = saved_at) of a file sorted by saved_at and id: the first of the latest.
Latest(events) ==
    LET newest == {e \in events : \A f \in events : e.at >= f.at}
    IN CHOOSE e \in newest : \A f \in newest : e.id <= f.id

load_session == IF stored # {} THEN [ctx |-> Latest(stored).ctx, hist |-> Latest(stored).hist]
                ELSE [ctx |-> state, hist |-> hist]

-----------------------------------------------------------------------------
(* save_session() of saver s.                                              *)

SavingNow == {s \in Saver : saving[s] # NotSaving}

\* The history is the client's own, or, at a shutdown, the one that was loaded.
SaveState(s) ==
    /\ saving[s] = NotSaving
    /\ saves < MaxSaves
    /\ saves' = saves + 1
    /\ state' = saves'
    /\ \E h \in {saves', load_session.hist} :
           saving' = [saving EXCEPT ![s] = [at |-> "state", ctx |-> saves', hist |-> h, time |-> clock]]
    /\ overlapped' = (overlapped \/ SavingNow # {})
    /\ UNCHANGED <<hist, stored, clock, completed>>

SaveHistory(s) ==
    /\ saving[s].at = "state"
    /\ hist' = saving[s].hist
    /\ saving' = [saving EXCEPT ![s].at = "hist"]
    /\ UNCHANGED <<state, stored, saves, clock, completed, overlapped>>

LoadEvents(s) ==
    /\ saving[s].at = "hist"
    /\ saving' = [saving EXCEPT ![s] = [at |-> "events", ctx |-> @.ctx, hist |-> @.hist,
                                        time |-> @.time, seen |-> stored]]
    /\ UNCHANGED <<state, hist, stored, saves, clock, completed, overlapped>>

\* merge_session_events() of what was read and the new event.
SaveEvents(s) ==
    /\ saving[s].at = "events"
    /\ \E id \in (1..MaxSaves) \ {e.id : e \in stored \cup saving[s].seen \cup completed} :
           LET event == [ctx |-> saving[s].ctx, hist |-> saving[s].hist, at |-> saving[s].time, id |-> id]
           IN /\ stored' = saving[s].seen \cup {event}
              /\ completed' = completed \cup {event}
    /\ saving' = [saving EXCEPT ![s] = NotSaving]
    /\ UNCHANGED <<state, hist, saves, clock, overlapped>>

\* An exception, or the death of its process.
SaveFails(s) ==
    /\ saving[s] # NotSaving
    /\ saving' = [saving EXCEPT ![s] = NotSaving]
    /\ UNCHANGED <<state, hist, stored, saves, clock, completed, overlapped>>

ClearState == /\ state # 0
              /\ state' = 0
              /\ UNCHANGED <<hist, stored, saving, saves, clock, completed, overlapped>>

ClearHistory == /\ hist # 0
                /\ hist' = 0
                /\ UNCHANGED <<state, stored, saving, saves, clock, completed, overlapped>>

SessionRequest == ClearState \/ \E s \in Saver : SaveState(s)

SessionStep == \/ \E s \in Saver : SaveHistory(s) \/ LoadEvents(s) \/ SaveEvents(s) \/ SaveFails(s)
               \/ ClearHistory
               \/ Tick

-----------------------------------------------------------------------------
SaverState ==
    {NotSaving}
    \cup [at : {"state", "hist"}, ctx : 1..MaxSaves, hist : 0..MaxSaves, time : 0..MaxTime]
    \cup [at : {"events"}, ctx : 1..MaxSaves, hist : 0..MaxSaves, time : 0..MaxTime,
          seen : SUBSET SessionEvent]

SessionTypeOK == /\ state \in 0..MaxSaves
                 /\ hist \in 0..MaxSaves
                 /\ stored \subseteq SessionEvent
                 /\ saving \in [Saver -> SaverState]
                 /\ saves \in 0..MaxSaves
                 /\ clock \in 0..MaxTime
                 /\ completed \subseteq SessionEvent
                 /\ overlapped \in BOOLEAN

\* REQ-307: once a save has returned, a session resumes from the context and
\* the history of one save that returned, and from none of an earlier second
\* than another.  A save that was cut short between two files, and a clear,
\* make no difference.  (Two saves at once may lose one of them.)
ResumesLatestSave ==
    ~overlapped /\ completed # {} =>
        \E e \in completed : /\ load_session = [ctx |-> e.ctx, hist |-> e.hist]
                             /\ \A f \in completed : e.at >= f.at
=============================================================================
