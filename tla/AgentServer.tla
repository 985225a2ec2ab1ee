---------------------------- MODULE AgentServer -----------------------------
(***************************************************************************)
(* The server of serve.py: an agent thread that seeds its history from the *)
(* saved session when it starts (_build_context_seed), the requests of its *)
(* clients, and the session files, which outlive it.                       *)
(***************************************************************************)
EXTENDS AgentThread, SessionStore

CONSTANTS MaxDeaths,     \* bound on how often the server dies
          Workload       \* bounds on the requests that concern the thread and the session

ASSUME ServerAssumption == MaxDeaths \in Nat /\ Workload \subseteq [thread : Nat, session : Nat]

VARIABLES seed,       \* the saves the summary and the turns of the seed are from
          todo,       \* requests still to come
          deaths

serverVars == <<agentVars, sessionVars, seed, deaths, todo>>

NoSeed == [step |-> "summary", ctx |-> 0, hist |-> 0, sure |-> FALSE]

ServerInit == /\ AgentInit
              /\ SessionInit
              /\ seed = NoSeed
              /\ deaths = 0
              /\ todo \in Workload

\* Faulty: from session-state.json, as its docstring has it.
SeedSummaryFromFile == /\ agent = "seeding"
                       /\ seed.step = "summary"
                       /\ seed' = [step |-> "turns", ctx |-> state, hist |-> 0,
                                   sure |-> completed # {} /\ ~overlapped]
                       /\ UNCHANGED <<agentVars, sessionVars, deaths, todo>>

\* _load_session_summary()
SeedSummary == /\ agent = "seeding"
               /\ seed.step = "summary"
               /\ seed' = [step |-> "turns", ctx |-> load_session.ctx, hist |-> 0,
                           sure |-> completed # {} /\ ~overlapped]
               /\ UNCHANGED <<agentVars, sessionVars, deaths, todo>>

\* _load_conversation_history() loads the session again.
SeedTurns == /\ agent = "seeding"
             /\ seed.step = "turns"
             /\ seed' = [seed EXCEPT !.step = "done", !.hist = load_session.hist,
                                     !.sure = @ /\ ~overlapped]
             /\ agent' = "started"
             /\ UNCHANGED <<inbox, posted, turn, answered, busVars, sessionVars, deaths, todo>>

\* The process dies and is started again: inbox, bus and clients are gone,
\* the files are not.  (Its savers die by SaveFails.)
ServerDies == /\ deaths < MaxDeaths
              /\ deaths' = deaths + 1
              /\ agent' = "seeding"
              /\ seed' = NoSeed
              /\ inbox' = <<>>
              /\ posted' = 0
              /\ turn' = NoTurn
              /\ answered' = <<>>
              /\ emitted' = 0
              /\ handler' = [c \in Listener |-> "away"]
              /\ offered' = [c \in Listener |-> <<>>]
              /\ heard' = [c \in Listener |-> <<>>]
              /\ since' = [c \in Listener |-> 0]
              /\ missed' = [c \in Listener |-> {}]
              /\ UNCHANGED <<sessionVars, todo>>

Seeding == SeedSummary \/ SeedTurns

ServerRequest == /\ \/ /\ todo.thread > 0
                       /\ todo' = [todo EXCEPT !.thread = @ - 1]
                       /\ AgentRequest
                       /\ UNCHANGED sessionVars
                    \/ /\ todo.session > 0
                       /\ todo' = [todo EXCEPT !.session = @ - 1]
                       /\ SessionRequest
                       /\ UNCHANGED agentVars
                 /\ UNCHANGED <<seed, deaths>>

ServerNext == \/ Seeding
              \/ ServerDies
              \/ ServerRequest
              \/ AgentStep /\ UNCHANGED <<sessionVars, seed, deaths, todo>>
              \/ SessionStep /\ UNCHANGED <<agentVars, seed, deaths, todo>>

ServerSpec == ServerInit /\ [][ServerNext]_serverVars

\* The thread runs: it is never kept from its next step for ever.
ServerFairness == WF_serverVars(Seeding) /\ WF_serverVars(ThreadStep /\ UNCHANGED <<sessionVars, seed, deaths, todo>>)
FairServerSpec == ServerSpec /\ ServerFairness

-----------------------------------------------------------------------------
ServerTypeOK ==
    /\ AgentTypeOK
    /\ SessionTypeOK
    /\ seed \in [step : {"summary", "turns", "done"}, ctx : 0..MaxSaves, hist : 0..MaxSaves, sure : BOOLEAN]
    /\ deaths \in 0..MaxDeaths
    /\ todo \in [thread : Nat, session : Nat]

\* The seed of a new session is read in two loads with saves going on around
\* them: its turns are never of an earlier save than its summary.
SeedTurnsNotOlder ==
    seed.step = "done" /\ seed.sure =>
        \E e, f \in completed : e.ctx = seed.ctx /\ f.hist = seed.hist /\ e.ctx <= f.ctx

\* An accepted text is answered in the end, however the turns before it went,
\* unless the thread ended or the process died.
TextIsAnswered ==
    \A n \in 1..MaxTexts, d \in 0..MaxDeaths :
        posted >= n /\ deaths = d ~> Contains(answered, n) \/ agent = "ended" \/ deaths # d
=============================================================================
