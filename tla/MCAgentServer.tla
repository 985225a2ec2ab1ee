--------------------------- MODULE MCAgentServer ----------------------------
(***************************************************************************)
(* Instances of AgentServer for TLC: a busy client of the thread, one that *)
(* keeps saving and clearing, and a little of both.                        *)
(***************************************************************************)
EXTENDS AgentServer

Workloads == {[thread |-> 6, session |-> 0], [thread |-> 1, session |-> 1],
              [thread |-> 0, session |-> 3]}
=============================================================================
