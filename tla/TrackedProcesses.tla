-------------------------- MODULE TrackedProcesses --------------------------
(***************************************************************************)
(* executor.py on POSIX: run_tracked of `specsmith exec` keeps a file per  *)
(* pid in .specsmith/pids while its command runs; list_processes prunes    *)
(* and abort_all and abort_process of `specsmith ps` and `abort` kill what *)
(* the files say.  All are processes of their own, and nothing is locked.  *)
(*                                                                         *)
(* A command is its number.  The system gives a pid out again once its     *)
(* process has ended and its parent has waited for it or is gone; SIGKILL  *)
(* ends a process, SIGTERM may be ignored.  What the command itself starts *)
(* is not tracked.  Output, log files and the choice of the shell are data. *)
(***************************************************************************)
EXTENDS Naturals

CONSTANTS Pid,
          Runner,      \* processes in run_tracked
          Operator,    \* processes that list or abort
          MaxRuns,     \* bound on the commands started
          MaxOrders    \* bound on the lists and aborts begun

ASSUME TrackedAssumption == MaxRuns \in Nat /\ MaxOrders \in Nat

VARIABLES
    os,          \* the command that has each pid; NoCommand if it is free
    ended,       \* commands that have ended
    file,        \* the file of each pid
    runner,      \* where each runner is, its pid and its command
    operator,    \* where each operator is
    runs,        \* commands started
    orders,      \* lists and aborts begun
    abandoned,   \* history: commands whose runner died
    disturbed    \* history: commands that started while their pid was in other hands

trackedVars == <<os, ended, file, runner, operator, runs, orders, abandoned, disturbed>>

NoCommand == 0
Command == 1..MaxRuns

NoPidFile == [cmd |-> NoCommand, whole |-> FALSE]
Opened(c) == [cmd |-> c, whole |-> FALSE]
Whole(c) == [cmd |-> c, whole |-> TRUE]

Away == [at |-> "away", pid |-> NoCommand, cmd |-> NoCommand]
Quiet == [at |-> "quiet"]

TrackedInit == /\ os = [p \in Pid |-> NoCommand]
               /\ ended = {}
               /\ file = [p \in Pid |-> NoPidFile]
               /\ runner = [r \in Runner |-> Away]
               /\ operator = [o \in Operator |-> Quiet]
               /\ runs = 0
               /\ orders = 0
               /\ abandoned = {}
               /\ disturbed = {}

-----------------------------------------------------------------------------
(* The system.                                                             *)

_is_process_alive(p) == os[p] # NoCommand
Parents(c) == {r \in Runner : runner[r].cmd = c}

\* The process under p ends, of itself or by SIGKILL; with a parent it stays a zombie.
Ends(p) == /\ ended' = ended \cup ({os[p]} \ {NoCommand})
           /\ os' = IF Parents(os[p]) = {} THEN [os EXCEPT ![p] = NoCommand] ELSE os

ProcessEnds(p) == /\ os[p] \notin ended \cup {NoCommand}
                  /\ Ends(p)
                  /\ UNCHANGED <<file, runner, operator, runs, orders, abandoned, disturbed>>

-----------------------------------------------------------------------------
(* run_tracked().                                                          *)

\* Pids that a runner or an operator may yet delete the file of, or kill.
Cleaning == {runner[r].pid : r \in {q \in Runner : runner[q].at \in {"reaped", "unlinking"}}}
InHand(o) == IF operator[o].at \in {"quiet", "aborted"} THEN {}
             ELSE operator[o].todo \cup operator[o].listed \cup operator[o].hand
InHands == Cleaning \cup UNION {InHand(o) : o \in Operator}

Popen(r) ==
    /\ runner[r].at = "away"
    /\ runs < MaxRuns
    /\ runs' = runs + 1
    /\ \E p \in Pid : /\ ~_is_process_alive(p)
                      /\ os' = [os EXCEPT ![p] = runs']
                      /\ runner' = [runner EXCEPT ![r] = [at |-> "spawned", pid |-> p, cmd |-> runs']]
                      /\ disturbed' = IF p \in InHands THEN disturbed \cup {runs'} ELSE disturbed
    /\ UNCHANGED <<ended, file, operator, orders, abandoned>>

RunnerGoes(r, at) == runner' = [runner EXCEPT ![r].at = at]

OpenPidFile(r) ==
    /\ runner[r].at = "spawned"
    /\ file' = [file EXCEPT ![runner[r].pid] = Opened(runner[r].cmd)]
    /\ RunnerGoes(r, "writing")
    /\ UNCHANGED <<os, ended, operator, runs, orders, abandoned, disturbed>>

\* What was unlinked meanwhile stays so.
WritePidFile(r) ==
    /\ runner[r].at = "writing"
    /\ file' = IF file[runner[r].pid].cmd = runner[r].cmd
               THEN [file EXCEPT ![runner[r].pid] = Whole(runner[r].cmd)] ELSE file
    /\ RunnerGoes(r, "waiting")
    /\ UNCHANGED <<os, ended, operator, runs, orders, abandoned, disturbed>>

\* SIGTERM; a child of one's own is there until one waits for it, so SIGKILL follows in any case.
TimesOut(r) ==
    /\ runner[r].at = "waiting"
    /\ RunnerGoes(r, "terminating")
    /\ UNCHANGED <<os, ended, file, operator, runs, orders, abandoned, disturbed>>

Kill(r) ==
    /\ runner[r].at = "terminating"
    /\ Ends(runner[r].pid)
    /\ RunnerGoes(r, "killed")
    /\ UNCHANGED <<file, operator, runs, orders, abandoned, disturbed>>

Wait(r) ==
    /\ runner[r].at \in {"waiting", "killed"}
    /\ runner[r].cmd \in ended
    /\ os' = [os EXCEPT ![runner[r].pid] = NoCommand]
    /\ RunnerGoes(r, "reaped")
    /\ UNCHANGED <<ended, file, operator, runs, orders, abandoned, disturbed>>

\* if pid_file.exists()
CleanUp(r) ==
    /\ runner[r].at = "reaped"
    /\ IF file[runner[r].pid] = NoPidFile THEN runner' = [runner EXCEPT ![r] = Away]
                                          ELSE RunnerGoes(r, "unlinking")
    /\ UNCHANGED <<os, ended, file, operator, runs, orders, abandoned, disturbed>>

\* unlink(), which raises if another was faster; the result is lost then.
Unlink(r) ==
    /\ runner[r].at = "unlinking"
    /\ file' = [file EXCEPT ![runner[r].pid] = NoPidFile]
    /\ runner' = [runner EXCEPT ![r] = Away]
    /\ UNCHANGED <<os, ended, operator, runs, orders, abandoned, disturbed>>

\* Killed, interrupted, or the file could not be written.
RunnerDies(r) ==
    /\ runner[r].at # "away"
    /\ runner' = [runner EXCEPT ![r] = Away]
    /\ abandoned' = abandoned \cup {runner[r].cmd}
    /\ os' = IF os[runner[r].pid] = runner[r].cmd /\ runner[r].cmd \in ended
             THEN [os EXCEPT ![runner[r].pid] = NoCommand] ELSE os
    /\ UNCHANGED <<ended, file, operator, runs, orders, disturbed>>

RunnerStep(r) == \/ OpenPidFile(r) \/ WritePidFile(r) \/ TimesOut(r) \/ Kill(r)
                 \/ Wait(r) \/ CleanUp(r) \/ Unlink(r)

-----------------------------------------------------------------------------
(* list_processes().                                                       *)

Running == {os[p] : p \in Pid} \ (ended \cup {NoCommand})
Tracked(P) == {file[p].cmd : p \in {q \in P : file[q].whole}} \cap Running

Starting(P) == {runner[r].cmd : r \in {q \in Runner : runner[q].at \in {"spawned", "writing"}
                                                      /\ runner[q].pid \in P}}

\* todo are the files or processes to come, hand the one in hand, targets a history.
Turns(o, new) == operator' = [operator EXCEPT ![o] = new]

BeginsOrder(o, at, P, then) ==
    /\ operator[o].at \in {"quiet", "aborted"}
    /\ Turns(o, [at |-> at, then |-> then, todo |-> P, listed |-> {}, hand |-> {},
                    targets |-> IF then = "abort" THEN Tracked(P) ELSE {}])
    /\ orders < MaxOrders
    /\ orders' = orders + 1
    /\ disturbed' = disturbed \cup Starting(P)
    /\ UNCHANGED <<os, ended, file, runner, runs, abandoned>>

PidFiles == {p \in Pid : file[p] # NoPidFile}

list_processes(o, then) == BeginsOrder(o, "listing", PidFiles, then)

\* json.loads fails on a file that is gone, or only opened.
ReadFile(o) ==
    /\ operator[o].at = "listing"
    /\ \E p \in operator[o].todo :
           Turns(o, [operator[o] EXCEPT !.todo = @ \ {p}, !.hand = {p},
                                        !.at = IF file[p].whole THEN "checking" ELSE "pruning"])
    /\ UNCHANGED <<os, ended, file, runner, runs, orders, abandoned, disturbed>>

\* Faulty: a command that is over its time is taken for gone (is_expired).
CheckNotExpired(o) ==
    /\ operator[o].at = "checking"
    /\ \E p \in operator[o].hand, expired \in BOOLEAN :
           Turns(o, IF _is_process_alive(p) /\ ~expired
                    THEN [operator[o] EXCEPT !.at = "listing", !.listed = @ \cup {p}, !.hand = {}]
                    ELSE [operator[o] EXCEPT !.at = "pruning"])
    /\ UNCHANGED <<os, ended, file, runner, runs, orders, abandoned, disturbed>>

CheckAlive(o) ==
    /\ operator[o].at = "checking"
    /\ \E p \in operator[o].hand :
           Turns(o, IF _is_process_alive(p)
                    THEN [operator[o] EXCEPT !.at = "listing", !.listed = @ \cup {p}, !.hand = {}]
                    ELSE [operator[o] EXCEPT !.at = "pruning"])
    /\ UNCHANGED <<os, ended, file, runner, runs, orders, abandoned, disturbed>>

Prune(o) ==
    /\ operator[o].at = "pruning"
    /\ \E p \in operator[o].hand : file' = [file EXCEPT ![p] = NoPidFile]
    /\ Turns(o, [operator[o] EXCEPT !.at = "listing", !.hand = {}])
    /\ UNCHANGED <<os, ended, runner, runs, orders, abandoned, disturbed>>

Listed(o) ==
    /\ operator[o].at = "listing"
    /\ operator[o].todo = {}
    /\ Turns(o, IF operator[o].then = "abort"
                THEN [operator[o] EXCEPT !.at = "aborting", !.todo = operator[o].listed, !.listed = {}]
                ELSE Quiet)
    /\ UNCHANGED <<os, ended, file, runner, runs, orders, abandoned, disturbed>>

-----------------------------------------------------------------------------
(* abort_all() goes on with what was listed, abort_process() with one pid. *)

abort_process(o, p) == p \in PidFiles /\ BeginsOrder(o, "aborting", {p}, "abort")

\* _kill_process(): if it is there, SIGTERM, ...
Terminate(o) ==
    /\ operator[o].at = "aborting"
    /\ \E p \in operator[o].todo :
           Turns(o, [operator[o] EXCEPT !.todo = @ \ {p}, !.hand = {p},
                                        !.at = IF _is_process_alive(p) THEN "terminating" ELSE "killed"])
    /\ UNCHANGED <<os, ended, file, runner, runs, orders, abandoned, disturbed>>

\* ... and unless it goes away in time ...
GoneInTime(o) ==
    /\ operator[o].at = "terminating"
    /\ \E p \in operator[o].hand : ~_is_process_alive(p)
    /\ Turns(o, [operator[o] EXCEPT !.at = "killed"])
    /\ UNCHANGED <<os, ended, file, runner, runs, orders, abandoned, disturbed>>

\* Faulty: what does not go away in time is reported as not killed and forgotten.
GiveUp(o) ==
    /\ operator[o].at = "terminating"
    /\ Turns(o, [operator[o] EXCEPT !.at = "killed"])
    /\ UNCHANGED <<os, ended, file, runner, runs, orders, abandoned, disturbed>>

\* ... SIGKILL.
KillHard(o) ==
    /\ operator[o].at = "terminating"
    /\ \E p \in operator[o].hand : Ends(p)
    /\ Turns(o, [operator[o] EXCEPT !.at = "killed"])
    /\ UNCHANGED <<file, runner, runs, orders, abandoned, disturbed>>

NextTodo(o) == [operator[o] EXCEPT !.at = "aborting", !.hand = {}]

\* _remove_pid_file(): exists() ...
Forget(o) ==
    /\ operator[o].at = "killed"
    /\ \E p \in operator[o].hand :
           Turns(o, IF file[p] = NoPidFile THEN NextTodo(o) ELSE [operator[o] EXCEPT !.at = "removing"])
    /\ UNCHANGED <<os, ended, file, runner, runs, orders, abandoned, disturbed>>

\* ... and unlink(), which raises if another was faster: the rest is not aborted.
Remove(o) ==
    /\ operator[o].at = "removing"
    /\ \E p \in operator[o].hand :
           /\ file' = [file EXCEPT ![p] = NoPidFile]
           /\ Turns(o, IF file[p] = NoPidFile THEN Quiet ELSE NextTodo(o))
    /\ UNCHANGED <<os, ended, runner, runs, orders, abandoned, disturbed>>

Aborted(o) ==
    /\ operator[o].at = "aborting"
    /\ operator[o].todo = {}
    /\ Turns(o, [at |-> "aborted", targets |-> operator[o].targets])
    /\ UNCHANGED <<os, ended, file, runner, runs, orders, abandoned, disturbed>>

OperatorDies(o) ==
    /\ operator[o].at \notin {"quiet", "aborted"}
    /\ Turns(o, Quiet)
    /\ UNCHANGED <<os, ended, file, runner, runs, orders, abandoned, disturbed>>

OperatorStep(o) == \/ ReadFile(o) \/ CheckAlive(o) \/ Prune(o) \/ Listed(o)
                   \/ Terminate(o) \/ GoneInTime(o) \/ KillHard(o) \/ Forget(o) \/ Remove(o)
                   \/ Aborted(o)

-----------------------------------------------------------------------------
TrackedNext == \/ \E p \in Pid : ProcessEnds(p)
               \/ \E r \in Runner : Popen(r) \/ RunnerStep(r) \/ RunnerDies(r)
               \/ \E o \in Operator : \/ list_processes(o, "show") \/ list_processes(o, "abort")
                                      \/ \E p \in Pid : abort_process(o, p)
                                      \/ OperatorStep(o) \/ OperatorDies(o)

TrackedSpec == TrackedInit /\ [][TrackedNext]_trackedVars

-----------------------------------------------------------------------------
TrackedTypeOK == /\ os \in [Pid -> Command \cup {NoCommand}]
                 /\ ended \subseteq Command
                 /\ file \in [Pid -> {NoPidFile} \cup [cmd : Command, whole : BOOLEAN]]
                 /\ \A r \in Runner : runner[r] = Away \/ <<runner[r].pid, runner[r].cmd>> \in Pid \X Command
                 /\ DOMAIN operator = Operator
                 /\ runs \in 0..MaxRuns
                 /\ orders \in 0..MaxOrders
                 /\ abandoned \subseteq Command
                 /\ disturbed \subseteq Command

\* The files tell what runs.  While a runner waits for its command the file is
\* there, whatever is listed, pruned or aborted meanwhile, unless another had
\* the pid in hand when the command was started; and the file of a command
\* that has ended is there only until its runner removes it, or because the
\* runner died.
PidFilesTell ==
    /\ \A r \in Runner :
           /\ runner[r].at \in {"waiting", "terminating", "killed"}
           /\ runner[r].cmd \notin ended \cup disturbed
           => file[runner[r].pid] = Whole(runner[r].cmd)
    /\ \A p \in PidFiles : file[p].cmd \in ended => \/ Parents(file[p].cmd) # {}
                                                    \/ file[p].cmd \in abandoned

\* An abort that returns has ended every command that was tracked when it began
\* to list, also those whose runner died, whoever lists, prunes or aborts at
\* the same time.
AbortReachesAll ==
    \A o \in Operator : operator[o].at = "aborted" =>
        operator[o].targets \subseteq ended \cup disturbed
=============================================================================
