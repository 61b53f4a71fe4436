------------------------------ MODULE CommandRunner ------------------------------
(***************************************************************************)
(* The processes run_command starts: packages/tool-gateway/run-command.ts. *)
(* A command is awaited in the foreground until it ends, its time is over  *)
(* or its Run is stopped; it goes on in the background, where it is read   *)
(* and stopped.  The process and its signals are external; its output is   *)
(* left out.                                                               *)
(***************************************************************************)
EXTENDS Integers, Sequences, FiniteSets

CONSTANTS Tasks,
          None,
          TaskLimit     \* tasks kept (100)

\* None is no state of a command or of who waits for it
RunnerAssumption ==
  None \notin {"running", "success", "failed", "cancelled", "waiting", "completed", "timeout", "aborted"}

VARIABLES
  table,        \* tasks, in the order they were started
  task,         \* what the runner knows of each
  process,      \* external: the process of each
  told          \* history: the tasks someone was told had ended, or were missing

vars == <<table, task, process, told>>

NoTask == [status |-> None, timer |-> FALSE, waiter |-> None]
NoProcess == [alive |-> FALSE, signalled |-> FALSE, code |-> None]

Init ==
  /\ table = <<>> /\ task = [t \in Tasks |-> NoTask] /\ process = [t \in Tasks |-> NoProcess]
  /\ told = {}

Kept(t) == \E i \in DOMAIN table : table[i] = t
Running(t) == task[t].status = "running"

\* once: a task that is settled stays so
Finish(tt, t, status) ==
  IF tt[t].status # "running" THEN tt ELSE [tt EXCEPT ![t].status = status, ![t].timer = FALSE]

\* terminateProcessTree asks the process to end; whether it does is its own affair
Terminate(t) == process' = [process EXCEPT ![t].signalled = @ \/ process[t].alive]

\* snapshot: a task that runs is said to be in the background
Answer(t, running) == told' = IF running THEN told ELSE told \union {t}

\* prune, were the oldest dropped whatever becomes of it
PrunedOldest(tab, tt) == IF Len(tab) <= TaskLimit THEN tab ELSE Tail(tab)

\* prune drops settled tasks, the oldest first
Pruned(tab, tt) ==
  LET over == Len(tab) - TaskLimit
      Done(i) == tt[tab[i]].status # "running"
      Drop(i) == Done(i) /\ Cardinality({j \in 1..i : Done(j)}) <= over
      keep == {i \in DOMAIN tab : ~Drop(i)}
      At(n) == CHOOSE i \in keep : Cardinality({j \in keep : j <= i}) = n
  IN  [n \in 1..Cardinality(keep) |-> tab[At(n)]]

---------------------------------------------------------------------------
(* run *)

\* a command that is not empty, for a Run that is not stopped
Start(t, background) ==
  /\ task[t].status = None
  /\ \E spawned \in BOOLEAN :
       process' = [process EXCEPT ![t].alive = spawned, ![t].code = IF spawned THEN None ELSE "error"]
  /\ task' = [task EXCEPT ![t] = [status |-> "running", timer |-> TRUE,
                                  waiter |-> IF background THEN None ELSE "waiting"]]
  /\ table' = Pruned(Append(table, t), task')
  /\ UNCHANGED told

Cancelled(t) ==
  /\ task[t].status = None /\ task' = [task EXCEPT ![t].status = "cancelled"]
  /\ Answer(t, FALSE) /\ UNCHANGED <<table, process>>

\* the race of run: the first of completion, time and abort
Return(t) ==
  /\ task[t].waiter \in {"completed", "timeout", "aborted"}
  /\ IF task[t].waiter = "aborted"
     THEN /\ Terminate(t)
          /\ task' = [Finish(task, t, "cancelled") EXCEPT ![t].waiter = None]
     ELSE task' = [task EXCEPT ![t].waiter = None] /\ UNCHANGED process
  /\ Answer(t, task'[t].status = "running") /\ UNCHANGED table

Race(t, outcome) ==
  /\ task[t].waiter = "waiting" /\ task' = [task EXCEPT ![t].waiter = outcome]
  /\ UNCHANGED <<table, process, told>>

ForegroundTimeout(t) == Race(t, "timeout")
Abort(t) == Race(t, "aborted")

---------------------------------------------------------------------------
(* The process and its events *)

Woken(tt, t) == IF tt[t].waiter = "waiting" THEN [tt EXCEPT ![t].waiter = "completed"] ELSE tt

\* a signalled process may go on
Exit(t) ==
  /\ process[t].alive
  /\ \E code \in {"zero", "other"} :
       process' = [process EXCEPT ![t].alive = FALSE, ![t].code = code]
  /\ UNCHANGED <<table, task, told>>

\* exit and error; what is left in the pipe may come after
OnExit(t) ==
  /\ ~process[t].alive /\ process[t].code \in {"zero", "other", "error"}
  /\ process' = [process EXCEPT ![t].code = "told"]
  /\ task' = IF Running(t)
             THEN Woken(Finish(task, t, IF process[t].code = "zero" THEN "success" ELSE "failed"), t)
             ELSE task
  /\ UNCHANGED <<table, told>>

OnRuntimeTimer(t) ==
  /\ task[t].timer
  /\ Terminate(t) /\ task' = Woken(Finish(task, t, "failed"), t)
  /\ UNCHANGED <<table, told>>

---------------------------------------------------------------------------
(* read_command_output and stop_command *)

\* read may wait; it answers with what is known then
Read(t) ==
  /\ task[t].status # None
  /\ Answer(t, Kept(t) /\ Running(t)) /\ UNCHANGED <<table, task, process>>

Stop(t) ==
  /\ task[t].status # None
  /\ IF Kept(t) /\ Running(t)
     THEN /\ Terminate(t) /\ task' = Woken(Finish(task, t, "cancelled"), t)
     ELSE UNCHANGED <<task, process>>
  /\ Answer(t, FALSE) /\ UNCHANGED table

Step(t) ==
  \/ \E background \in BOOLEAN : Start(t, background)
  \/ Cancelled(t) \/ Return(t) \/ ForegroundTimeout(t) \/ Abort(t)
  \/ Exit(t) \/ OnExit(t) \/ OnRuntimeTimer(t) \/ Read(t) \/ Stop(t)

Next == \E t \in Tasks : Step(t)

Spec == Init /\ [][Next]_vars

---------------------------------------------------------------------------
(* A process that runs unasked to end can be read and stopped: its task is *)
(* kept and says it is running, and no one was told that it had ended,     *)
(* whatever the order of exit, timers, stops, aborts and pruning           *)
(* (run-command.ts:95-101, 136-160, 176-195).                              *)
RunningIsInReach ==
  \A t \in Tasks : process[t].alive /\ ~process[t].signalled =>
    Kept(t) /\ Running(t) /\ t \notin told
=============================================================================
