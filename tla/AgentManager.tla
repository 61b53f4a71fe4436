------------------------------ MODULE AgentManager ------------------------------
(***************************************************************************)
(* The child Agents of one Session: packages/agent-manager, with the inbox *)
(* side of conversation-run-coordinator.ts, the inbox continuation and     *)
(* stop_all of apps/runtime/server.ts.                                     *)
(*                                                                         *)
(* agents.jsonl is the durable state; one commit of the Agent store is one *)
(* step.  The calls of the Main Run, the stop button of the web page, the  *)
(* executions of the children, stop_all, the delivery of the inbox and the *)
(* recovery at boot interleave at every await of the store.                *)
(***************************************************************************)
EXTENDS Integers, FiniteSets

CONSTANTS Agents,
          CallIds,        \* tool call ids of one Main Run
          Writing,        \* whether the definitions a spawn may name can write
          MaxConcurrent,  \* limits.maxConcurrentAgents
          MaxPerRun,      \* limits.maxAgentsPerSession: children made by one Main Run
          MaxBatch,       \* MAX_AGENT_NOTIFICATION_BATCH
          MaxStreak,      \* MAX_CONSECUTIVE_AGENT_NOTIFICATION_RUNS
          MaxChildRuns,   \* bound: Runs of one Agent
          MaxRuns,        \* bound: Runs of all Agents
          MaxMains,       \* bound: Main Runs
          MaxDisruptions  \* bound: stop_all commands, web stops and process restarts

ChildRuns == Agents \X (1 .. MaxChildRuns)
Mains == 1 .. MaxMains
Callers == {"main", "web"}
None == "none"

VARIABLES
  \* agents.jsonl
  agent,      \* AgentRecord: status, current and last Run, writer, createdByRunId
  runStatus,  \* AgentRunRecord.status
  inbox,      \* AgentCompletionNotification.status
  operations, \* the replay table: operation -> child Run
  halted,     \* control.halted
  \* the Session journal: which Main Run has a notification as its origin, and
  \* how many Main Runs in a row were started by notifications
  origin, streak,
  \* this process
  child,      \* the promise and the handle of each Agent's execution
  recovered,  \* recoveredSessions holds the Session
  booted,     \* the recovery at boot has passed the Session
  main,       \* the Main Run
  call,       \* the orchestration call each caller is making
  delivery,   \* a beginAgentNotificationRun in progress
  stopper,    \* a stop_all in progress
  \* history
  told,       \* child Runs whose notification a wait consumed
  dropped,    \* child Runs whose notification a stop consumed
  quiet,      \* stop_all, begun after the recoveries, has returned and nothing was
              \* started since
  astray,     \* the Main Run and id of the spawn or followup that was in flight when
              \* the last stop_all collected the handles
  budget

journal == <<agent, runStatus, inbox, operations, halted>>
ledger == <<origin, streak>>
local == <<recovered, booted>>
history == <<told, dropped, quiet, astray>>
vars == <<journal, ledger, child, local, main, call, delivery, stopper, history, budget>>

NoAgent == [status |-> "absent", cur |-> 0, last |-> 0, writer |-> FALSE, by |-> 0]
NoChild == [at |-> "off", n |-> 0, aborted |-> FALSE, halted |-> FALSE]
NoCall == [op |-> None, at |-> None, id |-> None, target |-> {}, writer |-> FALSE, runs |-> {}]
NoMain == [no |-> 0, live |-> FALSE, stopping |-> FALSE]
NoDelivery == [at |-> None, batch |-> {}]
NoStop == [at |-> None, waits |-> {}, calm |-> FALSE, bare |-> FALSE]

Terminal == {"done", "interrupted"}
TreeExists == \E a \in Agents : agent[a].status # "absent"
Handles == {a \in Agents : child[a].at # "off"}
Exhausted == Cardinality({r \in ChildRuns : runStatus[r] # None}) >= MaxRuns
Running == {r \in ChildRuns : runStatus[r] = "running"}
Pending == {r \in ChildRuns : inbox[r] = "pending"}
RunOf(a) == <<a, child[a].n>>

\* Some child Run and some disruption fit in the bounds.
ASSUME AgentAssumption ==
  /\ Writing \subseteq BOOLEAN
  /\ MaxChildRuns \in Nat \ {0} /\ MaxMains \in Nat /\ MaxDisruptions \in Nat

AgentRecords ==
  [status : {"absent", "running", "stopping", "idle"}, cur : 0 .. MaxChildRuns,
   last : 0 .. MaxChildRuns, writer : BOOLEAN, by : 0 .. MaxMains]
Executions ==
  [at : {"off", "run", "read", "append"}, n : 0 .. MaxChildRuns, aborted : BOOLEAN, halted : BOOLEAN]
OrchestrationCalls ==
  [op : {None, "spawn", "followup", "wait", "stop"},
   at : {None, "preflight", "check", "append", "launch", "collect", "consume", "abort"},
   id : CallIds \cup {None}, target : SUBSET Agents, writer : BOOLEAN, runs : SUBSET ChildRuns]

TypeOK ==
  /\ agent \in [Agents -> AgentRecords]
  /\ runStatus \in [ChildRuns -> {None, "running"} \cup Terminal]
  /\ inbox \in [ChildRuns -> {None, "pending", "consumed"}]
  /\ operations \in SUBSET (Mains \X CallIds \X ChildRuns)
  /\ origin \in [ChildRuns -> SUBSET Mains] /\ streak \in 0 .. MaxMains
  /\ child \in [Agents -> Executions]
  /\ main \in [no : 0 .. MaxMains, live : BOOLEAN, stopping : BOOLEAN]
  /\ call \in [Callers -> OrchestrationCalls]
  /\ delivery \in [at : {None, "begin", "consume"}, batch : SUBSET ChildRuns]
  /\ stopper \in [at : {None, "halt", "main", "collect", "settle", "read", "consume"},
                  waits : SUBSET ChildRuns, calm : BOOLEAN, bare : BOOLEAN]
  /\ {halted, recovered, booted, quiet} \subseteq BOOLEAN
  /\ told \subseteq ChildRuns /\ dropped \subseteq ChildRuns
  /\ astray \in (0 .. MaxMains) \X (CallIds \cup {None})
  /\ budget \in 0 .. MaxDisruptions

Init ==
  /\ agent = [a \in Agents |-> NoAgent]
  /\ runStatus = [r \in ChildRuns |-> None]
  /\ inbox = [r \in ChildRuns |-> None]
  /\ operations = {} /\ halted = FALSE
  /\ origin = [r \in ChildRuns |-> {}] /\ streak = 0
  /\ child = [a \in Agents |-> NoChild]
  /\ recovered = FALSE /\ booted = TRUE
  /\ main = NoMain /\ call = [c \in Callers |-> NoCall]
  /\ delivery = NoDelivery /\ stopper = NoStop
  /\ told = {} /\ dropped = {} /\ quiet = FALSE /\ astray = <<0, None>>
  /\ budget = 0

-------------------------------------------------------------------------------
(* Commits of the Agent store *)

Idle(rec, r) == [rec EXCEPT !.status = "idle", !.cur = 0, !.last = r[2]]

\* agent_run_started, with agent_created before it when the Agent is new; the
\* context and the user message travel in the same commit.
Started(a, n, id, writer) ==
  /\ agent' = [agent EXCEPT ![a] =
       IF @.status = "absent"
       THEN [status |-> "running", cur |-> n, last |-> n, writer |-> writer, by |-> main.no]
       ELSE [@ EXCEPT !.status = "running", !.cur = n, !.last = n]]
  /\ runStatus' = [runStatus EXCEPT ![<<a, n>>] = "running"]
  /\ operations' = {o \in operations : <<o[1], o[2]>> # <<main.no, id>>}
                     \cup {<<main.no, id, <<a, n>> >>}
  /\ UNCHANGED <<inbox, halted>>

\* agent_completion_consumed
Consumed(rs) ==
  /\ inbox' = [r \in ChildRuns |-> IF r \in rs /\ inbox[r] = "pending" THEN "consumed" ELSE inbox[r]]
  /\ UNCHANGED <<agent, runStatus, operations, halted>>

\* load with recovery: running Runs become interrupted, each with a notification
\* unless it has one.
RecoveryCommit ==
  /\ agent' = [a \in Agents |-> IF \E r \in Running : r[1] = a
                                THEN Idle(agent[a], <<a, agent[a].last>>) ELSE agent[a]]
  /\ runStatus' = [r \in ChildRuns |-> IF r \in Running THEN "interrupted" ELSE runStatus[r]]
  /\ inbox' = [r \in ChildRuns |-> IF r \in Running /\ inbox[r] = None THEN "pending" ELSE inbox[r]]
  /\ UNCHANGED <<operations, halted>>

\* loadTree recovers the first time this process looks at the Session.
Recovers == ~recovered /\ Running # {}

-------------------------------------------------------------------------------
(* Calls.  Both callers pass orchestrationPreflight; only the Main Run makes  *)
(* calls other than stop, one after the other.                                *)

Begin(c, op, id, target, writer) ==
  /\ call[c] = NoCall
  /\ IF c = "main" THEN main.live /\ ~main.stopping /\ delivery.at = None
     ELSE \E a \in target : agent[a].cur # 0  \* the page offers the button
  /\ budget + (IF c = "web" THEN 1 ELSE 0) <= MaxDisruptions
  /\ budget' = budget + (IF c = "web" THEN 1 ELSE 0)
  /\ call' = [call EXCEPT ![c] = [op |-> op, at |-> "preflight", id |-> id, target |-> target,
                                  writer |-> writer, runs |-> {}]]
  /\ UNCHANGED <<journal, ledger, child, local, main, delivery, stopper, history>>

CallSpawn(id, w) == Begin("main", "spawn", id, {}, w)
CallFollowup(id, a) == Begin("main", "followup", id, {a}, FALSE)
CallWait(id, T) == Begin("main", "wait", id, T, FALSE)
CallStop(c, id, a) == Begin(c, "stop", id, {a}, FALSE)

Return(c) == call' = [call EXCEPT ![c] = NoCall]
At(c, op, place) == call[c].op = op /\ call[c].at = place
Goto(c, place) == call' = [call EXCEPT ![c].at = place]
Starting == call["main"].op \in {"spawn", "followup"}

\* orchestrationPreflight: a halted Session blocks, and so does an open circuit.
\* Which operations open it, by number or for want of progress, is left open.
Preflight(c) ==
  /\ call[c].at = "preflight"
  /\ recovered' = TRUE
  /\ IF Recovers THEN RecoveryCommit ELSE UNCHANGED journal
  /\ Return(c) \/ (~halted /\ Goto(c, "check"))
  /\ UNCHANGED <<ledger, child, booted, main, delivery, stopper, history, budget>>

\* spawnRaw up to createAgentRun: replay, capacities, definition, one shared writer.
Made == {a \in Agents : agent[a].by = main.no}
Replayed(id) == \E o \in operations : o[1] = main.no /\ o[2] = id

\* Mutant: the operation table is not consulted.
SpawnCheckForgetful ==
  /\ At("main", "spawn", "check")
  /\ IF \/ Cardinality(Made) >= MaxPerRun \/ Cardinality(Handles) >= MaxConcurrent
        \/ call["main"].writer /\ \E a \in Handles : agent[a].writer
        \/ \A a \in Agents : agent[a].status # "absent"
        \/ Exhausted
     THEN Return("main")
     ELSE \E a \in Agents : /\ agent[a].status = "absent"
                            /\ call' = [call EXCEPT !["main"].at = "append", !["main"].target = {a}]
  /\ UNCHANGED <<journal, ledger, child, local, main, delivery, stopper, history, budget>>

SpawnCheck ==
  /\ At("main", "spawn", "check")
  /\ IF \/ Replayed(call["main"].id)
        \/ Cardinality(Made) >= MaxPerRun \/ Cardinality(Handles) >= MaxConcurrent
        \/ call["main"].writer /\ \E a \in Handles : agent[a].writer
        \/ \A a \in Agents : agent[a].status # "absent"  \* maxAgentRecordsPerSession
        \/ Exhausted
     THEN Return("main")
     ELSE \E a \in Agents : /\ agent[a].status = "absent"
                            /\ call' = [call EXCEPT !["main"].at = "append", !["main"].target = {a}]
  /\ UNCHANGED <<journal, ledger, child, local, main, delivery, stopper, history, budget>>

\* Mutant: followup trusts the journal and does not look at the handles.
FollowupCheckJournalOnly(a) ==
  /\ At("main", "followup", "check") /\ a \in call["main"].target
  /\ IF \/ agent[a].status = "absent" \/ agent[a].cur # 0
        \/ Replayed(call["main"].id) \/ agent[a].last = MaxChildRuns \/ Exhausted
     THEN Return("main") ELSE Goto("main", "append")
  /\ UNCHANGED <<journal, ledger, child, local, main, delivery, stopper, history, budget>>

FollowupCheck(a) ==
  /\ At("main", "followup", "check") /\ a \in call["main"].target
  /\ IF \/ agent[a].status = "absent" \/ agent[a].cur # 0 \/ a \in Handles
        \/ Replayed(call["main"].id) \/ agent[a].last = MaxChildRuns \/ Exhausted
     THEN Return("main") ELSE Goto("main", "append")
  /\ UNCHANGED <<journal, ledger, child, local, main, delivery, stopper, history, budget>>

AppendRun(a) ==
  /\ \E op \in {"spawn", "followup"} : At("main", op, "append")
  /\ a \in call["main"].target
  /\ Started(a, agent[a].last + 1, call["main"].id, call["main"].writer)
  /\ Goto("main", "launch")
  /\ UNCHANGED <<ledger, child, local, main, delivery, stopper, history, budget>>

\* The append has returned: the execution starts and its handle is registered.
Launch(a) ==
  /\ call["main"].at = "launch" /\ a \in call["main"].target
  /\ child' = [child EXCEPT ![a] = [NoChild EXCEPT !.at = "run", !.n = agent[a].last]]
  /\ Return("main")
  /\ UNCHANGED <<journal, ledger, local, main, delivery, stopper, history, budget>>

\* stopRaw looks up the handle; without one, or without a current Run, the
\* Agent is already idle.
StopCheck(c, a) ==
  /\ At(c, "stop", "check") /\ a \in call[c].target
  /\ IF a \in Handles /\ agent[a].cur # 0
     THEN call' = [call EXCEPT ![c].at = "append", ![c].runs = {RunOf(a)}]
     ELSE Return(c)
  /\ UNCHANGED <<journal, ledger, child, local, main, delivery, stopper, history, budget>>

StopAppend(c, a) ==
  /\ At(c, "stop", "append") /\ a \in call[c].target
  /\ agent' = [agent EXCEPT ![a].status = "stopping"]
  /\ Goto(c, "abort")
  /\ UNCHANGED <<runStatus, inbox, operations, halted, ledger, child, local, main,
                 delivery, stopper, history, budget>>

StopAborts(c, a) ==
  /\ At(c, "stop", "abort") /\ a \in call[c].target
  /\ child' = [child EXCEPT ![a].aborted = @ \/ (child[a].at # "off" /\ RunOf(a) \in call[c].runs)]
  /\ Return(c)
  /\ UNCHANGED <<journal, ledger, local, main, delivery, stopper, history, budget>>

\* waitRaw fixes the Run of each target, then waits: any, all, timeout, abort
\* and block = false differ only in when it goes on.
WaitCheck ==
  /\ At("main", "wait", "check")
  /\ IF \E a \in call["main"].target : agent[a].last = 0
     THEN Return("main")
     ELSE call' = [call EXCEPT !["main"].at = "collect",
                     !["main"].runs = {<<a, IF agent[a].cur # 0 THEN agent[a].cur ELSE agent[a].last>> :
                                         a \in call["main"].target}]
  /\ UNCHANGED <<journal, ledger, child, local, main, delivery, stopper, history, budget>>

\* The terminal Runs among the targets; a result observed before has no
\* notification left to consume.
WaitCollect ==
  /\ At("main", "wait", "collect")
  /\ LET due == {r \in call["main"].runs \cap Pending : runStatus[r] \in Terminal}
     IN IF due = {} THEN Return("main")
        ELSE call' = [call EXCEPT !["main"].at = "consume", !["main"].runs = due]
  /\ UNCHANGED <<journal, ledger, child, local, main, delivery, stopper, history, budget>>

WaitConsume ==
  /\ At("main", "wait", "consume")
  /\ Consumed(call["main"].runs)
  /\ told' = told \cup (call["main"].runs \cap Pending)
  /\ Return("main")
  /\ UNCHANGED <<ledger, child, local, main, delivery, stopper, dropped, quiet, astray, budget>>

-------------------------------------------------------------------------------
(* The execution of a child: launch *)

\* runChild returns or throws; an aborted one ends as interrupted.
ChildEnds(a) ==
  /\ child[a].at = "run"
  /\ child' = [child EXCEPT ![a].at = "read"]
  /\ UNCHANGED <<journal, ledger, local, main, call, delivery, stopper, history, budget>>

\* beforeTerminal: whether the Session is halted is read before the commit.
ChildReads(a) ==
  /\ child[a].at = "read"
  /\ child' = [child EXCEPT ![a].at = "append", ![a].halted = halted]
  /\ UNCHANGED <<journal, ledger, local, main, call, delivery, stopper, history, budget>>

\* agent_run_terminal and its notification in one commit; the handle goes when
\* the append returns.
ChildCommits(a) ==
  /\ child[a].at = "append"
  /\ runStatus' = [runStatus EXCEPT ![RunOf(a)] = IF child[a].aborted THEN "interrupted" ELSE "done"]
  /\ agent' = [agent EXCEPT ![a] = Idle(@, RunOf(a))]
  /\ inbox' = [inbox EXCEPT ![RunOf(a)] = IF ~child[a].halted /\ @ = None THEN "pending" ELSE @]
  /\ child' = [child EXCEPT ![a] = NoChild]
  /\ UNCHANGED <<operations, halted, ledger, local, main, call, delivery, stopper,
                 history, budget>>

-------------------------------------------------------------------------------
(* Main Runs and the delivery of the inbox *)

Free == ~main.live /\ delivery.at = None /\ main.no < MaxMains

\* A user message: resumeSession lifts the halt, then the Run starts.
UserResumes ==
  /\ ~main.live /\ delivery.at = None /\ halted
  /\ halted' = FALSE /\ quiet' = FALSE
  /\ UNCHANGED <<agent, runStatus, inbox, operations, ledger, child, local, main, call,
                 delivery, stopper, told, dropped, astray, budget>>

\* History: a Run that starts where nothing is halted may make children again.
StartsAfterStop ==
  /\ quiet' = (quiet /\ halted)
  /\ stopper' = [stopper EXCEPT !.bare = FALSE]

StartUserRun ==
  /\ Free
  /\ main' = [no |-> main.no + 1, live |-> TRUE, stopping |-> FALSE]
  /\ streak' = 0
  /\ StartsAfterStop
  /\ UNCHANGED <<journal, origin, child, local, call, delivery, told, dropped, astray, budget>>

MainEnds ==
  /\ main.live /\ delivery.at = None /\ call["main"] = NoCall
  /\ main' = [main EXCEPT !.live = FALSE, !.stopping = FALSE]
  /\ UNCHANGED <<journal, ledger, child, local, call, delivery, stopper, history, budget>>

Delivered == {r \in Pending : origin[r] # {}}

\* pendingAgentBatch: notifications that a Run has as its origin were delivered
\* by a process that stopped before it could consume them.
DeliverAgain ==
  /\ ~main.live /\ delivery.at = None /\ ~halted /\ Delivered # {}
  /\ Consumed(Delivered)
  /\ UNCHANGED <<ledger, child, local, main, call, delivery, stopper, history, budget>>

\* Mutant: pendingAgentBatch without the look at the origins in the ledger.
DeliverLookBlind ==
  /\ Free /\ ~halted /\ streak < MaxStreak
  /\ \E batch \in SUBSET Pending :
       /\ batch # {} /\ Cardinality(batch) <= MaxBatch
       /\ delivery' = [at |-> "begin", batch |-> batch]
  /\ UNCHANGED <<journal, ledger, child, local, main, call, stopper, history, budget>>

\* The oldest pending notifications become the prompt of one Run, unless enough
\* Runs in a row were started that way.
DeliverLook ==
  /\ Free /\ ~halted /\ Delivered = {} /\ streak < MaxStreak
  /\ \E batch \in SUBSET Pending :
       /\ batch # {} /\ Cardinality(batch) <= MaxBatch
       /\ delivery' = [at |-> "begin", batch |-> batch]
  /\ UNCHANGED <<journal, ledger, child, local, main, call, stopper, history, budget>>

\* beginRun with the batch as origin; a chain that was stopped meanwhile starts
\* the Run with its signal aborted.
DeliverBegin ==
  /\ delivery.at = "begin"
  /\ main' = [no |-> main.no + 1, live |-> TRUE, stopping |-> main.stopping]
  /\ origin' = [r \in ChildRuns |-> IF r \in delivery.batch THEN origin[r] \cup {main.no + 1} ELSE origin[r]]
  /\ streak' = streak + 1
  /\ delivery' = [delivery EXCEPT !.at = "consume"]
  /\ StartsAfterStop
  /\ UNCHANGED <<journal, child, local, call, told, dropped, astray, budget>>

DeliverConsume ==
  /\ delivery.at = "consume"
  /\ Consumed(delivery.batch)
  /\ delivery' = NoDelivery
  /\ UNCHANGED <<ledger, child, local, main, call, stopper, history, budget>>

-------------------------------------------------------------------------------
(* stop_all: stopConversationSession *)

StopAll ==
  /\ stopper.at = None /\ budget < MaxDisruptions
  /\ budget' = budget + 1
  /\ stopper' = [NoStop EXCEPT !.at = "halt", !.calm = recovered /\ booted]
  /\ quiet' = FALSE
  /\ UNCHANGED <<journal, ledger, child, local, main, call, delivery, told, dropped, astray>>

\* haltSession, once before the Main Run is stopped and once in stopSession; a
\* Session without agents.jsonl has nothing to halt, also when the first spawn is
\* about to write it.
Halt ==
  /\ stopper.at \in {"halt", "collect"}
  /\ halted' = TreeExists
  /\ IF stopper.at = "halt"
     THEN stopper' = [stopper EXCEPT !.at = "main"] /\ UNCHANGED <<child, astray>>
     ELSE \* the handles are collected and aborted when the call returns
          /\ stopper' = [stopper EXCEPT !.at = "settle", !.waits = {RunOf(a) : a \in Handles},
                            !.bare = ~TreeExists /\ (main.live => main.stopping)]
          /\ child' = [a \in Agents |-> [child[a] EXCEPT !.aborted = @ \/ a \in Handles]]
          /\ astray' = IF Starting THEN <<main.no, call["main"].id>> ELSE <<0, None>>
  /\ UNCHANGED <<agent, runStatus, inbox, operations, ledger, local, main, call,
                 delivery, told, dropped, quiet, budget>>

\* coordinator.stop marks the chain and aborts the signal; it does not wait for
\* the Run to end.
StopMain ==
  /\ stopper.at = "main"
  /\ main' = [main EXCEPT !.stopping = main.live \/ delivery.at # None]
  /\ stopper' = [stopper EXCEPT !.at = "collect"]
  /\ UNCHANGED <<journal, ledger, child, local, call, delivery, history, budget>>

\* Mutant: stopSession does not wait for the children it aborts.
StopSettlesEarly ==
  /\ stopper.at = "settle"
  /\ stopper' = [stopper EXCEPT !.at = "read"]
  /\ UNCHANGED <<journal, ledger, child, local, main, call, delivery, history, budget>>

StopSettles ==
  /\ stopper.at = "settle"
  /\ \A a \in Handles : RunOf(a) \notin stopper.waits
  /\ stopper' = [stopper EXCEPT !.at = "read"]
  /\ UNCHANGED <<journal, ledger, child, local, main, call, delivery, history, budget>>

StopReads ==
  /\ stopper.at = "read"
  /\ stopper' = [stopper EXCEPT !.at = "consume", !.waits = Pending]
  /\ UNCHANGED <<journal, ledger, child, local, main, call, delivery, history, budget>>

\* What waits in the inbox is consumed.
StopConsumes ==
  /\ stopper.at = "consume"
  /\ Consumed(stopper.waits)
  /\ dropped' = dropped \cup (stopper.waits \cap Pending)
  /\ stopper' = NoStop
  /\ quiet' = (stopper.calm /\ (halted \/ stopper.bare))
  /\ UNCHANGED <<ledger, child, local, main, call, delivery, told, astray, budget>>

-------------------------------------------------------------------------------
(* The process *)

Crash ==
  /\ budget < MaxDisruptions
  /\ budget' = budget + 1
  /\ child' = [a \in Agents |-> NoChild]
  /\ recovered' = FALSE /\ booted' = FALSE
  /\ main' = [main EXCEPT !.live = FALSE, !.stopping = FALSE]
  /\ call' = [c \in Callers |-> NoCall]
  /\ delivery' = NoDelivery /\ stopper' = NoStop /\ quiet' = FALSE
  /\ UNCHANGED <<journal, ledger, told, dropped, astray>>

\* The loop over all Sessions at boot, with recovery; it runs beside the requests.
Boot ==
  /\ ~booted /\ booted' = TRUE
  /\ IF Running # {} THEN RecoveryCommit ELSE UNCHANGED journal
  /\ UNCHANGED <<ledger, child, recovered, main, call, delivery, stopper, history, budget>>

\* list, detail: a read that recovers on the first look.
List ==
  /\ ~recovered /\ recovered' = TRUE
  /\ IF Recovers THEN RecoveryCommit ELSE UNCHANGED journal
  /\ UNCHANGED <<ledger, child, booted, main, call, delivery, stopper, history, budget>>

Calls ==
  \/ \E id \in CallIds :
       \/ \E w \in Writing : CallSpawn(id, w)
       \/ \E a \in Agents : CallFollowup(id, a) \/ \E c \in Callers : CallStop(c, id, a)
       \/ \E T \in SUBSET Agents \ {{}} : CallWait(id, T)
  \/ \E c \in Callers : Preflight(c) \/ \E a \in Agents : StopCheck(c, a) \/ StopAppend(c, a) \/ StopAborts(c, a)
  \/ SpawnCheck \/ WaitCheck \/ WaitCollect \/ WaitConsume
  \/ \E a \in Agents : FollowupCheck(a) \/ AppendRun(a) \/ Launch(a)

Children == \E a \in Agents : ChildEnds(a) \/ ChildReads(a) \/ ChildCommits(a)
MainRuns == UserResumes \/ StartUserRun \/ MainEnds
            \/ DeliverAgain \/ DeliverLook \/ DeliverBegin \/ DeliverConsume
Stops == StopAll \/ Halt \/ StopMain \/ StopSettles \/ StopReads \/ StopConsumes

Next == Calls \/ Children \/ MainRuns \/ Stops \/ Crash \/ Boot \/ List

Spec == Init /\ [][Next]_vars

-------------------------------------------------------------------------------
(* Properties *)

\* An Agent has at most one running Run in the journal and its live execution is
\* of its last Run: neither followup nor the two recoveries, which may find the
\* Run of a child that this process has just launched, starts a second one.
OneRunPerAgent ==
  \A a \in Agents : /\ Cardinality({r \in Running : r[1] = a}) <= 1
                     /\ a \in Handles => child[a].n = agent[a].last

\* The result of a child becomes the origin of one Main Run at most, and of none
\* once a wait has answered it: also when the process stops between beginRun and the
\* consumption of the inbox, and when a recovery gives a live child a notification.
\* Nothing leaves the inbox unseen: what is consumed became the origin of a Run, was
\* the answer of a wait or was discarded by a stop.
DeliveredOnce ==
  [][\A r \in ChildRuns :
       /\ origin'[r] # origin[r] => origin[r] = {} /\ r \notin told
       /\ inbox'[r] = "consumed" /\ inbox[r] # "consumed" => origin'[r] # {} \/ r \in (told \cup dropped)']_vars

\* After stop_all, until a Run is started or the user resumes, the only child that
\* may still run is the one whose spawn or followup was in flight when the handles
\* were collected, and nothing waits in the inbox of a halted Session.  A Session
\* whose first spawn was in flight had no agents.jsonl to halt: its child also
\* leaves a notification, which wakes the Session.
Astray(r) == <<astray[1], astray[2], r>> \in operations
QuietAfterStop ==
  quiet => /\ \A r \in Running : Astray(r)
           /\ \A r \in Pending : Astray(r) /\ ~halted

\* One tool call of one Main Run starts at most one child Run, whatever the model
\* repeats.
OneRunPerOperation ==
  [][\A o \in operations : \E p \in operations' : p = o]_vars
===============================================================================
