---------------------------- MODULE RunCoordinator ----------------------------
(***************************************************************************)
(* The in-process coordinator of packages/agent-core that turns a Session  *)
(* and its Queue into a chain of Runs: conversation-run-coordinator.ts,    *)
(* with runTask (agent-core/index.ts) and the safe boundaries of the       *)
(* executor.  The durable side is an instance of SessionStore.             *)
(*                                                                         *)
(* Three kinds of process interleave at every await: the chain (one at a   *)
(* time per Session), stop calls, and client requests.  withSessionLock    *)
(* orders some of their steps; several calls to the repository are made    *)
(* outside it (setQueuePaused of start, beforeFinish, finishRun, the claim *)
(* of the next item, a stop that finds no handle), and those are the       *)
(* interesting ones.                                                       *)
(*                                                                         *)
(* The repository serves the calls for a Session in the order they are     *)
(* made, so a call takes effect in the step that makes it: a test and the  *)
(* call that follows it without an await are one step.  Any call may throw *)
(* instead, before it commits anything.                                    *)
(***************************************************************************)
EXTENDS Integers, Sequences, FiniteSets

CONSTANTS Items, Runs, NoRun, NoItem,
          StopReasons,  \* why a stop is asked: user_stop, disconnect
          MaxStops,     \* bound: stop calls
          MaxChains,    \* bound: calls of start and resume
          MaxCrashes,   \* bound: process restarts
          MaxFaults     \* bound: calls of the repository or of resolveEnvironment that throw

ASSUME BoundsAreNaturals == {MaxStops, MaxChains, MaxCrashes, MaxFaults} \subseteq Nat
ASSUME SentinelsAreFresh == NoRun \notin Runs /\ NoItem \notin Items
ASSUME ItemsAreFinite == IsFiniteSet(Items)
ASSUME NoneIsNoReason == "none" \notin StopReasons

VARIABLES
  \* the repository (SessionStore)
  status, delivery, targetRunId, consumedRunId, position, queuePaused,
  activeTaskId, runReports, messages, operations, revision, activeRuns, known, opened,
  \* the chain
  pc,         \* where executeChain, start, resume or runTask stands
  run,        \* current.runId
  prestarted, \* current.prestarted: the Run was begun by the claim
  chainNo,    \* chain.chainId: chains are numbered as they are created
  chainStop,  \* chain.stoppedFor
  result,     \* result.status of the Run that ended
  \* its ActiveConversationRun
  phase, stoppedFor,
  registered, \* the handle is in activeBySessionId and activeByRunId
  waiting,    \* a steerWaiter is registered by waitForSteer
  leaked,     \* a handle whose chain threw between register and runTask
  \* one stop call at a time
  stopper,
  \* history: Runs whose Steers a stop could not requeue, Runs that a chain left
  \* open when it threw in this process
  unrequeued, forsaken,
  budget      \* how much of each bound is used

repoVars == <<status, delivery, targetRunId, consumedRunId, position, queuePaused,
              activeTaskId, runReports, messages, operations, revision, activeRuns, known, opened>>
chainVars == <<pc, run, prestarted, chainNo, chainStop, result>>
handleVars == <<phase, stoppedFor, registered, waiting>>
faultVars == <<leaked, unrequeued, forsaken, budget>>
allVars == <<repoVars, chainVars, handleVars, stopper, faultVars>>

\* The operationIds of this system.  A client makes one per submit, promotion
\* or deletion; an item is promoted at most once to a Run and deleted at most
\* once, so the pair identifies it.
OperationIds ==
  ({"enqueue", "cancel"} \X Items) \cup ({"promote"} \X Items \X Runs)
  \cup ({"start"} \X Runs)
  \cup ({"terminal"} \X Runs \X (StopReasons \cup {"failure"}))
  \cup ({"chain"} \X (1 .. MaxChains) \X StopReasons)

Repo == INSTANCE SessionStore WITH Ops <- OperationIds

None == "none"
Pending == Repo!Pending
SteersFor(r) == Repo!SteersFor(r)

ChainPlaces == {"idle", "unpause", "load", "register", "begin", "running", "finish",
                "check", "pause", "report", "unregister", "decide", "close", "resume"}
Phases == {"accepting_commands", "closing", "stopping", "terminal"}

StopCalls ==
  [at : {None, "lock", "check", "pause"}, runId : Runs \cup {NoRun},
   chain : 0 .. MaxChains, reason : StopReasons \cup {None}]
Budgets == [stops : 0 .. MaxStops, crashes : 0 .. MaxCrashes, faults : 0 .. MaxFaults]

CoordinatorTypeOK ==
  /\ Repo!TypeOK
  /\ pc \in ChainPlaces
  /\ run \in Runs \cup {NoRun}
  /\ prestarted \in BOOLEAN
  /\ chainNo \in 0 .. MaxChains
  /\ chainStop \in StopReasons \cup {None}
  /\ result \in Repo!Terminal \cup {None}
  /\ phase \in Phases
  /\ stoppedFor \in StopReasons \cup {None}
  /\ registered \in BOOLEAN
  /\ waiting \in BOOLEAN
  /\ leaked \in [runId : Runs \cup {NoRun}, open : BOOLEAN]
  /\ stopper \in StopCalls
  /\ unrequeued \subseteq Runs /\ forsaken \subseteq Runs
  /\ budget \in Budgets

NoStop == [at |-> None, runId |-> NoRun, chain |-> 0, reason |-> None]
NoLeak == [runId |-> NoRun, open |-> FALSE]

\* A stop with a handle works inside withSessionLock; resume claims inside it.
LockFree ==
  /\ pc # "resume"
  /\ stopper.at \in {"check", "pause"} => stopper.runId = NoRun

NoChain ==
  /\ pc' = "idle" /\ run' = NoRun /\ prestarted' = FALSE
  /\ chainStop' = None /\ result' = None

NoHandle ==
  /\ phase' = "terminal" /\ stoppedFor' = None
  /\ registered' = FALSE /\ waiting' = FALSE

CoordinatorInit ==
  /\ Repo!Init
  /\ pc = "idle" /\ run = NoRun /\ prestarted = FALSE
  /\ chainNo = 0 /\ chainStop = None /\ result = None
  /\ phase = "terminal" /\ stoppedFor = None /\ registered = FALSE /\ waiting = FALSE
  /\ stopper = NoStop /\ leaked = NoLeak /\ unrequeued = {} /\ forsaken = {}
  /\ budget = [stops |-> 0, crashes |-> 0, faults |-> 0]

-------------------------------------------------------------------------------
(* Repository calls that may have nothing to commit *)

\* Mutant: setQueuePaused without its replay check.
SetPausedAgain(paused, op) ==
  IF queuePaused = paused
  THEN UNCHANGED repoVars
  ELSE /\ queuePaused' = paused
       /\ revision' = revision + 1
       /\ UNCHANGED <<status, delivery, targetRunId, consumedRunId, position, activeTaskId,
                      runReports, messages, operations, activeRuns, known, opened>>

SetPaused(paused, op) ==
  IF queuePaused = paused \/ ~Repo!Unused(op)
  THEN UNCHANGED repoVars
  ELSE Repo!SetQueuePaused(paused, op)

Requeue(r) ==
  IF SteersFor(r) = {} THEN UNCHANGED repoVars ELSE Repo!RequeueSteers(r)

\* Run ids that nothing has named so far (a new UUID).  A chain starts only if
\* enough are left for every item that may still wait for a Run.
Named(r) == \E o \in operations : o.op[1] \in {"start", "terminal"} /\ o.op[2] = r
Fresh == {r \in Runs \ (Repo!Started \cup {run}) : ~Named(r)}
Unsettled == {i \in Items : status[i] \in {"absent", "queued"}}

-------------------------------------------------------------------------------
(* start and resume *)

\* start: the route has loaded the Session; a second chain is refused.
Start(r) ==
  /\ pc = "idle" /\ opened /\ LockFree
  /\ chainNo < MaxChains /\ r \in Fresh /\ Cardinality(Fresh) > Cardinality(Unsettled)
  /\ pc' = "unpause" /\ run' = r /\ prestarted' = FALSE
  /\ chainNo' = chainNo + 1 /\ chainStop' = None /\ result' = None
  /\ UNCHANGED <<repoVars, handleVars, stopper, faultVars>>

\* The new prompt lifts a pause, outside the lock.
Unpause ==
  /\ pc = "unpause"
  /\ SetPaused(FALSE, <<"start", run>>)
  /\ pc' = "load"
  /\ UNCHANGED <<run, prestarted, chainNo, chainStop, result, handleVars, stopper, faultVars>>

\* resume: the chain is created, loadSession and resolveEnvironment are awaited
\* and the item is claimed, all under the lock; a second handle is refused.
Resume ==
  /\ pc = "idle" /\ opened /\ LockFree /\ leaked = NoLeak
  /\ chainNo < MaxChains /\ Cardinality(Fresh) >= Cardinality(Unsettled)
  /\ pc' = "resume"
  /\ chainNo' = chainNo + 1 /\ chainStop' = None /\ result' = None
  /\ UNCHANGED <<repoVars, run, prestarted, handleVars, stopper, faultVars>>

\* beginRunFromQueue of resume and of the chain loop; it throws when another
\* Run is active and returns null when no item waits for the next Run.
Claim ==
  IF activeTaskId = NoRun /\ Repo!NextRunItems # {}
  THEN \E i \in Items, r \in Fresh :
         /\ Repo!BeginRunFromQueue(i, r)
         /\ run' = r /\ prestarted' = TRUE /\ pc' = "load"
  ELSE pc' = "close" /\ UNCHANGED <<repoVars, run, prestarted>>

ResumeClaims ==
  /\ pc = "resume"
  /\ Claim
  /\ UNCHANGED <<chainNo, chainStop, result, handleVars, stopper, faultVars>>

-------------------------------------------------------------------------------
(* executeChain and runTask *)

\* loadSession and resolveEnvironment have returned: the handle is made, already
\* stopping when the chain was stopped before.
CreateHandle ==
  /\ pc = "load"
  /\ phase' = IF chainStop = None THEN "accepting_commands" ELSE "stopping"
  /\ stoppedFor' = chainStop
  /\ pc' = "register" /\ result' = None
  /\ UNCHANGED <<repoVars, run, prestarted, chainNo, chainStop, registered, waiting, stopper, faultVars>>

Register ==
  /\ pc = "register" /\ LockFree /\ leaked = NoLeak
  /\ registered' = TRUE
  /\ pc' = "begin"
  /\ UNCHANGED <<repoVars, run, prestarted, chainNo, chainStop, result, phase, stoppedFor, waiting,
                 stopper, faultVars>>

\* register throws while a handle of the Session is left in activeBySessionId.
RegisterRefused ==
  /\ pc = "register" /\ LockFree /\ leaked # NoLeak
  /\ pc' = "close"
  /\ UNCHANGED <<repoVars, run, prestarted, chainNo, chainStop, result, handleVars, stopper, faultVars>>

Begin ==
  /\ pc = "begin"
  /\ IF prestarted THEN UNCHANGED repoVars ELSE Repo!BeginRun(run)
  /\ pc' = "running"
  /\ UNCHANGED <<run, prestarted, chainNo, chainStop, result, handleVars, stopper, faultVars>>

\* runAgent returns: beforeFinish is next.
RunEnds(s) ==
  /\ pc = "running" /\ ~waiting
  /\ result' = s /\ pc' = "finish"
  /\ UNCHANGED <<repoVars, run, prestarted, chainNo, chainStop, stoppedFor, registered, waiting,
                 stopper, faultVars>>

\* atSafeBoundary consumes the first Steer of this Run.
BoundaryConsumes ==
  /\ pc = "running" /\ ~waiting /\ LockFree
  /\ phase \notin {"stopping", "terminal"}
  /\ \E i \in Items : Repo!ConsumeSteer(i, run)
  /\ UNCHANGED <<chainVars, handleVars, stopper, faultVars>>

\* atSafeBoundary without a model turn left: the gate closes, the Steers wait for
\* the next Run and the executor goes on to its limit.
BoundaryExhausts ==
  /\ pc = "running" /\ ~waiting /\ LockFree
  /\ phase \notin {"stopping", "terminal"}
  /\ Requeue(run)
  /\ phase' = "closing"
  /\ UNCHANGED <<chainVars, stoppedFor, registered, waiting, stopper, faultVars>>

\* Mutant: the gate stays open at the natural end.
BoundaryFinishesOpen ==
  /\ LockFree
  /\ phase \notin {"stopping", "terminal"}
  /\ SteersFor(run) = {}
  /\ UNCHANGED phase
  /\ RunEnds("completed")

\* atSafeBoundary at a natural end without a Steer: the gate closes for good.
BoundaryFinishes ==
  /\ LockFree
  /\ phase \notin {"stopping", "terminal"}
  /\ SteersFor(run) = {}
  /\ phase' = "closing"
  /\ RunEnds("completed")

\* atSafeBoundary answers stop, or the executor sees the aborted signal.
RunAborts ==
  /\ stoppedFor # None
  /\ UNCHANGED phase
  /\ RunEnds("aborted")

\* A model, tool or limit failure ends the Run between two boundaries.
RunFails ==
  /\ \E s \in {"failed", "limited"} : RunEnds(s)
  /\ UNCHANGED phase

\* waitForSteer of a blocking wait_agent: registers only if no Steer is pending.
WaitForSteer ==
  /\ pc = "running" /\ ~waiting /\ LockFree
  /\ stoppedFor = None /\ phase = "accepting_commands"
  /\ SteersFor(run) = {}
  /\ waiting' = TRUE
  /\ UNCHANGED <<repoVars, chainVars, phase, stoppedFor, registered, stopper, faultVars>>

\* The agents it waits for settle, or the wait times out.
WaitOver ==
  /\ waiting
  /\ waiting' = FALSE
  /\ UNCHANGED <<repoVars, chainVars, phase, stoppedFor, registered, stopper, faultVars>>

\* A Run that ended badly without a stop requeues before its report.
EndsUnasked == result # "completed" /\ stoppedFor = None
Reported == runReports[run] # "none"

\* Mutant: a stopped Run returns before finishRun.
BeforeFinishSkipsReport ==
  /\ pc = "finish"
  /\ IF EndsUnasked
     THEN Requeue(run) /\ pc' = "check"
     ELSE pc' = (IF stoppedFor # None THEN "unregister" ELSE "report") /\ UNCHANGED repoVars
  /\ UNCHANGED <<run, prestarted, chainNo, chainStop, result, handleVars, stopper, faultVars>>

\* beforeFinish.  requeueAndPause is called here before the report is written and
\* by the chain loop after it: three repository calls outside the lock, of which
\* requeueSteers is made in this step.
BeforeFinish ==
  /\ pc = "finish"
  /\ IF EndsUnasked
     THEN Requeue(run) /\ pc' = "check"
     ELSE UNCHANGED repoVars /\ pc' = "report"
  /\ UNCHANGED <<run, prestarted, chainNo, chainStop, result, handleVars, stopper, faultVars>>

\* Mutant: the chain loop continues where it should return.
CheckCallLoops ==
  /\ pc = "check"
  /\ pc' = IF Pending # {} THEN "pause" ELSE IF Reported THEN "decide" ELSE "report"
  /\ UNCHANGED <<repoVars, run, prestarted, chainNo, chainStop, result, handleVars, stopper, faultVars>>

CheckCall ==
  /\ pc = "check"
  /\ pc' = IF Pending # {} THEN "pause" ELSE IF Reported THEN "close" ELSE "report"
  /\ UNCHANGED <<repoVars, run, prestarted, chainNo, chainStop, result, handleVars, stopper, faultVars>>

PauseCall ==
  /\ pc = "pause"
  /\ SetPaused(TRUE, <<"terminal", run, IF Reported THEN chainStop ELSE "failure">>)
  /\ pc' = IF Reported THEN "close" ELSE "report"
  /\ UNCHANGED <<run, prestarted, chainNo, chainStop, result, handleVars, stopper, faultVars>>

\* finishRun
Report ==
  /\ pc = "report"
  /\ Repo!FinishRun(run, result)
  /\ pc' = "unregister"
  /\ UNCHANGED <<run, prestarted, chainNo, chainStop, result, handleVars, stopper, faultVars>>

\* beginRun refuses while another Run is active: runTask throws, the finally
\* still unregisters.
BeginRefused ==
  /\ pc = "begin" /\ ~prestarted /\ activeTaskId # NoRun
  /\ pc' = "unregister"
  /\ UNCHANGED <<repoVars, run, prestarted, chainNo, chainStop, result, handleVars, stopper, faultVars>>

Unregister ==
  /\ pc = "unregister" /\ LockFree
  /\ registered' = FALSE /\ phase' = "terminal" /\ waiting' = FALSE
  /\ pc' = IF result = None THEN "close" ELSE "decide"
  /\ UNCHANGED <<repoVars, run, prestarted, chainNo, chainStop, result, stoppedFor, stopper, faultVars>>

\* The tests that follow runTask and the call that follows them: end the chain,
\* requeue and pause for a stop the handle has not seen, or claim the next item.
Decide ==
  /\ pc = "decide"
  /\ \/ /\ stoppedFor # None \/ (chainStop = None /\ result # "completed")
        /\ pc' = "close"
        /\ UNCHANGED <<repoVars, run, prestarted>>
     \/ /\ stoppedFor = None /\ chainStop # None
        /\ Requeue(run)
        /\ pc' = "check"
        /\ UNCHANGED <<run, prestarted>>
     \/ /\ stoppedFor = None /\ chainStop = None /\ result = "completed"
        /\ Claim
  /\ UNCHANGED <<chainNo, chainStop, result, handleVars, stopper, faultVars>>

\* unregisterChain
Close ==
  /\ pc = "close" /\ LockFree
  /\ NoChain /\ NoHandle
  /\ UNCHANGED <<repoVars, chainNo, stopper, faultVars>>

-------------------------------------------------------------------------------
(* Calls that throw *)

AnotherFault ==
  /\ budget.faults < MaxFaults
  /\ budget' = [budget EXCEPT !.faults = @ + 1]

\* Where the chain awaits the repository or resolveEnvironment.
ChainCalls ==
  \/ pc \in {"unpause", "resume", "load", "begin", "check", "pause", "report"}
  \/ pc = "finish" /\ EndsUnasked
  \/ pc = "decide" /\ stoppedFor = None /\ (chainStop # None \/ result = "completed")

\* runTask throws to its finally, the rest of the chain to unregisterChain; a Run
\* that had begun stays open.
ChainThrows ==
  /\ ChainCalls
  /\ AnotherFault
  /\ pc' = IF registered THEN "unregister" ELSE "close"
  /\ result' = None
  /\ forsaken' = forsaken \cup ({run} \cap {activeTaskId} \cap Runs)
  /\ UNCHANGED <<repoVars, run, prestarted, chainNo, chainStop, handleVars, stopper, leaked, unrequeued>>

\* The getQueue between register and runTask throws: no finally unregisters the
\* handle, which stays until the process ends.
HandleLeaks ==
  /\ pc = "register" /\ LockFree /\ leaked = NoLeak /\ prestarted
  /\ AnotherFault
  /\ leaked' = [runId |-> run, open |-> phase = "accepting_commands"]
  /\ forsaken' = forsaken \cup {run}
  /\ pc' = "close"
  /\ UNCHANGED <<repoVars, run, prestarted, chainNo, chainStop, result, handleVars, stopper, unrequeued>>

\* requeueSteers of a safe boundary throws into the executor.
BoundaryThrows ==
  /\ LockFree
  /\ phase \notin {"stopping", "terminal"}
  /\ AnotherFault
  /\ phase' = "closing" /\ result' = "failed" /\ pc' = "finish"
  /\ pc = "running" /\ ~waiting
  /\ UNCHANGED <<repoVars, run, prestarted, chainNo, chainStop, stoppedFor, registered, waiting, stopper,
                 leaked, unrequeued, forsaken>>

-------------------------------------------------------------------------------
(* Client requests: one repository commit under the lock *)

Accepting == registered /\ phase = "accepting_commands"

\* acceptingSteerTarget: the Run of the handle in activeBySessionId.
SteerTarget == IF Accepting THEN run ELSE IF leaked.open THEN leaked.runId ELSE NoRun

\* submitDuringRun.  Without an accepting handle, or with another expectedRunId,
\* a Steer is queued for the next Run.  Waiters are woken by an accepted Steer.
Submit(i, d) ==
  /\ LockFree /\ opened
  /\ Repo!EnqueueQueueItem(i, d, IF d = "steer" THEN SteerTarget ELSE NoRun, <<"enqueue", i>>)
  /\ waiting' = (waiting /\ d # "steer")
  /\ UNCHANGED <<chainVars, phase, stoppedFor, registered, stopper, faultVars>>

\* Mutant: a promotion does not wake waitForSteer.
PromoteSilently(i) ==
  /\ LockFree /\ opened
  /\ Repo!PromoteQueueItem(i, SteerTarget, <<"promote", i, SteerTarget>>)
  /\ UNCHANGED <<chainVars, handleVars, stopper, faultVars>>

\* mutateQueue, promote_to_steer
Promote(i) ==
  /\ LockFree /\ opened
  /\ Repo!PromoteQueueItem(i, SteerTarget, <<"promote", i, SteerTarget>>)
  /\ waiting' = FALSE
  /\ UNCHANGED <<chainVars, phase, stoppedFor, registered, stopper, faultVars>>

\* mutateQueue, cancel
Cancel(i) ==
  /\ LockFree /\ opened
  /\ Repo!CancelQueueItem(i, <<"cancel", i>>)
  /\ UNCHANGED <<chainVars, handleVars, stopper, faultVars>>

-------------------------------------------------------------------------------
(* stop *)

HandleRun == IF registered THEN run ELSE leaked.runId

\* The synchronous prefix of stop: the chain is marked, the handle captured.
StopArrives(reason) ==
  /\ pc # "idle" \/ HandleRun # NoRun
  /\ stopper.at = None /\ budget.stops < MaxStops
  /\ budget' = [budget EXCEPT !.stops = @ + 1]
  /\ chainStop' = IF pc = "idle" THEN None ELSE reason
  /\ stopper' = [at |-> IF HandleRun = NoRun THEN "check" ELSE "lock", runId |-> HandleRun,
                 chain |-> chainNo, reason |-> reason]
  /\ UNCHANGED <<repoVars, pc, run, prestarted, chainNo, result, handleVars, leaked, unrequeued, forsaken>>

\* The handle is still there: close its gate and abort the executor.
StopMarks ==
  /\ stopper.at = "lock" /\ LockFree
  /\ \/ /\ registered /\ run = stopper.runId
        /\ phase' = "stopping" /\ stoppedFor' = stopper.reason /\ waiting' = FALSE
        /\ UNCHANGED leaked
     \/ /\ leaked.runId = stopper.runId
        /\ leaked' = [leaked EXCEPT !.open = FALSE]
        /\ UNCHANGED <<phase, stoppedFor, waiting>>
  /\ UNCHANGED <<chainVars, registered, forsaken>>

\* requeueSteers is called in the step that marks the handle.
StopTakesLock ==
  /\ StopMarks
  /\ Requeue(stopper.runId)
  /\ unrequeued' = unrequeued \ {stopper.runId}
  /\ stopper' = [stopper EXCEPT !.at = "check"]
  /\ UNCHANGED budget

\* The Run has ended before the lock was free.
StopMisses ==
  /\ stopper.at = "lock" /\ LockFree
  /\ ~(registered /\ run = stopper.runId) /\ leaked.runId # stopper.runId
  /\ stopper' = NoStop
  /\ UNCHANGED <<repoVars, chainVars, handleVars, faultVars>>

\* requeueSteers of a stop throws: the handle is marked, its Steers are not
\* requeued, and beforeFinish and the chain loop leave them to the stop.
StopThrowsAtRequeue ==
  /\ StopMarks
  /\ AnotherFault
  /\ unrequeued' = unrequeued \cup {stopper.runId}
  /\ stopper' = NoStop
  /\ UNCHANGED repoVars

\* getQueue or setQueuePaused of a stop throws.
StopThrows ==
  /\ stopper.at \in {"check", "pause"}
  /\ AnotherFault
  /\ stopper' = NoStop
  /\ UNCHANGED <<repoVars, chainVars, handleVars, leaked, unrequeued, forsaken>>

StopChecks ==
  /\ stopper.at = "check"
  /\ stopper' = IF Pending # {} THEN [stopper EXCEPT !.at = "pause"] ELSE NoStop
  /\ UNCHANGED <<repoVars, chainVars, handleVars, faultVars>>

\* Mutant: every stop pauses under the operationId of its chain.
StopPausesChain ==
  /\ stopper.at = "pause"
  /\ SetPaused(TRUE, <<"chain", stopper.chain, stopper.reason>>)
  /\ stopper' = NoStop
  /\ UNCHANGED <<chainVars, handleVars, faultVars>>

StopPauses ==
  /\ stopper.at = "pause"
  /\ SetPaused(TRUE, IF stopper.runId = NoRun
                     THEN <<"chain", stopper.chain, stopper.reason>>
                     ELSE <<"terminal", stopper.runId, stopper.reason>>)
  /\ stopper' = NoStop
  /\ UNCHANGED <<chainVars, handleVars, faultVars>>

-------------------------------------------------------------------------------
(* The process *)

Crash ==
  /\ budget.crashes < MaxCrashes
  /\ budget' = [budget EXCEPT !.crashes = @ + 1]
  /\ Repo!Crash
  /\ NoChain /\ NoHandle
  /\ stopper' = NoStop /\ leaked' = NoLeak /\ forsaken' = {}
  /\ UNCHANGED <<chainNo, unrequeued>>

\* The first request after a restart opens the Session.
Open ==
  /\ ~opened
  /\ Repo!LoadSession
  /\ UNCHANGED <<chainVars, handleVars, stopper, faultVars>>

\* The load throws, or the first request repeats the one that made the Session.
OpensLater ==
  /\ ~opened
  /\ \/ Repo!LoadFails /\ AnotherFault
     \/ Repo!ReplayMaterializeRun /\ UNCHANGED budget
  /\ UNCHANGED <<chainVars, handleVars, stopper, leaked, unrequeued, forsaken>>

ChainStep ==
  \/ Unpause \/ ResumeClaims \/ CreateHandle \/ Register \/ RegisterRefused \/ Begin \/ BeginRefused
  \/ BeforeFinish \/ CheckCall \/ PauseCall \/ Report \/ Unregister \/ Decide \/ Close

Boundary == BoundaryConsumes \/ BoundaryFinishes \/ RunAborts

FailingCall ==
  ChainThrows \/ HandleLeaks \/ BoundaryThrows \/ StopThrowsAtRequeue \/ StopThrows \/ OpensLater

ClientStep ==
  \/ \E r \in Runs : Start(r)
  \/ Resume
  \/ \E i \in Items : Promote(i) \/ Cancel(i) \/ \E d \in Repo!Delivery : Submit(i, d)
  \/ \E reason \in StopReasons : StopArrives(reason)

StopStep == StopTakesLock \/ StopMisses \/ StopChecks \/ StopPauses

CoordinatorNext ==
  \/ ChainStep \/ Boundary \/ BoundaryExhausts \/ RunFails \/ WaitForSteer \/ WaitOver
  \/ StopStep \/ ClientStep \/ FailingCall \/ Crash \/ Open

CoordinatorSpec == CoordinatorInit /\ [][CoordinatorNext]_allVars

\* Awaits of the chain and of stop settle; the executor keeps reaching safe
\* boundaries (a wait ends, the model stops calling tools); someone opens the
\* Session after a restart.
Fairness ==
  /\ WF_allVars(ChainStep) /\ WF_allVars(StopStep)
  /\ WF_allVars(WaitOver) /\ SF_allVars(Boundary)
  /\ WF_allVars(Open)

FairSpec == CoordinatorSpec /\ Fairness

-------------------------------------------------------------------------------
(* Properties *)

\* waitForSteer never sleeps through a Steer, a stop or the end of its Run: the
\* check of the Queue and the registration are one step under the lock.
NoLostWakeup ==
  waiting => SteersFor(run) = {} /\ registered /\ stoppedFor = None

\* A Run that ended by itself or by a stop has no Steer left once its report is
\* durable, also after a crash: a promotion or submit racing with the last
\* boundary or with the stop becomes a Steer it takes, or waits for the next Run.
\* Only a stop whose requeueSteers threw, and that no later stop of the Run made
\* good, leaves them: nothing else requeues for a handle that is marked stopped.
GracefulEndStrandsNoSteer ==
  \A r \in Runs \ unrequeued : runReports[r] \in {"completed", "aborted"} => SteersFor(r) = {}

\* When a stop call that found the Run returns without throwing, the Queue is
\* paused or empty, also when an earlier stop of the same chain was overtaken by a
\* claim, or threw.  A handle that was left behind is stopped in the name of a Run
\* whose chain is gone, and is not spoken of.
StopPausesTheQueue ==
  [][/\ stopper.at \in {"check", "pause"} /\ stopper'.at = None
     /\ stopper.runId \notin {NoRun, leaked.runId}
     /\ UNCHANGED budget
     => Pending' = {} \/ queuePaused']_allVars

\* Every step of the coordinator is a call the repository allows or no call at
\* all: what SessionStore guarantees holds in this system too.
ImplementsStore == Repo!Spec

\* A chain ends and a stop call returns or throws: stop, failure, waiting or a
\* thrown call never keep either of them at work for ever.
ChainsEnd ==
  /\ pc # "idle" ~> pc = "idle"
  /\ stopper.at # None ~> stopper.at = None

\* A started Run gets its RunReport, from its chain or from the recovery that
\* follows a restart.  A Run whose chain threw before the report waits for that
\* restart: nothing closes it while the process lives.
RunsAreReported ==
  \A r \in Runs : activeTaskId = r ~> runReports[r] # "none" \/ r \in forsaken

\* Violated: "unconsumed Steers go back to nextRun when their Run ends
\* abnormally" (queue-steer.md, invariant 12).
NoSteerOutlivesItsRun ==
  pc = "idle" /\ stopper.at = None => \A i \in Pending : delivery[i] = "next_run"

\* Violated: "the Queue chain is marked paused; no next Run starts by itself"
\* (queue-steer.md 15.2, steps 6 and 7): the pause of a stop that has returned
\* outlasts the claim of the chain it stopped, which resume makes after two awaits.
ClaimKeepsThePauseOfAStop ==
  [][pc = "resume" /\ chainStop # None /\ stopper.at = None /\ queuePaused
       => queuePaused']_allVars

\* Violated: "stops the current Run, pauses the Queue" (queue-steer.md 2.3, row
\* running): no Run goes on to complete after a stop call has returned.
NoRunCompletesAfterStop ==
  [][chainStop # None /\ stopper.at = None /\ pc = "running"
       => result' # "completed"]_allVars
===============================================================================
