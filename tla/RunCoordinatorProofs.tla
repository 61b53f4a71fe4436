------------------------- MODULE RunCoordinatorProofs -------------------------
(* Proofs about RunCoordinator, for every set of Items, Runs and StopReasons    *)
(* and every bound.                                                             *)
EXTENDS RunCoordinator, SequenceTheorems, TLAPS

\* The theorems of SessionStore, for the operationIds of this system.
Ledger == INSTANCE SessionStoreProofs WITH Ops <- OperationIds

-------------------------------------------------------------------------------
(* The inductive invariant *)

\* Where the handle of the Run exists; check and pause are reached with and
\* without it.
HandlePlaces == {"begin", "running", "finish", "check", "pause", "report", "unregister"}
RequeuePlaces == {"check", "pause"}
EarlyPlaces == {"load", "register"}
OpenPlaces == {"begin", "running", "finish", "check", "pause"}

\* A stop call past its wait for the lock, for a handle it found.
StopInside == stopper.at \in RequeuePlaces /\ stopper.runId # NoRun

\* A chain has its Run and its number, a stop its chain, and both a Session that
\* this process opened.
ChainIsNamed ==
  /\ pc \notin {"idle", "resume", "close"} => run \in Runs
  /\ pc # "idle" => opened /\ chainNo \in 1 .. MaxChains
  /\ stopper.at # None
       => opened /\ stopper.chain \in 1 .. MaxChains /\ stopper.reason \in StopReasons
  /\ stopper.at = "lock" => stopper.runId \in Runs

\* The handle lives from Register to Unregister; a stop that holds the lock keeps
\* it there.
HandleIsPlaced ==
  /\ registered => pc \in HandlePlaces
  /\ pc \in {"begin", "running", "finish", "report", "unregister"} => registered
  /\ waiting => pc = "running"

StopHoldsHandle ==
  StopInside => (registered /\ run = stopper.runId) \/ leaked.runId = stopper.runId

\* While a handle is left behind no other is made: a chain that starts meanwhile
\* is refused before its Run begins.
LeakIsLeft ==
  leaked # NoLeak
  => /\ leaked.runId \in Repo!Started
     /\ opened /\ chainNo \in 1 .. MaxChains
     /\ pc \in {"idle", "close"} \/ (pc \in {"unpause", "load", "register"} /\ ~prestarted)

\* The Run of the chain is the active one until its report, which is written
\* before the handle goes; without a handle, requeueAndPause is the chain's.
RunIsDriven ==
  /\ pc \in {"running", "finish", "report"} => activeTaskId = run
  /\ pc \in RequeuePlaces /\ registered => activeTaskId = run
  /\ pc \in RequeuePlaces /\ ~registered => Reported /\ chainStop # None
  /\ pc \in {"load", "register", "begin"} /\ prestarted => activeTaskId = run
  /\ pc \in {"unpause", "load", "register", "begin"} /\ ~prestarted => run \notin Repo!Started
  /\ pc = "unpause" => ~prestarted
  /\ pc = "unregister" /\ result # None => Reported
  /\ pc = "decide" => Reported

\* What result.status says of the way the Run ended.
ResultIsEarned ==
  /\ pc \in {"register", "begin", "running"} => result = None
  /\ pc \in {"finish", "report"} => result \in Repo!Terminal
  /\ pc \in RequeuePlaces /\ registered => result \in {"failed", "limited"}
  /\ pc \in {"finish", "report"} /\ result = "aborted" => stoppedFor # None
  /\ pc \in {"finish", "report"} /\ result = "completed"
       => phase # "accepting_commands" /\ SteersFor(run) = {}

\* A stopped handle takes no more Steers; the stop has requeued those it had in
\* the step that marked it, unless that call threw.
StopClosesGate == registered \/ pc = "register" => (stoppedFor # None => phase = "stopping")
EarlyRunIsUnsteered == pc \in EarlyPlaces => SteersFor(run) = {}
StopRequeuesFirst ==
  /\ registered /\ stoppedFor # None
  /\ pc \in OpenPlaces \/ (pc = "report" /\ result = "aborted")
  => SteersFor(run) = {} \/ run \in unrequeued

\* Steers are aimed at Runs that have begun.
SteersNameStartedRuns == \A r \in Runs \ Repo!Started : SteersFor(r) = {}

\* A pause asked in the name of the Run was written and stands until the chain
\* claims or starts the next Run.
PausedInTheNameOf(r) == \E o \in operations : o.op[1] = "terminal" /\ o.op[2] = r
PauseStands ==
  /\ pc = "unpause" => ~PausedInTheNameOf(run)
  /\ pc \notin {"idle", "resume", "close", "unpause"}
       => queuePaused \/ ~PausedInTheNameOf(run)

Control ==
  /\ CoordinatorTypeOK
  /\ ChainIsNamed /\ HandleIsPlaced /\ StopHoldsHandle /\ LeakIsLeft /\ RunIsDriven
  /\ ResultIsEarned /\ StopClosesGate /\ EarlyRunIsUnsteered /\ StopRequeuesFirst
  /\ SteersNameStartedRuns /\ PauseStands
  /\ NoLostWakeup /\ GracefulEndStrandsNoSteer

CoordinatorIInv == Ledger!IInv /\ Control

-------------------------------------------------------------------------------
(* The two instances of SessionStore are one *)

\* The assumptions of this module are those of the instance.
LEMMA LedgerAssumptions == Ledger!SentinelsAreFresh /\ Ledger!ItemsAreFinite
BY SentinelsAreFresh, ItemsAreFinite
   DEF Ledger!SentinelsAreFresh, Ledger!ItemsAreFinite, IsFiniteSet, Ledger!IsFiniteSet

\* What the coordinator's proofs use of the repository's invariant.
LEMMA LedgerGives ==
  ASSUME Ledger!IInv
  PROVE  /\ Repo!TypeOK
         /\ \A r \in Runs : runReports[r] # "none" <=> r \in Repo!Started \ {activeTaskId}
         /\ activeTaskId # NoRun => activeTaskId \in Repo!Started
         /\ Repo!Started \subseteq Runs
         /\ ~opened => activeRuns = {}
<1>1. Repo!TypeOK
  BY DEF Ledger!IInv, Ledger!TypeOK, Repo!TypeOK, Ledger!Status, Repo!Status, Ledger!Delivery,
         Repo!Delivery, Ledger!Terminal, Repo!Terminal, Ledger!Operation, Repo!Operation
<1>2. \A r \in Runs : runReports[r] # "none" <=> r \in Repo!Started \ {activeTaskId}
  BY DEF Ledger!IInv, Ledger!RunsSettleOnce, Ledger!Started, Repo!Started
<1>3. messages \in Seq([runId : Runs, itemId : Items \cup {NoItem}])
  BY <1>1 DEF Repo!TypeOK
<1>4. Repo!Started \subseteq Runs
  <2>1. \A k \in DOMAIN messages : messages[k] \in [runId : Runs, itemId : Items \cup {NoItem}]
    BY <1>3, ElementOfSeq, LenProperties
  <2> QED BY <2>1 DEF Repo!Started
<1>5. activeTaskId # NoRun => activeTaskId \in Repo!Started
  <2>1. SUFFICES ASSUME activeTaskId # NoRun PROVE activeTaskId \in Repo!Started
    OBVIOUS
  <2>2. messages # <<>> /\ messages[Len(messages)].runId = activeTaskId
    BY <2>1 DEF Ledger!IInv, Ledger!RunsDoNotInterleave
  <2>3. Len(messages) \in DOMAIN messages
    BY <1>3, <2>2
  <2> QED BY <2>2, <2>3 DEF Repo!Started
<1> QED BY <1>1, <1>2, <1>4, <1>5 DEF Ledger!IInv, Ledger!UnopenedIsUndriven

\* A call of one instance is the same call of the other.
LEMMA SameOrders == Repo!Orders = Ledger!Orders
BY DEF Repo!Orders, Ledger!Orders, Repo!Injection, Ledger!Injection, Repo!Cardinality,
       Ledger!Cardinality, Repo!IsInjective, Ledger!IsInjective

\* The repository that RunCoordinator drives takes the steps of the proved one.
LEMMA SameNext == [Repo!Next]_(Repo!vars) <=> [Ledger!Next]_(Ledger!vars)
BY SameOrders DEF Repo!Next, Ledger!Next, Repo!vars, Ledger!vars, Repo!queueVars, Ledger!queueVars,
       Repo!runVars, Ledger!runVars, Repo!volatile, Ledger!volatile, Repo!RunStep, Ledger!RunStep,
       Repo!UserMutation, Ledger!UserMutation, Repo!LoadSession, Ledger!LoadSession,
       Repo!LoadFails, Ledger!LoadFails, Repo!ReplayMaterializeRun, Ledger!ReplayMaterializeRun,
       Repo!NothingToRecover, Ledger!NothingToRecover,
       Repo!Crash, Ledger!Crash, Repo!ReorderQueueItems, Ledger!ReorderQueueItems,
       Repo!EnqueueQueueItem, Ledger!EnqueueQueueItem,
       Repo!PromoteQueueItem, Ledger!PromoteQueueItem, Repo!CancelQueueItem, Ledger!CancelQueueItem,
       Repo!SetQueuePaused, Ledger!SetQueuePaused, Repo!BeginRun, Ledger!BeginRun,
       Repo!RequeueSteers, Ledger!RequeueSteers, Repo!Requeue, Ledger!Requeue,
       Repo!BeginRunFromQueue, Ledger!BeginRunFromQueue, Repo!ConsumeSteer, Ledger!ConsumeSteer,
       Repo!FinishRun, Ledger!FinishRun, Repo!RecoverInterruptedRun, Ledger!RecoverInterruptedRun,
       Repo!PauseRecoveredQueue, Ledger!PauseRecoveredQueue, Repo!LoadUnchanged, Ledger!LoadUnchanged,
       Repo!Pending, Ledger!Pending, Repo!SteersFor, Ledger!SteersFor, Repo!NextRunItems,
       Ledger!NextRunItems, Repo!First, Ledger!First, Repo!NextPosition, Ledger!NextPosition, Repo!Max, Ledger!Max,
       Repo!Started, Ledger!Started, Repo!Unused, Ledger!Unused, Repo!Log, Ledger!Log,
       Repo!Commit, Ledger!Commit, Repo!Delivery, Ledger!Delivery, Repo!Terminal, Ledger!Terminal

-------------------------------------------------------------------------------
(* Every step is a call the repository allows, or no call *)

\* The operationIds that the coordinator's calls carry.
LEMMA OperationsAreNamed ==
  /\ \A i \in Items : <<"enqueue", i>> \in OperationIds /\ <<"cancel", i>> \in OperationIds
  /\ \A i \in Items, r \in Runs : <<"promote", i, r>> \in OperationIds
  /\ \A r \in Runs : <<"start", r>> \in OperationIds
  /\ \A r \in Runs, s \in StopReasons \cup {"failure"} : <<"terminal", r, s>> \in OperationIds
  /\ \A c \in 1 .. MaxChains, s \in StopReasons : <<"chain", c, s>> \in OperationIds
BY DEF OperationIds

\* A step that leaves the variables of the repository alone is a stutter of it.
LEMMA QuietStep == ASSUME UNCHANGED repoVars PROVE UNCHANGED Repo!vars
BY DEF repoVars, Repo!vars, Repo!queueVars, Repo!runVars, Repo!volatile

\* setQueuePaused, called with an operationId of the system.
LEMMA PauseCalls ==
  ASSUME opened, NEW p \in BOOLEAN, NEW op \in OperationIds, SetPaused(p, op)
  PROVE  [Repo!Next]_(Repo!vars)
BY QuietStep DEF SetPaused, Repo!Next, Repo!UserMutation

\* requeueSteers of a Run.
LEMMA RequeueCalls ==
  ASSUME opened, NEW r \in Runs, Requeue(r)
  PROVE  [Repo!Next]_(Repo!vars)
BY QuietStep DEF Requeue, Repo!Next, Repo!RunStep

\* The claim of resume and of the chain loop, and the chain loop without it.
Claims ==
  /\ pc \in {"resume", "decide"}
  /\ Claim
  /\ UNCHANGED <<chainNo, chainStop, result, handleVars, stopper, faultVars>>

Settles ==
  /\ pc = "decide"
  /\ \/ pc' = "close" /\ UNCHANGED repoVars
     \/ pc' = "check" /\ chainStop # None /\ Requeue(run)
  /\ UNCHANGED <<run, prestarted, chainNo, chainStop, result, handleVars, stopper, faultVars>>

LEMMA ChainSplits == ResumeClaims \/ Decide => Claims \/ Settles
BY DEF ResumeClaims, Decide, Claims, Settles

\* A chain that throws goes to its finally; one that throws without a registered
\* handle ends.
LEMMA ChainFails ==
  ASSUME ChainThrows \/ HandleLeaks
  PROVE  /\ pc' = "close" \/ (pc' = "unregister" /\ registered /\ result' = None)
         /\ UNCHANGED <<repoVars, run, prestarted, chainNo, chainStop, handleVars, stopper, unrequeued>>
BY DEF ChainThrows, HandleLeaks

\* A stop call, whatever it does, leaves the chain where it is.
StopMoves == StopStep \/ StopThrowsAtRequeue \/ StopThrows

LEMMA StopKeepsChain == StopMoves => UNCHANGED <<chainVars, registered>>
BY DEF StopMoves, StopStep, StopTakesLock, StopMarks, StopMisses, StopChecks, StopPauses,
       StopThrowsAtRequeue, StopThrows, handleVars

\* Every step, with the claim apart from the rest of the chain loop and the
\* failing calls beside those they replace.
LEMMA StepsSplit ==
  ASSUME [CoordinatorNext]_allVars
  PROVE  \/ Unpause \/ Claims \/ Settles \/ CreateHandle \/ Register \/ RegisterRefused
         \/ Begin \/ BeginRefused \/ BeforeFinish \/ CheckCall \/ PauseCall \/ Report \/ Unregister
         \/ Close
         \/ BoundaryConsumes \/ BoundaryExhausts \/ BoundaryFinishes \/ BoundaryThrows
         \/ RunAborts \/ RunFails \/ WaitForSteer \/ WaitOver
         \/ ChainThrows \/ HandleLeaks \/ StopMoves
         \/ (\E r \in Runs : Start(r)) \/ Resume
         \/ (\E i \in Items : Promote(i) \/ Cancel(i) \/ \E d \in Repo!Delivery : Submit(i, d))
         \/ (\E reason \in StopReasons : StopArrives(reason))
         \/ Crash \/ Open \/ OpensLater \/ UNCHANGED allVars
BY ChainSplits DEF CoordinatorNext, ChainStep, Boundary, ClientStep, FailingCall, StopMoves

\* The steps that call the repository; the others leave it alone.
LEMMA QuietSteps ==
  ASSUME [CoordinatorNext]_allVars
  PROVE  \/ Unpause \/ Claims \/ Begin \/ PauseCall \/ Report \/ BoundaryConsumes
         \/ (Settles \/ BeforeFinish \/ BoundaryExhausts) /\ Requeue(run)
         \/ StopTakesLock /\ Requeue(stopper.runId)
         \/ \E i \in Items : Promote(i) \/ Cancel(i) \/ \E d \in Repo!Delivery : Submit(i, d)
         \/ StopPauses \/ Crash \/ Open \/ OpensLater
         \/ UNCHANGED repoVars
<1>1. ASSUME \/ CreateHandle \/ Register \/ RegisterRefused \/ BeginRefused \/ CheckCall
             \/ Unregister \/ Close \/ BoundaryFinishes \/ RunAborts \/ RunFails \/ BoundaryThrows
             \/ WaitForSteer \/ WaitOver \/ Resume
             \/ (\E r \in Runs : Start(r)) \/ (\E reason \in StopReasons : StopArrives(reason))
      PROVE  UNCHANGED repoVars
  BY <1>1 DEF CreateHandle, Register, RegisterRefused, BeginRefused, CheckCall, Unregister,
              Close, BoundaryFinishes, RunAborts, RunFails, RunEnds, BoundaryThrows, WaitForSteer,
              WaitOver, Resume, Start, StopArrives
<1>2. UNCHANGED allVars => UNCHANGED repoVars
  BY DEF allVars
<1>3. ASSUME StopMoves
      PROVE  UNCHANGED repoVars \/ (StopTakesLock /\ Requeue(stopper.runId)) \/ StopPauses
  BY <1>3 DEF StopMoves, StopStep, StopTakesLock, StopMisses, StopChecks, StopThrowsAtRequeue, StopThrows
<1>4. ASSUME Settles \/ BeforeFinish \/ BoundaryExhausts PROVE UNCHANGED repoVars \/ Requeue(run)
  BY <1>4 DEF Settles, BeforeFinish, BoundaryExhausts
<1> QED BY <1>1, <1>2, <1>3, <1>4, ChainFails, StepsSplit

\* Every other step of the coordinator is one call of the repository, with an
\* operationId of the system, or leaves the repository alone.
LEMMA StepCalls ==
  ASSUME Ledger!IInv, CoordinatorTypeOK, ChainIsNamed, HandleIsPlaced, LeakIsLeft, RunIsDriven,
         ResultIsEarned, [CoordinatorNext]_allVars
  PROVE  [Repo!Next]_(Repo!vars)
<1>1. CASE Unpause
  <2>1. opened /\ run \in Runs
    BY <1>1 DEF Unpause, ChainIsNamed
  <2> QED BY <1>1, <2>1, PauseCalls, OperationsAreNamed DEF Unpause
<1>2. CASE Claims
  <2>1. opened
    BY <1>2 DEF Claims, ChainIsNamed
  <2> QED BY <1>2, <2>1, QuietStep DEF Claims, Claim, Fresh, Repo!Next, Repo!RunStep
<1>3. CASE Begin
  BY <1>3, QuietStep DEF Begin, ChainIsNamed, Repo!Next, Repo!RunStep
<1>4. CASE (Settles \/ BeforeFinish \/ BoundaryExhausts) /\ Requeue(run)
  <2>1. opened /\ run \in Runs
    BY <1>4 DEF Settles, BeforeFinish, BoundaryExhausts, ChainIsNamed
  <2> QED BY <1>4, <2>1, RequeueCalls
<1>5. CASE PauseCall
  <2>1. opened /\ run \in Runs
    BY <1>5 DEF PauseCall, ChainIsNamed
  <2>2. Reported => chainStop \in StopReasons
    <3>1. SUFFICES ASSUME Reported PROVE chainStop # None
      BY DEF CoordinatorTypeOK
    <3> QED BY <1>5, <2>1, <3>1, LedgerGives DEF PauseCall, RunIsDriven, RequeuePlaces, Reported
  <2> QED BY <1>5, <2>1, <2>2, PauseCalls, OperationsAreNamed DEF PauseCall
<1>6. CASE Report
  BY <1>6 DEF Report, ChainIsNamed, ResultIsEarned, Repo!Next, Repo!RunStep
<1>7. CASE BoundaryConsumes
  BY <1>7 DEF BoundaryConsumes, ChainIsNamed, Repo!Next, Repo!RunStep
<1>8. ASSUME NEW i \in Items, NEW d \in Repo!Delivery, Submit(i, d) PROVE [Repo!Next]_(Repo!vars)
  <2>1. SteerTarget \in Runs \cup {NoRun}
    BY DEF SteerTarget, CoordinatorTypeOK
  <2> QED BY <1>8, <2>1, OperationsAreNamed DEF Submit, Repo!Next, Repo!UserMutation
<1>9. ASSUME NEW i \in Items, Promote(i) \/ Cancel(i) PROVE [Repo!Next]_(Repo!vars)
  <2>1. CASE Promote(i)
    <3>1. SteerTarget \in Runs /\ opened
      BY <2>1 DEF Promote, Repo!PromoteQueueItem, SteerTarget, CoordinatorTypeOK
    <3> QED BY <2>1, <3>1, OperationsAreNamed DEF Promote, Repo!Next, Repo!UserMutation
  <2>2. CASE Cancel(i)
    BY <2>2, OperationsAreNamed DEF Cancel, Repo!Next, Repo!UserMutation
  <2> QED BY <1>9, <2>1, <2>2
<1>10. CASE StopTakesLock /\ Requeue(stopper.runId)
  <2>1. opened /\ stopper.runId \in Runs
    BY <1>10 DEF StopTakesLock, StopMarks, ChainIsNamed, None
  <2> QED BY <1>10, <2>1, RequeueCalls
<1>11. CASE StopPauses
  <2>1. opened /\ stopper.chain \in 1 .. MaxChains /\ stopper.reason \in StopReasons
    BY <1>11 DEF StopPauses, ChainIsNamed, None
  <2>2. stopper.runId \in Runs \cup {NoRun}
    BY DEF CoordinatorTypeOK, StopCalls
  <2> QED BY <1>11, <2>1, <2>2, PauseCalls, OperationsAreNamed DEF StopPauses
<1>12. CASE Crash
  BY <1>12 DEF Crash, Repo!Next
<1>13. CASE Open \/ OpensLater
  BY <1>13 DEF Open, OpensLater, Repo!Next
<1>14. CASE UNCHANGED repoVars
  BY <1>14, QuietStep
<1> QED
  BY <1>1, <1>2, <1>3, <1>4, <1>5, <1>6, <1>7, <1>8, <1>9, <1>10, <1>11, <1>12, <1>13, <1>14,
     QuietSteps

-------------------------------------------------------------------------------
(* Type correctness *)

\* The repository's part of a step of the coordinator.
LEMMA LedgerStep ==
  ASSUME CoordinatorIInv, [CoordinatorNext]_allVars
  PROVE  Ledger!IInv'
<1>1. [Ledger!Next]_(Ledger!vars)
  BY StepCalls, SameNext DEF CoordinatorIInv, Control
<1> QED BY <1>1, LedgerAssumptions, Ledger!Inductive DEF CoordinatorIInv

\* The bounds of the model, one by one.
LEMMA BoundsAreNats ==
  MaxStops \in Nat /\ MaxChains \in Nat /\ MaxCrashes \in Nat /\ MaxFaults \in Nat
BY BoundsAreNaturals

\* A stop call stays one as it proceeds.
LEMMA StopCallsProceed ==
  /\ NoStop \in StopCalls
  /\ \A s \in StopCalls : /\ [s EXCEPT !.at = "check"] \in StopCalls
                         /\ [s EXCEPT !.at = "pause"] \in StopCalls
                         /\ s.reason \in StopReasons \cup {None} /\ s.runId \in Runs \cup {NoRun}
  /\ \A a \in {"lock", "check"}, r \in Runs \cup {NoRun}, c \in 0 .. MaxChains, s \in StopReasons :
       [at |-> a, runId |-> r, chain |-> c, reason |-> s] \in StopCalls
<1>1. NoStop \in StopCalls
  BY BoundsAreNats DEF StopCalls, NoStop
<1>2. ASSUME NEW s \in StopCalls
      PROVE  /\ [s EXCEPT !.at = "check"] \in StopCalls
             /\ [s EXCEPT !.at = "pause"] \in StopCalls
             /\ s.reason \in StopReasons \cup {None} /\ s.runId \in Runs \cup {NoRun}
  BY DEF StopCalls
<1>3. ASSUME NEW a \in {"lock", "check"}, NEW r \in Runs \cup {NoRun}, NEW c \in 0 .. MaxChains,
             NEW s \in StopReasons
      PROVE  [at |-> a, runId |-> r, chain |-> c, reason |-> s] \in StopCalls
  BY DEF StopCalls
<1> QED BY <1>1, <1>2, <1>3

\* One more of a bound that was not reached.
LEMMA BudgetsGrow ==
  ASSUME budget \in Budgets
  PROVE  /\ AnotherFault => budget' \in Budgets
         /\ budget.stops < MaxStops => [budget EXCEPT !.stops = @ + 1] \in Budgets
         /\ budget.crashes < MaxCrashes => [budget EXCEPT !.crashes = @ + 1] \in Budgets
         /\ AnotherFault => budget' # budget
         /\ [budget EXCEPT !.crashes = @ + 1] # budget
<1>1. /\ budget.faults < MaxFaults => [budget EXCEPT !.faults = @ + 1] \in Budgets
      /\ budget.stops < MaxStops => [budget EXCEPT !.stops = @ + 1] \in Budgets
      /\ budget.crashes < MaxCrashes => [budget EXCEPT !.crashes = @ + 1] \in Budgets
  BY BoundsAreNats DEF Budgets
<1>2. [budget EXCEPT !.faults = @ + 1] # budget
  <2>1. budget.faults + 1 # budget.faults
    BY BoundsAreNats DEF Budgets
  <2>2. [budget EXCEPT !.faults = @ + 1].faults = budget.faults + 1
    BY DEF Budgets
  <2> QED BY ONLY <2>1, <2>2, Zenon
<1>3. [budget EXCEPT !.crashes = @ + 1] # budget
  <2>1. budget.crashes + 1 # budget.crashes
    BY BoundsAreNats DEF Budgets
  <2>2. [budget EXCEPT !.crashes = @ + 1].crashes = budget.crashes + 1
    BY DEF Budgets
  <2> QED BY ONLY <2>1, <2>2, Zenon
<1> QED BY <1>1, <1>2, <1>3 DEF AnotherFault

\* Every step keeps the types of the chain, the handle and the stop.
LEMMA TypeStep ==
  ASSUME CoordinatorTypeOK, ChainIsNamed, LeakIsLeft, [CoordinatorNext]_allVars, Repo!TypeOK'
  PROVE  CoordinatorTypeOK'
<1> USE DEF CoordinatorTypeOK, ChainPlaces, faultVars
<1>1. CASE Unpause \/ Settles \/ PauseCall
  BY <1>1 DEF Unpause, Settles, PauseCall, handleVars
<1>2. CASE Claims
  BY <1>2 DEF Claims, Claim, handleVars, Fresh
<1>3. CASE CreateHandle
  BY <1>3 DEF CreateHandle, Phases, None
<1>4. CASE Register
  BY <1>4 DEF Register
<1>5. CASE Begin \/ BeforeFinish \/ BeginRefused \/ RegisterRefused
  BY <1>5 DEF Begin, BeforeFinish, BeginRefused, RegisterRefused, handleVars
<1>6. CASE CheckCall \/ Report
  BY <1>6 DEF CheckCall, Report, handleVars
<1>7. CASE Unregister
  BY <1>7 DEF Unregister, Phases
<1>8. CASE Close
  BY <1>8 DEF Close, NoChain, NoHandle, Phases
<1>9. CASE BoundaryConsumes \/ WaitForSteer \/ WaitOver
  BY <1>9 DEF BoundaryConsumes, WaitForSteer, WaitOver, chainVars, handleVars
<1>10. CASE BoundaryFinishes
  BY <1>10 DEF BoundaryFinishes, RunEnds, Repo!Terminal, Phases
<1>11. CASE RunAborts
  BY <1>11 DEF RunAborts, RunEnds, Repo!Terminal
<1>12. CASE RunFails
  BY <1>12 DEF RunFails, RunEnds, Repo!Terminal
<1>13. CASE ChainThrows
  <2>1. budget' \in Budgets /\ forsaken' \subseteq Runs
    BY <1>13, BudgetsGrow DEF ChainThrows
  <2> QED BY <1>13, <2>1 DEF ChainThrows, handleVars
<1>14. CASE StopTakesLock
  <2>1. stopper' \in StopCalls
    BY <1>14, StopCallsProceed DEF StopTakesLock
  <2>2. /\ stoppedFor' \in StopReasons \cup {None} /\ phase' \in Phases /\ waiting' \in BOOLEAN
        /\ leaked' \in [runId : Runs \cup {NoRun}, open : BOOLEAN]
    BY <1>14, StopCallsProceed DEF StopTakesLock, StopMarks, Phases
  <2> QED BY <1>14, <2>1, <2>2 DEF StopTakesLock, StopMarks, chainVars
<1>15. CASE StopChecks \/ StopMisses
  BY <1>15, StopCallsProceed DEF StopMisses, StopChecks, chainVars, handleVars
<1>16. CASE StopPauses
  BY <1>16, StopCallsProceed DEF StopPauses, chainVars, handleVars
<1>17. CASE StopThrowsAtRequeue
  <2>1. stopper' \in StopCalls /\ budget' \in Budgets /\ unrequeued' \subseteq Runs
    BY <1>17, StopCallsProceed, BudgetsGrow DEF StopThrowsAtRequeue, StopMarks, ChainIsNamed, None
  <2>2. /\ stoppedFor' \in StopReasons \cup {None} /\ phase' \in Phases /\ waiting' \in BOOLEAN
        /\ leaked' \in [runId : Runs \cup {NoRun}, open : BOOLEAN]
    BY <1>17, StopCallsProceed DEF StopThrowsAtRequeue, StopMarks, Phases
  <2> QED BY <1>17, <2>1, <2>2 DEF StopThrowsAtRequeue, StopMarks, chainVars
<1>18. ASSUME NEW i \in Items, Promote(i) \/ Cancel(i) PROVE CoordinatorTypeOK'
  BY <1>18 DEF Promote, Cancel, chainVars, handleVars
<1>19. ASSUME NEW i \in Items, NEW d \in Repo!Delivery, Submit(i, d) PROVE CoordinatorTypeOK'
  BY <1>19 DEF Submit, chainVars
<1>20. ASSUME NEW reason \in StopReasons, StopArrives(reason) PROVE CoordinatorTypeOK'
  <2>1. budget' \in Budgets /\ HandleRun \in Runs \cup {NoRun}
    BY <1>20, BudgetsGrow DEF StopArrives, HandleRun
  <2>2. stopper' \in StopCalls
    BY <1>20, <2>1, StopCallsProceed DEF StopArrives
  <2>3. chainStop' \in StopReasons \cup {None}
    BY <1>20 DEF StopArrives
  <2> QED BY <1>20, <2>1, <2>2, <2>3 DEF StopArrives, handleVars
<1>21. ASSUME NEW r \in Runs, Start(r) PROVE CoordinatorTypeOK'
  <2>1. chainNo' \in 0 .. MaxChains
    BY <1>21, BoundsAreNats DEF Start
  <2> QED BY <1>21, <2>1 DEF Start, handleVars
<1>22. CASE Resume
  <2>1. chainNo' \in 0 .. MaxChains
    BY <1>22, BoundsAreNats DEF Resume
  <2> QED BY <1>22, <2>1 DEF Resume, handleVars
<1>23. CASE Crash
  <2>1. budget' \in Budgets
    BY <1>23, BudgetsGrow DEF Crash
  <2> QED BY <1>23, <2>1, StopCallsProceed DEF Crash, NoChain, NoHandle, NoLeak, Phases
<1>24. CASE Open
  BY <1>24 DEF Open, chainVars, handleVars
<1>25. CASE UNCHANGED allVars
  BY <1>25 DEF allVars, chainVars, handleVars
<1>26. CASE HandleLeaks
  <2>1. budget' \in Budgets /\ run \in Runs
    BY <1>26, BudgetsGrow DEF HandleLeaks, ChainIsNamed
  <2>2. leaked' \in [runId : Runs \cup {NoRun}, open : BOOLEAN]
    BY <1>26, <2>1 DEF HandleLeaks
  <2> QED BY <1>26, <2>1, <2>2 DEF HandleLeaks, handleVars
<1>27. CASE BoundaryThrows
  <2>1. budget' \in Budgets
    BY <1>27, BudgetsGrow DEF BoundaryThrows
  <2> QED BY <1>27, <2>1 DEF BoundaryThrows, Repo!Terminal, Phases
<1>28. CASE BoundaryExhausts
  BY <1>28 DEF BoundaryExhausts, Phases, chainVars
<1>29. CASE StopThrows
  <2>1. budget' \in Budgets
    BY <1>29, BudgetsGrow DEF StopThrows
  <2> QED BY <1>29, <2>1, StopCallsProceed DEF StopThrows, chainVars, handleVars
<1>30. CASE OpensLater
  <2>1. budget' \in Budgets
    BY <1>30, BudgetsGrow DEF OpensLater
  <2> QED BY <1>30, <2>1 DEF OpensLater, chainVars, handleVars
<1> QED
  BY <1>1, <1>2, <1>3, <1>4, <1>5, <1>6, <1>7, <1>8, <1>9, <1>10, <1>11, <1>12, <1>13, <1>14,
     <1>15, <1>16, <1>17, <1>18, <1>19, <1>20, <1>21, <1>22, <1>23, <1>24, <1>25, <1>26, <1>27,
     <1>28, <1>29, <1>30, StepsSplit
  DEF StopMoves, StopStep

-------------------------------------------------------------------------------
(* What a step leaves alone in the repository *)

\* Which of the coordinator's steps change which part of the repository.
LEMMA CallsLeaveAlone ==
  ASSUME [CoordinatorNext]_allVars
  PROVE  /\ Claims \/ Begin \/ Report \/ Open \/ UNCHANGED <<activeTaskId, runReports>>
         /\ Claims \/ Begin \/ BoundaryConsumes \/ UNCHANGED messages
         /\ Crash \/ Open \/ UNCHANGED opened
<1> DEFINE Kept == /\ Claims \/ Begin \/ Report \/ Open \/ UNCHANGED <<activeTaskId, runReports>>
                   /\ Claims \/ Begin \/ BoundaryConsumes \/ UNCHANGED messages
                   /\ Crash \/ Open \/ UNCHANGED opened
<1> SUFFICES Kept
  OBVIOUS
<1>1. CASE UNCHANGED repoVars
  BY <1>1 DEF repoVars
<1>2. ASSUME NEW p, NEW op, SetPaused(p, op) PROVE Kept
  BY <1>2 DEF SetPaused, Repo!SetQueuePaused, Repo!runVars, Repo!volatile, repoVars
<1>3. ASSUME NEW r, Requeue(r) PROVE Kept
  BY <1>3 DEF Requeue, Repo!RequeueSteers, Repo!runVars, Repo!volatile, repoVars
<1>4. CASE Claims
  BY <1>4 DEF Claims, Claim, Repo!BeginRunFromQueue, repoVars
<1>5. CASE Begin
  BY <1>5 DEF Begin, Repo!BeginRun, repoVars
<1>6. CASE Report
  BY <1>6 DEF Report, Repo!FinishRun
<1>7. CASE BoundaryConsumes
  BY <1>7 DEF BoundaryConsumes, Repo!ConsumeSteer, Repo!volatile
<1>8. ASSUME NEW i \in Items, NEW d \in Repo!Delivery, Submit(i, d) PROVE Kept
  BY <1>8 DEF Submit, Repo!EnqueueQueueItem, Repo!runVars, Repo!volatile
<1>9. ASSUME NEW i \in Items, Promote(i) PROVE Kept
  BY <1>9 DEF Promote, Repo!PromoteQueueItem, Repo!runVars, Repo!volatile
<1>10. ASSUME NEW i \in Items, Cancel(i) PROVE Kept
  BY <1>10 DEF Cancel, Repo!CancelQueueItem, Repo!runVars, Repo!volatile
<1>11. CASE Crash
  BY <1>11 DEF Crash, Repo!Crash, Repo!runVars
<1>12. CASE Open
  BY <1>12 DEF Open, Repo!LoadSession, Repo!RecoverInterruptedRun, Repo!PauseRecoveredQueue,
               Repo!LoadUnchanged, Repo!runVars
<1>13. CASE OpensLater
  BY <1>13 DEF OpensLater, Repo!LoadFails, Repo!ReplayMaterializeRun, Repo!runVars
<1> HIDE DEF Kept
<1> QED
  BY <1>1, <1>2, <1>3, <1>4, <1>5, <1>6, <1>7, <1>8, <1>9, <1>10, <1>11, <1>12, <1>13, QuietSteps
  DEF Unpause, PauseCall, StopPauses

-------------------------------------------------------------------------------
(* The control invariants *)

\* A step gives a chain its Run and number, and a stop its chain, before they are used.
LEMMA NamedStep ==
  ASSUME CoordinatorTypeOK, ChainIsNamed, HandleIsPlaced, LeakIsLeft, [CoordinatorNext]_allVars
  PROVE  ChainIsNamed'
<1> USE DEF ChainIsNamed, None
<1>1. CASE Crash
  BY <1>1 DEF Crash, NoChain, NoStop
<1>2. SUFFICES ASSUME ~Crash PROVE ChainIsNamed'
  BY <1>1
<1>3. opened => opened'
  BY <1>2, CallsLeaveAlone DEF Open, Repo!LoadSession
<1>4. chainNo < MaxChains => chainNo + 1 \in 1 .. MaxChains
  BY BoundsAreNats DEF CoordinatorTypeOK
<1>5. CASE UNCHANGED allVars
  BY <1>3, <1>5 DEF allVars, chainVars
<1>6. CASE Unpause \/ CreateHandle \/ Register \/ RegisterRefused \/ Begin \/ BeforeFinish \/ BeginRefused
  BY <1>3, <1>6 DEF Unpause, CreateHandle, Register, RegisterRefused, Begin, BeforeFinish, BeginRefused
<1>7. CASE Settles \/ CheckCall \/ PauseCall \/ Report \/ Unregister
  BY <1>3, <1>7 DEF Settles, CheckCall, PauseCall, Report, Unregister
<1>8. CASE Claims
  BY <1>3, <1>8 DEF Claims, Claim, Fresh
<1>9. CASE Close
  BY <1>3, <1>9 DEF Close, NoChain
<1>10. CASE BoundaryFinishes \/ BoundaryThrows \/ RunAborts \/ RunFails
  BY <1>3, <1>10 DEF BoundaryFinishes, BoundaryThrows, RunAborts, RunFails, RunEnds
<1>11. ASSUME UNCHANGED chainVars, UNCHANGED stopper PROVE ChainIsNamed'
  BY <1>3, <1>11 DEF chainVars
<1>12. CASE BoundaryConsumes \/ BoundaryExhausts \/ WaitForSteer \/ WaitOver \/ Open \/ OpensLater
  BY <1>11, <1>12 DEF BoundaryConsumes, BoundaryExhausts, WaitForSteer, WaitOver, Open, OpensLater
<1>13. ASSUME NEW i \in Items, Promote(i) \/ Cancel(i) \/ \E d \in Repo!Delivery : Submit(i, d)
       PROVE  ChainIsNamed'
  BY <1>11, <1>13 DEF Promote, Cancel, Submit
<1>14. CASE StopMoves
  <2>1. stopper \in StopCalls /\ UNCHANGED chainVars
    BY <1>14, StopKeepsChain DEF CoordinatorTypeOK
  <2>2. \/ stopper' = NoStop
        \/ stopper.at = "lock" /\ stopper' = [stopper EXCEPT !.at = "check"]
        \/ stopper.at = "check" /\ stopper' = [stopper EXCEPT !.at = "pause"]
    BY <1>14, <2>1 DEF StopMoves, StopStep, StopTakesLock, StopMarks, StopMisses, StopChecks,
                       StopPauses, StopThrowsAtRequeue, StopThrows, StopCalls
  <2>3. stopper.at = "lock" /\ stopper' = [stopper EXCEPT !.at = "check"] => ChainIsNamed'
    BY <1>3, <2>1 DEF chainVars, StopCalls
  <2>4. stopper.at = "check" /\ stopper' = [stopper EXCEPT !.at = "pause"] => ChainIsNamed'
    BY <1>3, <2>1 DEF chainVars, StopCalls
  <2> QED BY <1>3, <2>1, <2>2, <2>3, <2>4 DEF chainVars, NoStop
<1>15. ASSUME NEW reason \in StopReasons, StopArrives(reason) PROVE ChainIsNamed'
  <2>1. opened /\ chainNo \in 1 .. MaxChains
    <3>1. CASE pc # "idle"
      BY <3>1
    <3>2. CASE pc = "idle"
      <4>1. leaked # NoLeak
        BY <1>15, <3>2 DEF StopArrives, HandleRun, HandleIsPlaced, HandlePlaces, NoLeak
      <4> QED BY <4>1 DEF LeakIsLeft
    <3> QED BY <3>1, <3>2
  <2>2. HandleRun # NoRun => HandleRun \in Runs
    BY DEF HandleRun, CoordinatorTypeOK
  <2> QED BY <1>3, <1>15, <2>1, <2>2 DEF StopArrives
<1>16. ASSUME NEW r \in Runs, Start(r) PROVE ChainIsNamed'
  BY <1>3, <1>4, <1>16 DEF Start
<1>17. CASE Resume
  BY <1>3, <1>4, <1>17 DEF Resume
<1>18. CASE ChainThrows \/ HandleLeaks
  <2>1. pc # "idle" /\ (registered => run \in Runs)
    BY <1>18 DEF ChainThrows, ChainCalls, HandleLeaks, HandleIsPlaced, HandlePlaces
  <2> QED BY <1>3, <1>18, <2>1, ChainFails
<1> QED
  BY <1>2, <1>5, <1>6, <1>7, <1>8, <1>9, <1>10, <1>12, <1>13, <1>14, <1>15, <1>16, <1>17, <1>18,
     StepsSplit

\* A handle is made by register and goes with unregister, and only a Run waits.
LEMMA PlacedStep ==
  ASSUME Ledger!IInv, HandleIsPlaced, RunIsDriven, ChainIsNamed, [CoordinatorNext]_allVars
  PROVE  HandleIsPlaced'
<1> USE DEF HandleIsPlaced, HandlePlaces
<1>1. CASE Crash \/ Close
  BY <1>1 DEF Crash, Close, NoChain, NoHandle
<1>2. ASSUME UNCHANGED pc, UNCHANGED registered, waiting' => waiting PROVE HandleIsPlaced'
  BY <1>2
<1>3. CASE UNCHANGED allVars
  BY <1>2, <1>3 DEF allVars, chainVars, handleVars
<1>4. CASE Open \/ OpensLater \/ BoundaryConsumes \/ BoundaryExhausts
  BY <1>2, <1>4 DEF Open, OpensLater, BoundaryConsumes, BoundaryExhausts, chainVars, handleVars
<1>17. CASE StopMoves
  <2>1. waiting' => waiting
    BY <1>17 DEF StopMoves, StopStep, StopTakesLock, StopMarks, StopMisses, StopChecks, StopPauses,
                 StopThrowsAtRequeue, StopThrows, handleVars
  <2> QED BY <1>2, <1>17, <2>1, StopKeepsChain DEF chainVars
<1>5. ASSUME NEW i \in Items, Promote(i) \/ Cancel(i) \/ \E d \in Repo!Delivery : Submit(i, d)
      PROVE  HandleIsPlaced'
  BY <1>2, <1>5 DEF Promote, Cancel, Submit, chainVars, handleVars
<1>6. ASSUME NEW reason \in StopReasons, StopArrives(reason) PROVE HandleIsPlaced'
  BY <1>2, <1>6 DEF StopArrives, handleVars
<1>7. CASE Unpause
  BY <1>7 DEF Unpause, handleVars
<1>8. CASE CreateHandle \/ Register
  BY <1>8 DEF CreateHandle, Register
<1>9. CASE Begin \/ BeforeFinish \/ BeginRefused \/ RegisterRefused
  BY <1>9 DEF Begin, BeforeFinish, BeginRefused, RegisterRefused, handleVars
<1>10. CASE Report \/ Unregister
  BY <1>10 DEF Report, Unregister, handleVars
<1>16. CASE Claims
  BY <1>16 DEF Claims, Claim, handleVars
<1>11. CASE Settles
  BY <1>11 DEF Settles, handleVars
<1>18. CASE ChainThrows \/ HandleLeaks
  <2>1. registered => pc' = "unregister"
    BY <1>18 DEF ChainThrows, HandleLeaks
  <2>2. ~waiting
    BY <1>18 DEF ChainThrows, ChainCalls, HandleLeaks
  <2> QED BY <1>18, <2>1, <2>2, ChainFails DEF handleVars
<1>12. ASSUME CheckCall \/ PauseCall PROVE HandleIsPlaced'
  <2>1. registered <=> ~Reported
    <3>1. pc \in RequeuePlaces
      BY <1>12 DEF CheckCall, PauseCall, RequeuePlaces
    <3>2. registered => activeTaskId = run /\ run \in Runs
      BY <3>1 DEF RunIsDriven, ChainIsNamed, RequeuePlaces
    <3> QED BY <3>1, <3>2, LedgerGives DEF Reported, RunIsDriven
  <2>2. CASE CheckCall
    BY <2>1, <2>2 DEF CheckCall, handleVars
  <2>3. CASE PauseCall
    BY <2>1, <2>3 DEF PauseCall, handleVars
  <2> QED BY <1>12, <2>2, <2>3
<1>13. CASE WaitForSteer \/ WaitOver
  BY <1>13 DEF WaitForSteer, WaitOver, chainVars
<1>14. CASE BoundaryFinishes \/ BoundaryThrows \/ RunAborts \/ RunFails
  BY <1>14 DEF BoundaryFinishes, BoundaryThrows, RunAborts, RunFails, RunEnds
<1>15. CASE Resume \/ \E r \in Runs : Start(r)
  BY <1>15 DEF Start, Resume, handleVars
<1> QED
  BY <1>1, <1>3, <1>4, <1>5, <1>6, <1>7, <1>8, <1>9, <1>10, <1>11, <1>12, <1>13, <1>14, <1>15,
     <1>16, <1>17, <1>18, StepsSplit

\* The steps that leave the stop, the handle's registration and the handle that
\* was left behind as they are.
LEMMA ChainLeavesStop ==
  ASSUME [CoordinatorNext]_allVars
  PROVE  \/ UNCHANGED <<stopper, leaked, registered, run>>
         \/ Register \/ Unregister \/ Claims \/ Close \/ (\E r \in Runs : Start(r))
         \/ HandleLeaks \/ StopMoves \/ (\E reason \in StopReasons : StopArrives(reason)) \/ Crash
<1> DEFINE Kept == UNCHANGED <<stopper, leaked, registered, run>>
<1>1. ASSUME NEW i \in Items, Promote(i) \/ Cancel(i) \/ \E d \in Repo!Delivery : Submit(i, d)
      PROVE  Kept
  BY <1>1 DEF Promote, Cancel, Submit, chainVars, handleVars, faultVars
<1>2. ASSUME \/ Unpause \/ CreateHandle \/ RegisterRefused \/ Begin \/ BeforeFinish \/ BeginRefused
             \/ CheckCall \/ PauseCall \/ Report \/ Settles \/ Resume
      PROVE  Kept
  BY <1>2 DEF Unpause, CreateHandle, RegisterRefused, Begin, BeforeFinish, BeginRefused, CheckCall,
       PauseCall, Report, Settles, Resume, handleVars, faultVars
<1>3. ASSUME \/ BoundaryConsumes \/ BoundaryExhausts \/ BoundaryFinishes \/ BoundaryThrows \/ RunAborts
             \/ RunFails \/ WaitForSteer \/ WaitOver
      PROVE  Kept
  BY <1>3 DEF BoundaryConsumes, BoundaryExhausts, BoundaryFinishes, BoundaryThrows, RunAborts, RunFails,
       RunEnds, WaitForSteer, WaitOver, chainVars, handleVars, faultVars
<1>4. ASSUME ChainThrows \/ Open \/ OpensLater \/ UNCHANGED allVars PROVE Kept
  BY <1>4 DEF ChainThrows, Open, OpensLater, allVars, chainVars, handleVars, faultVars
<1> QED BY <1>1, <1>2, <1>3, <1>4, StepsSplit

\* Between its check of the handle and its return, a stop keeps the handle: the
\* steps that would take it or another Run wait for the lock.
LEMMA HoldsStep ==
  ASSUME CoordinatorTypeOK, HandleIsPlaced, LeakIsLeft, StopHoldsHandle, [CoordinatorNext]_allVars
  PROVE  StopHoldsHandle'
<1> USE DEF StopHoldsHandle, StopInside, RequeuePlaces
<1>1. stopper \in StopCalls
  BY DEF CoordinatorTypeOK
<1>2. CASE Crash
  BY <1>2 DEF Crash, NoStop, None
<1>3. CASE UNCHANGED <<stopper, leaked, registered, run>>
  BY <1>3
<1>4. CASE Register \/ Unregister \/ Claims \/ Close \/ \E r \in Runs : Start(r)
  <2>1. UNCHANGED <<stopper, leaked>>
    BY <1>4 DEF Register, Unregister, Claims, Close, Start, faultVars
  <2>2. CASE LockFree
    BY <2>1, <2>2 DEF LockFree
  <2>3. CASE Claims
    <3>1. ~registered /\ ~registered'
      BY <2>3 DEF Claims, HandleIsPlaced, HandlePlaces, handleVars
    <3> QED BY <2>1, <3>1
  <2> QED BY <1>4, <2>2, <2>3 DEF Register, Unregister, Close, Start
<1>5. CASE HandleLeaks
  BY <1>5 DEF HandleLeaks, LockFree
<1>6. CASE StopMoves
  <2>1. UNCHANGED <<registered, run>> /\ leaked'.runId = leaked.runId
    BY <1>6, StopKeepsChain
       DEF chainVars, StopMoves, StopStep, StopTakesLock, StopMarks, StopMisses, StopChecks, StopPauses,
           StopThrowsAtRequeue, StopThrows, faultVars, CoordinatorTypeOK
  <2>2. \/ stopper' = NoStop
        \/ stopper' = [stopper EXCEPT !.at = "check"]
           /\ ((registered /\ run = stopper.runId) \/ leaked.runId = stopper.runId)
        \/ stopper.at = "check" /\ stopper' = [stopper EXCEPT !.at = "pause"]
    BY <1>6 DEF StopMoves, StopStep, StopTakesLock, StopMarks, StopMisses, StopChecks, StopPauses,
                StopThrowsAtRequeue, StopThrows
  <2>3. stopper'.runId # NoRun /\ stopper'.at \in RequeuePlaces => stopper'.runId = stopper.runId
    BY <1>1, <2>2 DEF StopCalls, NoStop
  <2>4. stopper'.at \in RequeuePlaces
        => stopper.at = "check" \/ (registered /\ run = stopper.runId) \/ leaked.runId = stopper.runId
    BY <1>1, <2>2 DEF StopCalls, NoStop, None
  <2> QED BY <2>1, <2>3, <2>4
<1>7. ASSUME NEW reason \in StopReasons, StopArrives(reason) PROVE StopHoldsHandle'
  BY <1>7 DEF StopArrives, handleVars
<1> QED BY <1>2, <1>3, <1>4, <1>5, <1>6, <1>7, ChainLeavesStop

\* beginRun and its recovery make the Run of the chain the active one, its report
\* comes before the handle goes.
LEMMA DrivenStep ==
  ASSUME Ledger!IInv, ChainIsNamed, HandleIsPlaced, RunIsDriven, ResultIsEarned,
         [CoordinatorNext]_allVars
  PROVE  RunIsDriven'
<1> USE DEF RequeuePlaces
<1>1. CASE Crash \/ Close
  BY <1>1 DEF Crash, Close, NoChain, RunIsDriven
<1>2. CASE Claims
  <2>1. CASE pc' = "close"
    BY <2>1 DEF RunIsDriven
  <2>2. CASE pc' # "close"
    BY <1>2, <2>2 DEF Claims, Claim, Repo!BeginRunFromQueue, RunIsDriven
  <2> QED BY <2>1, <2>2
<1>3. CASE Begin
  <2>1. CASE prestarted
    BY <1>3, <2>1 DEF Begin, repoVars, RunIsDriven
  <2>2. CASE ~prestarted
    BY <1>3, <2>2 DEF Begin, Repo!BeginRun, RunIsDriven
  <2> QED BY <2>1, <2>2
<1>4. CASE Report
  <2>1. run \in Runs /\ result # "none"
    BY <1>4 DEF Report, ChainIsNamed, ResultIsEarned, Repo!Terminal
  <2>2. Reported'
    BY <1>4, <2>1, LedgerGives DEF Report, Repo!FinishRun, Reported, Repo!TypeOK
  <2> QED BY <1>4, <2>2 DEF Report, RunIsDriven
<1>5. CASE Open
  BY <1>5 DEF Open, ChainIsNamed, chainVars, RunIsDriven
<1>6. CASE BoundaryConsumes
  <2>1. UNCHANGED <<activeTaskId, runReports>> /\ pc' = "running" /\ run' = run /\ pc = "running"
    BY <1>6, CallsLeaveAlone
       DEF BoundaryConsumes, chainVars, Claims, Begin, Report, Open, ChainIsNamed
  <2> QED BY <2>1 DEF RunIsDriven
<1>7. SUFFICES ASSUME ~Crash, ~Close, ~Claims, ~Begin, ~Report, ~Open, ~BoundaryConsumes
               PROVE  RunIsDriven'
  BY <1>1, <1>2, <1>3, <1>4, <1>5, <1>6
<1>8. UNCHANGED <<activeTaskId, runReports, messages>>
  BY <1>7, CallsLeaveAlone
<1>9. Repo!Started' = Repo!Started
  BY <1>8 DEF Repo!Started
<1>10. run' = run => Reported' = Reported
  BY <1>8 DEF Reported
<1> USE <1>8, <1>9, <1>10 DEF RunIsDriven
<1>11. CASE Unpause
  BY <1>11 DEF Unpause, ResultIsEarned
<1>12. CASE CreateHandle \/ Register \/ RegisterRefused
  BY <1>12 DEF CreateHandle, Register, RegisterRefused
<1>13. CASE BeforeFinish
  BY <1>13 DEF BeforeFinish, HandleIsPlaced, handleVars
<1>14. CASE BeginRefused
  BY <1>14 DEF BeginRefused, ResultIsEarned
<1>15. CASE ChainThrows \/ HandleLeaks
  BY <1>15, ChainFails DEF None
<1>16. CASE CheckCall
  BY <1>16 DEF CheckCall, handleVars
<1>17. CASE PauseCall
  BY <1>17 DEF PauseCall, handleVars
<1>18. CASE Unregister
  BY <1>18 DEF Unregister
<1>19. CASE Settles
  BY <1>19 DEF Settles, HandleIsPlaced, HandlePlaces, handleVars
<1>20. CASE BoundaryFinishes \/ BoundaryThrows \/ RunAborts \/ RunFails
  BY <1>20 DEF BoundaryFinishes, BoundaryThrows, RunAborts, RunFails, RunEnds
<1>21. ASSUME UNCHANGED chainVars, UNCHANGED registered PROVE RunIsDriven'
  BY <1>21 DEF chainVars
<1>22. CASE WaitForSteer \/ WaitOver \/ BoundaryExhausts \/ OpensLater \/ StopMoves
  BY <1>21, <1>22, StopKeepsChain DEF WaitForSteer, WaitOver, BoundaryExhausts, OpensLater, handleVars
<1>23. ASSUME NEW i \in Items, Promote(i) \/ Cancel(i) \/ \E d \in Repo!Delivery : Submit(i, d)
       PROVE  RunIsDriven'
  BY <1>21, <1>23 DEF Promote, Cancel, Submit, handleVars
<1>24. ASSUME NEW reason \in StopReasons, StopArrives(reason) PROVE RunIsDriven'
  BY <1>24, NoneIsNoReason DEF StopArrives, handleVars, None
<1>25. CASE Resume \/ \E r \in Runs : Start(r)
  BY <1>25 DEF Start, Resume, Fresh
<1>26. CASE UNCHANGED allVars
  BY <1>21, <1>26 DEF allVars, handleVars
<1> QED
  BY <1>7, <1>11, <1>12, <1>13, <1>14, <1>15, <1>16, <1>17, <1>18, <1>19, <1>20, <1>22, <1>23,
     <1>24, <1>25, <1>26, StepsSplit

\* Who may be steered: the Steers of a Run grow only by a submit or a promotion
\* that an accepting handle of it takes while it is active.
SteeredNow(r) ==
  /\ SteerTarget = r /\ activeTaskId = r /\ LockFree
  /\ waiting' = FALSE
  /\ UNCHANGED <<chainVars, phase, stoppedFor, registered, stopper>>

\* Only a submit or a promotion aims more Steers at a Run.
LEMMA SteersGrow ==
  ASSUME Repo!TypeOK, [CoordinatorNext]_allVars, NEW r \in Runs
  PROVE  SteersFor(r)' \subseteq SteersFor(r) \/ SteeredNow(r)
<1> DEFINE Fewer == SteersFor(r)' \subseteq SteersFor(r)
<1> SUFFICES ASSUME ~Fewer PROVE SteeredNow(r)
  OBVIOUS
<1> USE DEF SteersFor, Repo!SteersFor, Repo!Pending, Repo!TypeOK
<1>1. ASSUME UNCHANGED repoVars PROVE Fewer
  BY <1>1 DEF repoVars
<1>2. ASSUME NEW p, NEW op, SetPaused(p, op) PROVE Fewer
  BY <1>2 DEF SetPaused, Repo!SetQueuePaused, Repo!queueVars, repoVars
<1>3. ASSUME NEW q, Requeue(q) PROVE Fewer
  BY <1>3 DEF Requeue, Repo!RequeueSteers, Repo!Requeue, repoVars
<1>4. ASSUME Claims PROVE Fewer
  BY <1>4 DEF Claims, Claim, Repo!BeginRunFromQueue, repoVars
<1>5. ASSUME Begin \/ Report PROVE Fewer
  BY <1>5 DEF Begin, Repo!BeginRun, Report, Repo!FinishRun, Repo!queueVars, repoVars
<1>6. ASSUME BoundaryConsumes PROVE Fewer
  BY <1>6 DEF BoundaryConsumes, Repo!ConsumeSteer
<1>7. ASSUME NEW i \in Items, Cancel(i) PROVE Fewer
  BY <1>7 DEF Cancel, Repo!CancelQueueItem
<1>8. ASSUME Crash PROVE Fewer
  BY <1>8 DEF Crash, Repo!Crash, Repo!queueVars
<1>9. ASSUME Open PROVE Fewer
  BY <1>9 DEF Open, Repo!LoadSession, Repo!RecoverInterruptedRun, Repo!Requeue,
              Repo!PauseRecoveredQueue, Repo!LoadUnchanged, Repo!queueVars
<1>15. ASSUME OpensLater PROVE Fewer
  BY <1>15 DEF OpensLater, Repo!LoadFails, Repo!ReplayMaterializeRun, Repo!queueVars
<1>10. ASSUME NEW i \in Items, NEW d \in Repo!Delivery, Submit(i, d)
       PROVE  SteerTarget = r /\ activeTaskId = r /\ d = "steer"
  BY <1>10, SentinelsAreFresh DEF Submit, Repo!EnqueueQueueItem, Repo!Delivery
<1>11. ASSUME NEW i \in Items, Promote(i)
       PROVE  SteerTarget = r /\ activeTaskId = r
  BY <1>11 DEF Promote, Repo!PromoteQueueItem
<1> HIDE DEF Fewer
<1>12. \/ \E i \in Items : Promote(i)
       \/ \E i \in Items, d \in Repo!Delivery : Submit(i, d)
  BY <1>1, <1>2, <1>3, <1>4, <1>5, <1>6, <1>7, <1>8, <1>9, <1>15, QuietSteps
     DEF Unpause, PauseCall, StopPauses
<1>13. ASSUME NEW i \in Items, Promote(i) PROVE SteeredNow(r)
  BY <1>11, <1>13 DEF Promote, SteeredNow
<1>14. ASSUME NEW i \in Items, NEW d \in Repo!Delivery, Submit(i, d) PROVE SteeredNow(r)
  BY <1>10, <1>14 DEF Submit, SteeredNow
<1> QED BY <1>12, <1>13, <1>14

\* A Run is steered by its own accepting handle or by one left behind: not before
\* its handle is registered, nor past its gate.
LEMMA SteeredWhileAccepting ==
  ASSUME Ledger!IInv, LeakIsLeft, RunIsDriven, run \in Runs, SteeredNow(run)
  PROVE  Accepting \/ pc \in {"idle", "close"}
<1> SUFFICES ASSUME ~Accepting PROVE pc \in {"idle", "close"}
  OBVIOUS
<1>1. activeTaskId = run /\ SteerTarget = run
  BY DEF SteeredNow
<1>2. CASE leaked = NoLeak
  BY <1>1, <1>2, SentinelsAreFresh DEF SteerTarget, NoLeak
<1>3. CASE leaked # NoLeak
  <2>1. SUFFICES ASSUME pc \in {"unpause", "load", "register"}, ~prestarted PROVE FALSE
    BY <1>3 DEF LeakIsLeft
  <2>2. run \notin Repo!Started
    BY <2>1 DEF RunIsDriven
  <2> QED BY <1>1, <2>2, LedgerGives, SentinelsAreFresh
<1> QED BY <1>2, <1>3

-------------------------------------------------------------------------------
(* Steers: whom they are aimed at, and who takes them back *)

\* Runs never un-begin: the calls of a step only append to messages.
LEMMA StartedGrows ==
  ASSUME Repo!TypeOK, [CoordinatorNext]_allVars
  PROVE  Repo!Started \subseteq Repo!Started'
<1>1. UNCHANGED messages => Repo!Started' = Repo!Started
  BY DEF Repo!Started
<1>2. ASSUME NEW m, m \in [runId : Runs, itemId : Items \cup {NoItem}], messages' = Append(messages, m)
      PROVE  Repo!Started \subseteq Repo!Started'
  <2>1. messages \in Seq([runId : Runs, itemId : Items \cup {NoItem}])
    BY DEF Repo!TypeOK
  <2>2. /\ DOMAIN messages = 1 .. Len(messages) /\ DOMAIN messages' = 1 .. Len(messages) + 1
        /\ Len(messages) \in Nat
        /\ \A k \in DOMAIN messages : messages'[k] = messages[k]
    BY <1>2, <2>1, AppendProperties, LenProperties
  <2> QED BY <2>2 DEF Repo!Started
<1>3. CASE Claims
  BY <1>1, <1>2, <1>3 DEF Claims, Claim, Fresh, Repo!BeginRunFromQueue, repoVars
<1>4. CASE Begin
  <2>1. UNCHANGED messages \/ Repo!BeginRun(run)
    BY <1>4 DEF Begin, repoVars
  <2> QED BY <1>1, <1>2, <2>1 DEF Repo!BeginRun
<1>5. CASE BoundaryConsumes
  BY <1>2, <1>5 DEF BoundaryConsumes, Repo!ConsumeSteer, Repo!TypeOK
<1> QED BY <1>1, <1>3, <1>4, <1>5, CallsLeaveAlone

\* A handle left behind stays until the process ends, and lets no other be made.
LEMMA LeakStep ==
  ASSUME Ledger!IInv, CoordinatorTypeOK, ChainIsNamed, HandleIsPlaced, RunIsDriven, LeakIsLeft,
         [CoordinatorNext]_allVars
  PROVE  LeakIsLeft'
<1> SUFFICES ASSUME leaked' # NoLeak PROVE LeakIsLeft'
  BY DEF LeakIsLeft
<1> DEFINE Place(p, early) ==
      p \in {"idle", "close"} \/ (p \in {"unpause", "load", "register"} /\ ~early)
<1>1. Repo!Started \subseteq Repo!Started'
  BY LedgerGives, StartedGrows
<1>2. ~Crash
  BY DEF Crash
<1>3. opened => opened'
  BY <1>2, CallsLeaveAlone DEF Open, Repo!LoadSession
<1>4. CASE HandleLeaks
  <2>1. pc = "register" /\ prestarted /\ run \in Runs /\ opened /\ chainNo \in 1 .. MaxChains
    BY <1>4 DEF HandleLeaks, ChainIsNamed
  <2>2. run \in Repo!Started
    BY <2>1, LedgerGives, SentinelsAreFresh DEF RunIsDriven
  <2> QED BY <1>1, <1>3, <1>4, <2>1, <2>2 DEF HandleLeaks, LeakIsLeft
<1>5. CASE ~HandleLeaks
  <2>1. /\ leaked # NoLeak /\ leaked'.runId = leaked.runId
        /\ leaked = NoLeak \/ chainNo' = chainNo \/ chainNo' \in 1 .. MaxChains
    <3>1. CASE StopMoves
      <4>1. chainNo' = chainNo /\ (leaked' = leaked \/ leaked' = [leaked EXCEPT !.open = FALSE])
        BY <3>1, StopKeepsChain
           DEF StopMoves, StopStep, StopTakesLock, StopMarks, StopMisses, StopChecks, StopPauses,
               StopThrowsAtRequeue, StopThrows, faultVars, chainVars
      <4>2. \A l \in [runId : Runs \cup {NoRun}, open : BOOLEAN] :
              /\ [l EXCEPT !.open = FALSE].runId = l.runId
              /\ ~l.open => [l EXCEPT !.open = FALSE] = l
        OBVIOUS
      <4>3. leaked = NoLeak => ~leaked.open
        BY DEF NoLeak
      <4> QED BY <4>1, <4>2, <4>3 DEF CoordinatorTypeOK
    <3>2. CASE ~StopMoves
      <4>1. leaked' = leaked
        BY <1>2, <1>5, <3>2, ChainLeavesStop
           DEF Register, Unregister, Claims, Close, Start, StopArrives, faultVars
      <4>2. chainNo' = chainNo \/ Resume \/ \E r \in Runs : Start(r)
        <5>1. ASSUME \/ Unpause \/ Claims \/ Settles \/ CreateHandle \/ Register \/ RegisterRefused
                     \/ Begin \/ BeginRefused \/ BeforeFinish \/ CheckCall \/ PauseCall \/ Report
                     \/ Unregister \/ Close
              PROVE  chainNo' = chainNo
          BY <5>1 DEF Unpause, Claims, Settles, CreateHandle, Register, RegisterRefused, Begin,
                      BeginRefused, BeforeFinish, CheckCall, PauseCall, Report, Unregister, Close
        <5>2. ASSUME \/ BoundaryConsumes \/ BoundaryExhausts \/ BoundaryFinishes \/ BoundaryThrows
                     \/ RunAborts \/ RunFails \/ WaitForSteer \/ WaitOver \/ Open \/ OpensLater
              PROVE  chainNo' = chainNo
          BY <5>2 DEF BoundaryConsumes, BoundaryExhausts, BoundaryFinishes, BoundaryThrows, RunAborts,
                      RunFails, RunEnds, WaitForSteer, WaitOver, Open, OpensLater, chainVars
        <5>3. ASSUME NEW i \in Items, Promote(i) \/ Cancel(i) \/ \E d \in Repo!Delivery : Submit(i, d)
              PROVE  chainNo' = chainNo
          BY <5>3 DEF Promote, Cancel, Submit, chainVars
        <5>4. ASSUME NEW reason \in StopReasons, StopArrives(reason) PROVE chainNo' = chainNo
          BY <5>4 DEF StopArrives
        <5>5. UNCHANGED allVars => chainNo' = chainNo
          BY DEF allVars, chainVars
        <5> QED BY <1>2, <3>2, <5>1, <5>2, <5>3, <5>4, <5>5, ChainFails, StepsSplit
      <4>3. Resume \/ (\E r \in Runs : Start(r)) => chainNo' \in 1 .. MaxChains
        BY BoundsAreNats DEF Resume, Start, CoordinatorTypeOK
      <4> QED BY <4>1, <4>2, <4>3
    <3> QED BY <3>1, <3>2
  <2>2. leaked.runId \in Repo!Started /\ opened /\ chainNo \in 1 .. MaxChains /\ Place(pc, prestarted)
    BY <2>1 DEF LeakIsLeft
  <2>3. ~registered
    BY <2>2 DEF HandleIsPlaced, HandlePlaces
  <2>4. Place(pc', prestarted')
    <3>1. ASSUME Unpause \/ CreateHandle \/ Close \/ RegisterRefused PROVE Place(pc', prestarted')
      BY <2>2, <3>1 DEF Unpause, CreateHandle, Close, RegisterRefused, NoChain
    <3>2. ASSUME \E r \in Runs : Start(r) PROVE Place(pc', prestarted')
      BY <3>2 DEF Start
    <3>3. ASSUME Register \/ Resume PROVE FALSE
      BY <2>1, <3>3 DEF Register, Resume
    <3>4. ASSUME \/ Claims \/ Settles \/ Begin \/ BeginRefused \/ BeforeFinish \/ CheckCall \/ PauseCall
                 \/ Report \/ Unregister \/ BoundaryFinishes \/ BoundaryThrows \/ RunAborts \/ RunFails
          PROVE  FALSE
      BY <2>2, <3>4 DEF Claims, Settles, Begin, BeginRefused, BeforeFinish, CheckCall, PauseCall, Report,
                        Unregister, BoundaryFinishes, BoundaryThrows, RunAborts, RunFails, RunEnds
    <3>5. ASSUME ChainThrows PROVE Place(pc', prestarted')
      BY <2>3, <3>5, ChainFails
    <3>6. ASSUME UNCHANGED <<pc, prestarted>> PROVE Place(pc', prestarted')
      BY <2>2, <3>6
    <3>7. ASSUME \/ BoundaryConsumes \/ BoundaryExhausts \/ WaitForSteer \/ WaitOver \/ Open
                 \/ OpensLater \/ StopMoves
          PROVE  UNCHANGED <<pc, prestarted>>
      BY <3>7, StopKeepsChain DEF BoundaryConsumes, BoundaryExhausts, WaitForSteer, WaitOver, Open,
                                  OpensLater, chainVars
    <3>8. ASSUME NEW i \in Items, Promote(i) \/ Cancel(i) \/ \E d \in Repo!Delivery : Submit(i, d)
          PROVE  UNCHANGED <<pc, prestarted>>
      BY <3>8 DEF Promote, Cancel, Submit, chainVars
    <3>9. ASSUME NEW reason \in StopReasons, StopArrives(reason) PROVE UNCHANGED <<pc, prestarted>>
      BY <3>9 DEF StopArrives
    <3>10. UNCHANGED allVars => UNCHANGED <<pc, prestarted>>
      BY DEF allVars, chainVars
    <3> HIDE DEF Place
    <3> QED
      BY <1>2, <1>5, <3>1, <3>2, <3>3, <3>4, <3>5, <3>6, <3>7, <3>8, <3>9, <3>10, StepsSplit
  <2> QED BY <1>1, <1>3, <2>1, <2>2, <2>4 DEF LeakIsLeft
<1> QED BY <1>4, <1>5

\* Submit and promote aim a Steer only at a Run that has begun.
LEMMA AimedStep ==
  ASSUME Ledger!IInv, SteersNameStartedRuns, [CoordinatorNext]_allVars
  PROVE  SteersNameStartedRuns'
<1>1. SUFFICES ASSUME NEW r \in Runs, r \notin Repo!Started' PROVE SteersFor(r)' = {}
  BY DEF SteersNameStartedRuns
<1>2. r \notin Repo!Started /\ SteersFor(r) = {}
  BY <1>1, LedgerGives, StartedGrows DEF SteersNameStartedRuns
<1>3. ~SteeredNow(r)
  BY <1>2, LedgerGives, SentinelsAreFresh DEF SteeredNow
<1> QED BY <1>2, <1>3, LedgerGives, SteersGrow

\* The Steers of the Run in progress, over a step that keeps the Run.
LEMMA OwnSteersGrow ==
  ASSUME Ledger!IInv, [CoordinatorNext]_allVars, run \in Runs, run' = run, ~SteeredNow(run)
  PROVE  SteersFor(run)' \subseteq SteersFor(run)
<1>1. PICK r \in Runs : r = run
  OBVIOUS
<1>2. SteersFor(r)' \subseteq SteersFor(r)
  BY <1>1, LedgerGives, SteersGrow DEF SteeredNow
<1>3. SteersFor(run)' = SteersFor(r)'
  BY <1>1 DEF SteersFor, Repo!SteersFor, Repo!Pending
<1> QED BY <1>1, <1>2, <1>3

\* A Run ends "aborted" only when a stop came, "completed" only past the gate.
LEMMA ResultStep ==
  ASSUME Ledger!IInv, ChainIsNamed, HandleIsPlaced, LeakIsLeft, RunIsDriven, ResultIsEarned,
         [CoordinatorNext]_allVars
  PROVE  ResultIsEarned'
<1> USE DEF RequeuePlaces
<1>1. CASE Crash \/ Close
  BY <1>1 DEF Crash, Close, NoChain, ResultIsEarned
<1>2. CASE Claims
  BY <1>2 DEF Claims, Claim, ResultIsEarned
<1>3. CASE Open \/ OpensLater
  <2>1. UNCHANGED pc /\ ~opened
    BY <1>3 DEF Open, OpensLater, chainVars
  <2> QED BY <2>1 DEF ChainIsNamed, ResultIsEarned
<1>4. Repo!Terminal = {"completed", "failed", "limited", "aborted"}
  BY DEF Repo!Terminal
<1>5. ASSUME pc \in {"finish", "report"}, result = "completed", run' = run,
             phase' = phase \/ phase' = "stopping"
      PROVE  phase' # "accepting_commands" /\ SteersFor(run)' = {}
  <2>1. run \in Runs /\ phase # "accepting_commands" /\ SteersFor(run) = {}
    BY <1>5 DEF ChainIsNamed, ResultIsEarned
  <2>2. ~SteeredNow(run)
    BY <1>5, <2>1, SteeredWhileAccepting DEF Accepting
  <2> QED BY <1>5, <2>1, <2>2, OwnSteersGrow
<1>6. CASE Unpause \/ CreateHandle \/ Register \/ RegisterRefused \/ Begin \/ BeginRefused
  BY <1>6 DEF Unpause, CreateHandle, Register, RegisterRefused, Begin, BeginRefused, ResultIsEarned
<1>7. CASE BeforeFinish
  <2>1. pc = "finish" /\ run' = run /\ result' = result /\ UNCHANGED <<phase, stoppedFor, registered>>
    BY <1>7 DEF BeforeFinish, handleVars
  <2>2. pc' = "check" => result \in {"failed", "limited"}
    BY <1>4, <1>7, <2>1 DEF BeforeFinish, EndsUnasked, ResultIsEarned
  <2>3. pc' \in {"check", "report"}
    BY <1>7 DEF BeforeFinish
  <2> QED BY <1>4, <1>5, <2>1, <2>2, <2>3 DEF ResultIsEarned
<1>8. CASE ChainThrows \/ HandleLeaks
  BY <1>8, ChainFails DEF ResultIsEarned
<1>9. ASSUME CheckCall \/ PauseCall PROVE ResultIsEarned'
  <2>1. pc \in RequeuePlaces /\ run' = run /\ result' = result /\ UNCHANGED <<registered, stoppedFor>>
    BY <1>9 DEF CheckCall, PauseCall, handleVars
  <2>2. pc' = "report" => registered
    BY <1>9 DEF CheckCall, PauseCall, RunIsDriven
  <2> QED BY <1>4, <1>9, <2>1, <2>2 DEF CheckCall, PauseCall, ResultIsEarned
<1>10. CASE Report \/ Unregister
  BY <1>10 DEF Report, Unregister, ResultIsEarned
<1>11. CASE Settles
  BY <1>11 DEF Settles, HandleIsPlaced, HandlePlaces, ResultIsEarned, handleVars
<1>12. CASE BoundaryFinishes
  <2>1. run \in Runs /\ SteersFor(run) = {} /\ run' = run /\ pc' = "finish" /\ result' = "completed"
        /\ phase' = "closing"
    BY <1>12 DEF BoundaryFinishes, RunEnds, ChainIsNamed
  <2>2. UNCHANGED repoVars
    BY <1>12 DEF BoundaryFinishes, RunEnds
  <2>3. SteersFor(run)' = {}
    BY <2>1, <2>2 DEF SteersFor, Repo!SteersFor, Repo!Pending, repoVars
  <2> QED BY <1>4, <2>1, <2>3 DEF ResultIsEarned
<1>13. CASE RunAborts
  BY <1>4, <1>13 DEF RunAborts, RunEnds, ResultIsEarned
<1>14. CASE RunFails
  BY <1>4, <1>14 DEF RunFails, RunEnds, ResultIsEarned
<1>22. CASE BoundaryThrows
  BY <1>4, <1>22 DEF BoundaryThrows, ResultIsEarned
<1>23. CASE BoundaryExhausts
  BY <1>4, <1>23 DEF BoundaryExhausts, ResultIsEarned, chainVars
<1>15. ASSUME UNCHANGED chainVars, UNCHANGED registered, stoppedFor' # None \/ stoppedFor' = stoppedFor,
              phase' = phase \/ phase' = "stopping"
       PROVE  ResultIsEarned'
  <2>1. UNCHANGED <<pc, run, result>>
    BY <1>15 DEF chainVars
  <2> QED BY <1>4, <1>5, <1>15, <2>1 DEF ResultIsEarned
<1>16. CASE BoundaryConsumes \/ WaitForSteer \/ WaitOver
  BY <1>15, <1>16 DEF BoundaryConsumes, WaitForSteer, WaitOver, handleVars
<1>17. CASE StopMoves
  <2>1. /\ stoppedFor' # None \/ stoppedFor' = stoppedFor
        /\ phase' = phase \/ phase' = "stopping"
    BY <1>17, NoneIsNoReason
       DEF StopMoves, StopStep, StopTakesLock, StopMarks, StopMisses, StopChecks, StopPauses,
           StopThrowsAtRequeue, StopThrows, handleVars, ChainIsNamed, None
  <2> QED BY <1>15, <1>17, <2>1, StopKeepsChain
<1>18. ASSUME NEW i \in Items, Promote(i) \/ Cancel(i) \/ \E d \in Repo!Delivery : Submit(i, d)
       PROVE  ResultIsEarned'
  BY <1>15, <1>18 DEF Promote, Cancel, Submit, handleVars
<1>19. ASSUME NEW reason \in StopReasons, StopArrives(reason) PROVE ResultIsEarned'
  <2>1. UNCHANGED <<pc, run, result, registered, phase, stoppedFor>>
    BY <1>19 DEF StopArrives, handleVars
  <2> QED BY <1>4, <1>5, <2>1 DEF ResultIsEarned
<1>20. CASE Resume \/ \E r \in Runs : Start(r)
  BY <1>20 DEF Start, Resume, ResultIsEarned
<1>21. CASE UNCHANGED allVars
  BY <1>15, <1>21 DEF allVars, handleVars
<1> QED
  BY <1>1, <1>2, <1>3, <1>6, <1>7, <1>8, <1>9, <1>10, <1>11, <1>12, <1>13, <1>14, <1>16, <1>17,
     <1>18, <1>19, <1>20, <1>21, <1>22, <1>23, StepsSplit

\* A step that ends with a handle made it, or kept it, its Run and its place.
LEMMA HandleMoves ==
  ASSUME HandleIsPlaced, [CoordinatorNext]_allVars, registered'
  PROVE  \/ Register
         \/ /\ registered /\ run' = run
            /\ StopMoves \/ UNCHANGED stoppedFor
            /\ pc' \in OpenPlaces => pc \in OpenPlaces
            /\ pc' = "report" => pc \in {"report", "finish"} \cup RequeuePlaces /\ result' = result
<1> DEFINE Kept == /\ registered /\ run' = run
                   /\ StopMoves \/ UNCHANGED stoppedFor
                   /\ pc' \in OpenPlaces => pc \in OpenPlaces
                   /\ pc' = "report" => /\ pc \in {"report", "finish"} \cup RequeuePlaces
                                        /\ result' = result
<1> SUFFICES ASSUME ~Register PROVE Kept
  OBVIOUS
<1> USE DEF OpenPlaces, RequeuePlaces, HandleIsPlaced, HandlePlaces
<1>1. ASSUME Crash \/ Close \/ Unregister PROVE ~registered'
  BY <1>1 DEF Crash, Close, Unregister, NoHandle
<1>2. ASSUME Unpause \/ Claims \/ Settles \/ CreateHandle \/ RegisterRefused
      PROVE  UNCHANGED registered /\ ~registered
  BY <1>2 DEF Unpause, Claims, Settles, CreateHandle, RegisterRefused, handleVars
<1>3. ASSUME Resume \/ \E r \in Runs : Start(r) PROVE UNCHANGED registered /\ ~registered
  BY <1>3 DEF Resume, Start, handleVars
<1>4. ASSUME Begin PROVE Kept
  BY <1>4 DEF Begin, handleVars
<1>5. ASSUME BeforeFinish PROVE Kept
  BY <1>5 DEF BeforeFinish, handleVars
<1>6. ASSUME BeginRefused \/ Report PROVE Kept
  BY <1>6 DEF BeginRefused, Report, handleVars
<1>7. ASSUME ChainThrows \/ HandleLeaks PROVE Kept
  BY <1>7, ChainFails DEF ChainThrows, HandleLeaks, handleVars
<1>8. ASSUME CheckCall PROVE Kept
  BY <1>8 DEF CheckCall, handleVars
<1>9. ASSUME PauseCall PROVE Kept
  BY <1>9 DEF PauseCall, handleVars
<1>11. ASSUME BoundaryFinishes \/ BoundaryThrows \/ RunAborts \/ RunFails PROVE Kept
  BY <1>11 DEF BoundaryFinishes, BoundaryThrows, RunAborts, RunFails, RunEnds
<1>12. ASSUME UNCHANGED <<pc, run, result, registered>>, StopMoves \/ UNCHANGED stoppedFor
       PROVE  Kept
  BY <1>12
<1>13. ASSUME BoundaryConsumes \/ BoundaryExhausts \/ WaitForSteer \/ WaitOver \/ Open \/ OpensLater
              \/ StopMoves
       PROVE  UNCHANGED <<pc, run, result, registered>> /\ (StopMoves \/ UNCHANGED stoppedFor)
  BY <1>13, StopKeepsChain DEF BoundaryConsumes, BoundaryExhausts, WaitForSteer, WaitOver, Open,
               OpensLater, chainVars, handleVars
<1>14. ASSUME NEW i \in Items, Promote(i) \/ Cancel(i) \/ \E d \in Repo!Delivery : Submit(i, d)
       PROVE  UNCHANGED <<pc, run, result, registered, stoppedFor>>
  BY <1>14 DEF Promote, Cancel, Submit, chainVars, handleVars
<1>15. ASSUME NEW reason \in StopReasons, StopArrives(reason)
       PROVE  UNCHANGED <<pc, run, result, registered, stoppedFor>>
  BY <1>15 DEF StopArrives, handleVars
<1>16. ASSUME UNCHANGED allVars PROVE UNCHANGED <<pc, run, result, registered, stoppedFor>>
  BY <1>16 DEF allVars, chainVars, handleVars
<1> HIDE DEF Kept
<1> QED
  BY <1>1, <1>2, <1>3, <1>4, <1>5, <1>6, <1>7, <1>8, <1>9, <1>11, <1>12, <1>13, <1>14, <1>15,
     <1>16, StepsSplit

\* The stop that marks the handle closes its gate in the same step.
LEMMA GateStep ==
  ASSUME ChainIsNamed, HandleIsPlaced, LeakIsLeft, StopClosesGate, [CoordinatorNext]_allVars
  PROVE  StopClosesGate'
<1> USE DEF StopClosesGate
<1>1. CASE Crash \/ Close
  BY <1>1 DEF Crash, Close, NoChain, NoHandle
<1>2. CASE Unpause \/ RegisterRefused
  BY <1>2 DEF Unpause, RegisterRefused, HandleIsPlaced, HandlePlaces, handleVars
<1>3. CASE Claims
  BY <1>3 DEF Claims, Claim, HandleIsPlaced, HandlePlaces, handleVars
<1>4. CASE Resume \/ Settles \/ \E r \in Runs : Start(r)
  BY <1>4 DEF Resume, Settles, Start, HandleIsPlaced, HandlePlaces, handleVars
<1>5. CASE CreateHandle
  BY <1>5 DEF CreateHandle
<1>6. CASE Register
  BY <1>6 DEF Register
<1>7. CASE Begin \/ BeforeFinish \/ BeginRefused
  BY <1>7 DEF Begin, BeforeFinish, BeginRefused, handleVars
<1>8. CASE CheckCall \/ PauseCall \/ Report
  BY <1>8 DEF CheckCall, PauseCall, Report, handleVars
<1>9. CASE Unregister
  BY <1>9 DEF Unregister
<1>10. CASE BoundaryFinishes \/ BoundaryThrows
  BY <1>10 DEF BoundaryFinishes, BoundaryThrows, RunEnds
<1>11. CASE RunAborts \/ RunFails
  BY <1>11 DEF RunAborts, RunFails, RunEnds
<1>12. CASE BoundaryExhausts
  BY <1>12 DEF BoundaryExhausts, chainVars
<1>13. ASSUME UNCHANGED <<pc, registered, phase, stoppedFor>> PROVE StopClosesGate'
  BY <1>13
<1>14. CASE BoundaryConsumes \/ WaitForSteer \/ WaitOver \/ Open \/ OpensLater
  BY <1>13, <1>14 DEF BoundaryConsumes, WaitForSteer, WaitOver, Open, OpensLater, chainVars, handleVars
<1>15. ASSUME NEW i \in Items, Promote(i) \/ Cancel(i) \/ \E d \in Repo!Delivery : Submit(i, d)
       PROVE  StopClosesGate'
  BY <1>13, <1>15 DEF Promote, Cancel, Submit, chainVars, handleVars
<1>16. ASSUME NEW reason \in StopReasons, StopArrives(reason) PROVE StopClosesGate'
  BY <1>13, <1>16 DEF StopArrives, handleVars
<1>17. CASE UNCHANGED allVars
  BY <1>13, <1>17 DEF allVars, chainVars, handleVars
<1>18. CASE StopMoves
  <2>1. UNCHANGED <<phase, stoppedFor>> \/ phase' = "stopping"
    BY <1>18 DEF StopMoves, StopStep, StopTakesLock, StopMarks, StopMisses, StopChecks, StopPauses,
                 StopThrowsAtRequeue, StopThrows, handleVars
  <2> QED BY <1>18, <2>1, StopKeepsChain DEF chainVars
<1>19. CASE ChainThrows \/ HandleLeaks
  BY <1>19, ChainFails DEF handleVars
<1> QED
  BY <1>1, <1>2, <1>3, <1>4, <1>5, <1>6, <1>7, <1>8, <1>9, <1>10, <1>11, <1>12, <1>14, <1>15,
     <1>16, <1>17, <1>18, <1>19, StepsSplit

\* A Run that has not begun, or whose handle does not exist yet, has no Steers.
LEMMA EarlyStep ==
  ASSUME Ledger!IInv, ChainIsNamed, HandleIsPlaced, LeakIsLeft, RunIsDriven, EarlyRunIsUnsteered,
         SteersNameStartedRuns, [CoordinatorNext]_allVars
  PROVE  EarlyRunIsUnsteered'
<1> SUFFICES ASSUME pc' \in EarlyPlaces PROVE SteersFor(run)' = {}
  BY DEF EarlyRunIsUnsteered
<1> USE DEF EarlyPlaces
<1>1. CASE Claims
  <2>1. PICK r \in Runs : r \in Fresh /\ run' = r /\ UNCHANGED <<stopper, leaked>>
    BY <1>1 DEF Claims, Claim, Fresh, faultVars
  <2>2. r \notin Repo!Started
    BY <2>1 DEF Fresh
  <2>3. SteersFor(r) = {} /\ ~SteeredNow(r)
    BY <2>2, LedgerGives, SentinelsAreFresh DEF SteersNameStartedRuns, SteeredNow
  <2>4. SteersFor(r)' = {}
    BY <2>3, LedgerGives, SteersGrow
  <2>5. SteersFor(run)' = SteersFor(r)'
    BY <2>1 DEF SteersFor, Repo!SteersFor, Repo!Pending
  <2> QED BY <2>4, <2>5
<1>2. CASE ~Claims
  <2>1. pc \in {"unpause", "load", "register"} /\ run' = run
    <3>1. CASE Unpause \/ CreateHandle \/ Register
      BY <3>1 DEF Unpause, CreateHandle, Register
    <3>2. ASSUME \/ RegisterRefused \/ Begin \/ BeforeFinish \/ BeginRefused \/ CheckCall \/ PauseCall
                 \/ Report \/ Unregister \/ Settles
          PROVE  FALSE
      BY <3>2 DEF RegisterRefused, Begin, BeforeFinish, BeginRefused, CheckCall, PauseCall, Report,
                  Unregister, Settles
    <3>3. ASSUME \/ Close \/ BoundaryFinishes \/ BoundaryThrows \/ RunAborts \/ RunFails \/ Crash
                 \/ Resume \/ \E r \in Runs : Start(r)
          PROVE  FALSE
      BY <3>3 DEF Close, NoChain, BoundaryFinishes, BoundaryThrows, RunAborts, RunFails, RunEnds, Crash,
                  Resume, Start
    <3>4. ASSUME ChainThrows \/ HandleLeaks PROVE FALSE
      BY <3>4, ChainFails
    <3>5. ASSUME \/ BoundaryConsumes \/ BoundaryExhausts \/ WaitForSteer \/ WaitOver \/ Open
                 \/ OpensLater \/ StopMoves
          PROVE  UNCHANGED <<pc, run>>
      BY <3>5, StopKeepsChain DEF BoundaryConsumes, BoundaryExhausts, WaitForSteer, WaitOver, Open,
                                  OpensLater, chainVars
    <3>6. ASSUME NEW i \in Items, Promote(i) \/ Cancel(i) \/ \E d \in Repo!Delivery : Submit(i, d)
          PROVE  UNCHANGED <<pc, run>>
      BY <3>6 DEF Promote, Cancel, Submit, chainVars
    <3>7. ASSUME NEW reason \in StopReasons, StopArrives(reason) PROVE UNCHANGED <<pc, run>>
      BY <3>7 DEF StopArrives
    <3>8. ASSUME UNCHANGED allVars PROVE UNCHANGED <<pc, run>>
      BY <3>8 DEF allVars, chainVars
    <3> QED BY <1>2, <3>1, <3>2, <3>3, <3>4, <3>5, <3>6, <3>7, <3>8, StepsSplit
  <2>2. run \in Runs
    BY <2>1 DEF ChainIsNamed
  <2>3. ~SteeredNow(run)
    BY <2>1, <2>2, SteeredWhileAccepting DEF Accepting, HandleIsPlaced, HandlePlaces
  <2>4. SteersFor(run) = {}
    BY <2>1, <2>2 DEF EarlyRunIsUnsteered, SteersNameStartedRuns, RunIsDriven
  <2> QED BY <2>1, <2>2, <2>3, <2>4, OwnSteersGrow
<1> QED BY <1>1, <1>2

\* A step that ends with a stop at work moved that stop on, or left it where it was.
LEMMA StopperMoves ==
  ASSUME [CoordinatorNext]_allVars
  PROVE  UNCHANGED stopper \/ StopMoves \/ Crash \/ stopper.at = None
BY ChainLeavesStop DEF Register, Unregister, Claims, Close, Start, HandleLeaks, StopArrives

\* Only a stop that marks a handle says whether the Steers of its Run were requeued.
LEMMA UnrequeuedMoves ==
  ASSUME [CoordinatorNext]_allVars
  PROVE  StopTakesLock \/ StopThrowsAtRequeue \/ UNCHANGED unrequeued
<1>1. ASSUME \/ Unpause \/ Claims \/ Settles \/ CreateHandle \/ Register \/ RegisterRefused \/ Begin
             \/ BeginRefused \/ BeforeFinish \/ CheckCall \/ PauseCall \/ Report \/ Unregister \/ Close
      PROVE  UNCHANGED unrequeued
  BY <1>1 DEF Unpause, Claims, Settles, CreateHandle, Register, RegisterRefused, Begin, BeginRefused,
              BeforeFinish, CheckCall, PauseCall, Report, Unregister, Close, faultVars
<1>2. ASSUME \/ BoundaryConsumes \/ BoundaryExhausts \/ BoundaryFinishes \/ BoundaryThrows \/ RunAborts
             \/ RunFails \/ WaitForSteer \/ WaitOver
      PROVE  UNCHANGED unrequeued
  BY <1>2 DEF BoundaryConsumes, BoundaryExhausts, BoundaryFinishes, BoundaryThrows, RunAborts, RunFails,
              RunEnds, WaitForSteer, WaitOver, faultVars
<1>3. ASSUME StopMoves PROVE StopTakesLock \/ StopThrowsAtRequeue \/ UNCHANGED unrequeued
  BY <1>3 DEF StopMoves, StopStep, StopMisses, StopChecks, StopPauses, StopThrows, faultVars
<1>4. ASSUME NEW i \in Items, Promote(i) \/ Cancel(i) \/ \E d \in Repo!Delivery : Submit(i, d)
      PROVE  UNCHANGED unrequeued
  BY <1>4 DEF Promote, Cancel, Submit, faultVars
<1>5. ASSUME Resume \/ (\E r \in Runs : Start(r)) \/ (\E reason \in StopReasons : StopArrives(reason))
      PROVE  UNCHANGED unrequeued
  BY <1>5 DEF Resume, Start, StopArrives, faultVars
<1>6. ASSUME Crash \/ Open \/ OpensLater \/ UNCHANGED allVars PROVE UNCHANGED unrequeued
  BY <1>6 DEF Crash, Open, OpensLater, allVars, faultVars
<1> QED BY <1>1, <1>2, <1>3, <1>4, <1>5, <1>6, ChainFails, StepsSplit

\* A stop that finds the Run still short of its report requeues its Steers, unless
\* that call throws; no Steer arrives after the gate has closed.
LEMMA RequeuesFirstStep ==
  ASSUME Ledger!IInv, CoordinatorTypeOK, ChainIsNamed, HandleIsPlaced, LeakIsLeft, RunIsDriven,
         ResultIsEarned, StopClosesGate, EarlyRunIsUnsteered, StopRequeuesFirst,
         [CoordinatorNext]_allVars
  PROVE  StopRequeuesFirst'
<1> DEFINE InTime(p, res) == p \in OpenPlaces \/ (p = "report" /\ res = "aborted")
<1>1. SUFFICES ASSUME registered', stoppedFor' # None, InTime(pc', result')
               PROVE  SteersFor(run)' = {} \/ run' \in unrequeued'
  BY DEF StopRequeuesFirst, None, OpenPlaces
<1>2. CASE Register
  <2>1. pc = "register" /\ run' = run
    BY <1>2 DEF Register
  <2>2. SteersFor(run) = {} /\ run \in Runs
    BY <2>1 DEF EarlyRunIsUnsteered, EarlyPlaces, ChainIsNamed
  <2>3. ~SteeredNow(run)
    BY <2>1, <2>2, SteeredWhileAccepting DEF Accepting, HandleIsPlaced, HandlePlaces
  <2> QED BY <2>1, <2>2, <2>3, OwnSteersGrow
<1>3. CASE ~Register
  <2>1. /\ registered /\ run' = run
        /\ StopMoves \/ UNCHANGED stoppedFor
        /\ pc' \in OpenPlaces => pc \in OpenPlaces
        /\ pc' = "report" => pc \in {"report", "finish"} \cup RequeuePlaces /\ result' = result
    BY <1>1, <1>3, HandleMoves
  <2>2. InTime(pc, result)
    BY <1>1, <2>1 DEF ResultIsEarned, OpenPlaces, RequeuePlaces
  <2>3. run \in Runs /\ pc \notin {"idle", "close", "register"}
    BY <2>1 DEF ChainIsNamed, HandleIsPlaced, HandlePlaces
  <2>4. ASSUME Requeue(run) PROVE SteersFor(run)' = {}
    BY <2>1, <2>4 DEF Requeue, Repo!RequeueSteers, Repo!Requeue, SteersFor, Repo!SteersFor,
                      Repo!Pending, repoVars
  <2>5. leaked = NoLeak
    BY <2>2 DEF LeakIsLeft, OpenPlaces
  <2>6. CASE StopTakesLock \/ StopThrowsAtRequeue
    <3>1. run = stopper.runId
      <4>1. StopMarks /\ stopper.runId \in Runs
        BY <2>6 DEF StopTakesLock, StopThrowsAtRequeue, StopMarks, ChainIsNamed, None
      <4> QED BY <2>5, <4>1, SentinelsAreFresh DEF StopMarks, NoLeak
    <3> QED BY <2>1, <2>4, <2>6, <3>1 DEF StopTakesLock, StopThrowsAtRequeue
  <2>7. CASE ~StopTakesLock /\ ~StopThrowsAtRequeue
    <3>1. UNCHANGED stoppedFor
      BY <2>1, <2>7 DEF StopMoves, StopStep, StopMisses, StopChecks, StopPauses, StopThrows, handleVars
    <3>2. SteersFor(run) = {} \/ run \in unrequeued
      BY <1>1, <2>1, <2>2, <3>1 DEF StopRequeuesFirst
    <3>3. ~SteeredNow(run)
      BY <1>1, <2>1, <2>3, <3>1, SteeredWhileAccepting DEF Accepting, StopClosesGate
    <3>4. UNCHANGED unrequeued
      BY <2>7, UnrequeuedMoves
    <3> QED BY <2>1, <2>3, <3>2, <3>3, <3>4, OwnSteersGrow
  <2> QED BY <2>6, <2>7
<1> QED BY <1>2, <1>3

\* No report of a natural end or of a stop is written over a waiting Steer.
LEMMA GracefulStep ==
  ASSUME Ledger!IInv, CoordinatorTypeOK, ChainIsNamed, HandleIsPlaced, RunIsDriven, ResultIsEarned,
         StopRequeuesFirst, GracefulEndStrandsNoSteer, [CoordinatorNext]_allVars
  PROVE  GracefulEndStrandsNoSteer'
<1>1. SUFFICES ASSUME NEW r \in Runs, runReports'[r] \in {"completed", "aborted"}, r \notin unrequeued'
               PROVE  SteersFor(r)' = {}
  BY DEF GracefulEndStrandsNoSteer
<1>2. CASE runReports[r] \in {"completed", "aborted"}
  <2>1. CASE r \in unrequeued
    <3>1. StopTakesLock /\ Requeue(r)
      BY <1>1, <2>1, UnrequeuedMoves DEF StopTakesLock, StopThrowsAtRequeue
    <3> QED BY <3>1 DEF Requeue, Repo!RequeueSteers, Repo!Requeue, SteersFor, Repo!SteersFor,
                        Repo!Pending, repoVars
  <2>2. CASE r \notin unrequeued
    <3>1. SteersFor(r) = {}
      BY <1>2, <2>2 DEF GracefulEndStrandsNoSteer
    <3>2. activeTaskId # r
      BY <1>2, LedgerGives
    <3>3. ~SteeredNow(r)
      BY <3>2 DEF SteeredNow
    <3> QED BY <3>1, <3>3, LedgerGives, SteersGrow
  <2> QED BY <2>1, <2>2
<1>3. CASE runReports[r] \notin {"completed", "aborted"}
  <2>1. runReports' # runReports
    BY <1>1, <1>3
  <2>2. CASE Report
    <3>1. r = run /\ result \in {"completed", "aborted"} /\ run' = run /\ pc = "report"
          /\ unrequeued' = unrequeued
      BY <1>1, <1>3, <2>2, LedgerGives
         DEF Report, Repo!FinishRun, Repo!TypeOK, faultVars
    <3>2. SteersFor(run) = {}
      <4>1. CASE result = "completed"
        BY <3>1, <4>1 DEF ResultIsEarned
      <4>2. CASE result = "aborted"
        <5>1. registered /\ stoppedFor # None
          BY <3>1, <4>2 DEF HandleIsPlaced, ResultIsEarned
        <5> QED BY <1>1, <3>1, <4>2, <5>1 DEF StopRequeuesFirst
      <4> QED BY <3>1, <4>1, <4>2
    <3>3. UNCHANGED <<status, delivery, targetRunId>>
      BY <2>2 DEF Report, Repo!FinishRun, Repo!queueVars
    <3> QED BY <3>1, <3>2, <3>3 DEF SteersFor, Repo!SteersFor, Repo!Pending
  <2>3. CASE ~Report
    <3>1. Claims \/ Begin => UNCHANGED runReports
      BY DEF Claims, Claim, Repo!BeginRunFromQueue, repoVars, Begin, Repo!BeginRun
    <3>2. Open
      BY <2>1, <2>3, <3>1, CallsLeaveAlone
    <3>3. runReports'[r] = runReports[r] \/ runReports'[r] = "failed"
      BY <3>2, LedgerGives
         DEF Open, Repo!LoadSession, Repo!RecoverInterruptedRun, Repo!PauseRecoveredQueue,
             Repo!LoadUnchanged, Repo!runVars, Repo!TypeOK
    <3> QED BY <1>1, <1>3, <3>3
  <2> QED BY <2>2, <2>3
<1> QED BY <1>2, <1>3

\* The check of waitForSteer and its registration are one step, and every step
\* that aims a Steer at the Run or stops it also wakes the waiter.
LEMMA WakeupStep ==
  ASSUME Ledger!IInv, ChainIsNamed, HandleIsPlaced, LeakIsLeft, NoLostWakeup,
         [CoordinatorNext]_allVars, HandleIsPlaced'
  PROVE  NoLostWakeup'
<1> SUFFICES ASSUME waiting' PROVE SteersFor(run)' = {} /\ registered' /\ stoppedFor' = None
  BY DEF NoLostWakeup
<1>1. registered' /\ pc' = "running"
  BY DEF HandleIsPlaced
<1>2. CASE WaitForSteer
  <2>1. UNCHANGED repoVars /\ run' = run /\ stoppedFor' = None /\ SteersFor(run) = {}
    BY <1>2 DEF WaitForSteer, chainVars
  <2> QED BY <1>1, <2>1 DEF SteersFor, Repo!SteersFor, Repo!Pending, repoVars
<1>3. CASE ~WaitForSteer
  <2>1. waiting
    <3>1. ASSUME Crash \/ Close \/ Unregister \/ WaitOver PROVE FALSE
      BY <3>1 DEF Crash, Close, NoHandle, Unregister, WaitOver
    <3>2. ASSUME \/ Unpause \/ Claims \/ Settles \/ CreateHandle \/ Register \/ RegisterRefused \/ Begin
                 \/ BeforeFinish \/ BeginRefused \/ CheckCall \/ PauseCall \/ Report
          PROVE  UNCHANGED waiting
      BY <3>2 DEF Unpause, Claims, Settles, CreateHandle, Register, RegisterRefused, Begin, BeforeFinish,
                  BeginRefused, CheckCall, PauseCall, Report, handleVars
    <3>3. ASSUME \/ BoundaryConsumes \/ BoundaryExhausts \/ BoundaryFinishes \/ BoundaryThrows \/ RunAborts
                 \/ RunFails \/ Open \/ OpensLater
          PROVE  UNCHANGED waiting
      BY <3>3 DEF BoundaryConsumes, BoundaryExhausts, BoundaryFinishes, BoundaryThrows, RunAborts,
                  RunFails, RunEnds, Open, OpensLater, handleVars
    <3>4. ASSUME StopMoves PROVE waiting
      BY <3>4 DEF StopMoves, StopStep, StopTakesLock, StopMarks, StopMisses, StopChecks, StopPauses,
                  StopThrowsAtRequeue, StopThrows, handleVars
    <3>5. ASSUME NEW i \in Items, Promote(i) \/ Cancel(i) \/ \E d \in Repo!Delivery : Submit(i, d)
          PROVE  waiting
      BY <3>5 DEF Promote, Cancel, Submit, handleVars
    <3>6. ASSUME \/ Resume \/ (\E r \in Runs : Start(r))
                 \/ (\E reason \in StopReasons : StopArrives(reason))
          PROVE  UNCHANGED waiting
      BY <3>6 DEF Resume, Start, StopArrives, handleVars
    <3>7. UNCHANGED allVars => UNCHANGED waiting
      BY DEF allVars, handleVars
    <3>8. ChainThrows \/ HandleLeaks => UNCHANGED waiting
      BY ChainFails DEF handleVars
    <3> QED BY <1>3, <3>1, <3>2, <3>3, <3>4, <3>5, <3>6, <3>7, <3>8, StepsSplit
  <2>2. registered /\ pc = "running" /\ run \in Runs /\ SteersFor(run) = {} /\ stoppedFor = None
    BY <2>1 DEF HandleIsPlaced, ChainIsNamed, NoLostWakeup
  <2>3. ~Register /\ (StopMoves => UNCHANGED stoppedFor)
    <3>1. ~StopMarks
      <4>1. leaked.runId = NoRun
        BY <2>2 DEF LeakIsLeft, NoLeak
      <4>2. StopMarks => stopper.runId \in Runs /\ leaked.runId = stopper.runId
        BY DEF StopMarks, ChainIsNamed
      <4> QED BY <4>1, <4>2, SentinelsAreFresh
    <3> QED BY <2>2, <3>1 DEF Register, StopMoves, StopStep, StopTakesLock, StopMisses, StopChecks,
                              StopPauses, StopThrowsAtRequeue, StopThrows, handleVars
  <2>4. run' = run /\ UNCHANGED stoppedFor
    BY <1>1, <2>3, HandleMoves
  <2>5. ~SteeredNow(run)
    BY DEF SteeredNow
  <2> QED BY <1>1, <2>2, <2>4, <2>5, OwnSteersGrow
<1> QED BY <1>2, <1>3

-------------------------------------------------------------------------------
(* The pause of the Queue *)

\* The ways the pause of the Queue, and its operations, change in a step.
LEMMA PauseMoves ==
  ASSUME Repo!TypeOK, CoordinatorTypeOK, [CoordinatorNext]_allVars, NEW r \in Runs
  PROVE  /\ queuePaused => queuePaused' \/ Unpause \/ Claims
         /\ PausedInTheNameOf(r)' => \/ PausedInTheNameOf(r)
                                     \/ queuePaused' /\ PauseCall /\ run = r
                                     \/ queuePaused' /\ StopPauses /\ stopper.runId = r
<1> DEFINE Stands == queuePaused => queuePaused'
           NoName == PausedInTheNameOf(r)' => PausedInTheNameOf(r)
<1> USE DEF PausedInTheNameOf
<1>1. ASSUME UNCHANGED <<queuePaused, operations>> PROVE Stands /\ NoName
  BY <1>1
<1>2. ASSUME NEW p \in BOOLEAN, NEW op, SetPaused(p, op)
      PROVE  /\ queuePaused' = queuePaused \/ queuePaused' = p
             /\ NoName \/ (queuePaused' = p /\ op[1] = "terminal" /\ op[2] = r)
  <2>1. CASE UNCHANGED repoVars
    BY <2>1 DEF repoVars
  <2>2. CASE Repo!SetQueuePaused(p, op)
    BY <2>2 DEF Repo!SetQueuePaused, Repo!Log
  <2> QED BY <1>2, <2>1, <2>2 DEF SetPaused
<1>3. ASSUME Unpause PROVE NoName
  <2>1. <<"start", run>>[1] # "terminal"
    OBVIOUS
  <2> QED BY <1>2, <1>3, <2>1 DEF Unpause
<1>4. ASSUME Claims PROVE NoName
  BY <1>4 DEF Claims, Claim, Repo!BeginRunFromQueue, repoVars
<1>5. ASSUME Begin \/ Report \/ BoundaryConsumes PROVE UNCHANGED <<queuePaused, operations>>
  BY <1>5 DEF Begin, Repo!BeginRun, Report, Repo!FinishRun, BoundaryConsumes, Repo!ConsumeSteer,
              repoVars
<1>6. ASSUME NEW q, Requeue(q) PROVE UNCHANGED <<queuePaused, operations>>
  BY <1>6 DEF Requeue, Repo!RequeueSteers, repoVars
<1>7. ASSUME PauseCall PROVE Stands /\ (NoName \/ (queuePaused' /\ run = r))
  <2> DEFINE op == <<"terminal", run, IF Reported THEN chainStop ELSE "failure">>
  <2>1. SetPaused(TRUE, op)
    BY <1>7 DEF PauseCall
  <2>2. op[2] = run
    OBVIOUS
  <2> HIDE DEF op
  <2> QED BY <1>2, <2>1, <2>2
<1>8. ASSUME StopPauses PROVE Stands /\ (NoName \/ (queuePaused' /\ stopper.runId = r))
  <2>1. CASE stopper.runId = NoRun
    <3>1. SetPaused(TRUE, <<"chain", stopper.chain, stopper.reason>>)
      BY <1>8, <2>1 DEF StopPauses
    <3>2. <<"chain", stopper.chain, stopper.reason>>[1] # "terminal"
      OBVIOUS
    <3> QED BY <1>2, <3>1, <3>2
  <2>2. CASE stopper.runId # NoRun
    <3>1. SetPaused(TRUE, <<"terminal", stopper.runId, stopper.reason>>)
      BY <1>8, <2>2 DEF StopPauses
    <3>2. <<"terminal", stopper.runId, stopper.reason>>[2] = stopper.runId
      OBVIOUS
    <3> QED BY <1>2, <3>1, <3>2
  <2> QED BY <2>1, <2>2
<1>9. ASSUME NEW i \in Items, NEW d \in Repo!Delivery, Submit(i, d) PROVE Stands /\ NoName
  BY <1>9 DEF Submit, Repo!EnqueueQueueItem, Repo!Log
<1>10. ASSUME NEW i \in Items, Promote(i) PROVE Stands /\ NoName
  BY <1>10 DEF Promote, Repo!PromoteQueueItem, Repo!Log
<1>11. ASSUME NEW i \in Items, Cancel(i) PROVE Stands /\ NoName
  BY <1>11 DEF Cancel, Repo!CancelQueueItem, Repo!Log
<1>12. ASSUME Crash PROVE Stands /\ NoName
  BY <1>12 DEF Crash, Repo!Crash
<1>13. ASSUME Open PROVE Stands /\ NoName
  <2>1. operations' = operations /\ (queuePaused' = queuePaused \/ queuePaused' = TRUE
                                    \/ queuePaused' = (queuePaused \/ Pending # {}))
    BY <1>13 DEF Open, Repo!LoadSession, Repo!RecoverInterruptedRun, Repo!PauseRecoveredQueue,
                 Repo!LoadUnchanged, Pending
  <2> QED BY <2>1 DEF Repo!TypeOK
<1>14. UNCHANGED repoVars => UNCHANGED <<queuePaused, operations>>
  BY DEF repoVars
<1>15. ASSUME OpensLater PROVE Stands /\ NoName
  <2>1. UNCHANGED <<queuePaused, operations>>
    BY <1>15 DEF OpensLater, Repo!LoadFails, Repo!ReplayMaterializeRun
  <2> QED BY <1>1, <2>1
<1> HIDE DEF Stands, NoName
<1>16. Stands \/ Unpause \/ Claims
  BY <1>1, <1>5, <1>6, <1>7, <1>8, <1>9, <1>10, <1>11, <1>12, <1>13, <1>14, <1>15, QuietSteps
<1>17. NoName \/ (queuePaused' /\ PauseCall /\ run = r) \/ (queuePaused' /\ StopPauses /\ stopper.runId = r)
  BY <1>1, <1>3, <1>4, <1>5, <1>6, <1>7, <1>8, <1>9, <1>10, <1>11, <1>12, <1>13, <1>14, <1>15, QuietSteps
<1> QED BY <1>16, <1>17 DEF Stands, NoName

\* A step that ends with the chain at work on a Run gave it that Run, or found it
\* at work on it.
LEMMA RunMoves ==
  ASSUME HandleIsPlaced, [CoordinatorNext]_allVars, pc' \notin {"idle", "resume", "close"}
  PROVE  \/ \E r \in Runs : Start(r)
         \/ Claims /\ pc' = "load" /\ run' \in Fresh
         \/ Unpause
         \/ /\ pc \notin {"idle", "resume", "close"}
            /\ run' = run
            /\ pc' = "unpause" <=> pc = "unpause"
<1> DEFINE Same == /\ pc \notin {"idle", "resume", "close"}
                   /\ run' = run
                   /\ pc' = "unpause" <=> pc = "unpause"
<1>1. ASSUME Claims PROVE pc' = "load" /\ run' \in Fresh
  BY <1>1 DEF Claims, Claim
<1>2. ASSUME Close \/ Resume \/ Crash \/ RegisterRefused PROVE FALSE
  BY <1>2 DEF Close, Resume, Crash, NoChain, RegisterRefused
<1>3. ASSUME CreateHandle \/ Register \/ Begin \/ BeforeFinish \/ BeginRefused PROVE Same
  BY <1>3 DEF CreateHandle, Register, Begin, BeforeFinish, BeginRefused
<1>4. ASSUME CheckCall \/ PauseCall \/ Report \/ Unregister \/ Settles PROVE Same
  BY <1>4 DEF CheckCall, PauseCall, Report, Unregister, Settles
<1>5. ASSUME BoundaryFinishes \/ BoundaryThrows \/ RunAborts \/ RunFails PROVE Same
  BY <1>5 DEF BoundaryFinishes, BoundaryThrows, RunAborts, RunFails, RunEnds
<1>6. ASSUME UNCHANGED <<pc, run>> PROVE Same
  BY <1>6
<1>7. ASSUME \/ BoundaryConsumes \/ BoundaryExhausts \/ WaitForSteer \/ WaitOver \/ Open \/ OpensLater
             \/ StopMoves
      PROVE  UNCHANGED <<pc, run>>
  BY <1>7, StopKeepsChain
     DEF BoundaryConsumes, BoundaryExhausts, WaitForSteer, WaitOver, Open, OpensLater, chainVars
<1>8. ASSUME NEW i \in Items, Promote(i) \/ Cancel(i) \/ \E d \in Repo!Delivery : Submit(i, d)
      PROVE  UNCHANGED <<pc, run>>
  BY <1>8 DEF Promote, Cancel, Submit, chainVars
<1>9. ASSUME NEW reason \in StopReasons, StopArrives(reason) PROVE UNCHANGED <<pc, run>>
  BY <1>9 DEF StopArrives
<1>10. ASSUME UNCHANGED allVars PROVE UNCHANGED <<pc, run>>
  BY <1>10 DEF allVars, chainVars
<1>11. ASSUME ChainThrows \/ HandleLeaks PROVE Same
  BY <1>11, ChainFails DEF HandleIsPlaced, HandlePlaces
<1> HIDE DEF Same
<1>12. (\E r \in Runs : Start(r)) \/ Claims \/ Unpause \/ Same
  BY <1>2, <1>3, <1>4, <1>5, <1>6, <1>7, <1>8, <1>9, <1>10, <1>11, StepsSplit
<1> QED BY <1>1, <1>12 DEF Same

\* A pause written for a Run is lifted only where the chain leaves that Run.
LEMMA PauseStep ==
  ASSUME Ledger!IInv, CoordinatorTypeOK, ChainIsNamed, HandleIsPlaced, StopHoldsHandle, LeakIsLeft,
         RunIsDriven, PauseStands, [CoordinatorNext]_allVars
  PROVE  PauseStands'
<1> DEFINE AtWork(p) == p \notin {"idle", "resume", "close"}
<1>1. SUFFICES ASSUME AtWork(pc')
               PROVE  /\ ~PausedInTheNameOf(run)' \/ (queuePaused' /\ pc' # "unpause")
  BY DEF PauseStands, PausedInTheNameOf
<1>2. ASSUME NEW r \in Runs, Start(r) PROVE ~PausedInTheNameOf(run)'
  <2>1. run' = r /\ operations' = operations /\ ~Named(r)
    BY <1>2 DEF Start, Fresh, repoVars
  <2> QED BY <2>1 DEF Named, PausedInTheNameOf
<1>3. CASE Claims
  <2>1. run' \in Fresh /\ operations' = operations
    BY <1>1, <1>3 DEF Claims, Claim, Repo!BeginRunFromQueue, repoVars
  <2> QED BY <2>1 DEF Fresh, Named, PausedInTheNameOf
<1>4. ASSUME pc = "unpause", StopPauses PROVE stopper.runId # run
  \* The Run that waits for its prompt has not begun, a Run with a handle has.
  <2>1. run \notin Repo!Started /\ run \in Runs /\ ~registered
    BY <1>4 DEF RunIsDriven, ChainIsNamed, HandleIsPlaced, HandlePlaces
  <2>2. stopper.runId # NoRun => leaked.runId = stopper.runId
    BY <1>4, <2>1 DEF StopPauses, StopHoldsHandle, StopInside, RequeuePlaces
  <2>3. leaked.runId \in Repo!Started \cup {NoRun}
    BY DEF LeakIsLeft, NoLeak
  <2> QED BY <2>1, <2>2, <2>3, SentinelsAreFresh
<1>5. CASE Unpause
  <2>1. run' = run /\ run \in Runs /\ ~PausedInTheNameOf(run) /\ pc = "unpause"
    BY <1>5 DEF Unpause, ChainIsNamed, PauseStands
  <2>2. PICK r \in Runs : r = run
    BY <2>1
  <2>3. ~PauseCall /\ (~StopPauses \/ stopper.runId # r)
    BY <1>4, <2>1, <2>2 DEF PauseCall
  <2>4. ~PausedInTheNameOf(r)'
    <3>1. ~PausedInTheNameOf(r)
      BY <2>1, <2>2 DEF PausedInTheNameOf
    <3> QED BY <3>1, <2>3, PauseMoves DEF CoordinatorTypeOK
  <2> QED BY <2>1, <2>2, <2>4 DEF PausedInTheNameOf
<1>6. ASSUME ~Unpause, ~Claims, AtWork(pc), run' = run, pc' = "unpause" <=> pc = "unpause"
      PROVE  ~PausedInTheNameOf(run)' \/ (queuePaused' /\ pc' # "unpause")
  <2>1. PICK r \in Runs : r = run
    BY <1>6 DEF ChainIsNamed
  <2>2. PausedInTheNameOf(run)' <=> PausedInTheNameOf(r)'
    BY <1>6, <2>1 DEF PausedInTheNameOf
  <2>3. PausedInTheNameOf(run) <=> PausedInTheNameOf(r)
    BY <2>1 DEF PausedInTheNameOf
  <2>4. CASE pc = "unpause"
    <3>1. ~PausedInTheNameOf(r) /\ ~PauseCall
      BY <2>3, <2>4 DEF PauseStands, PauseCall
    <3>2. StopPauses => stopper.runId # r
      BY <1>4, <2>1, <2>4
    <3> QED BY <2>2, <3>1, <3>2, PauseMoves DEF CoordinatorTypeOK
  <2>5. CASE pc # "unpause"
    <3>1. queuePaused \/ ~PausedInTheNameOf(r)
      BY <1>6, <2>3, <2>5 DEF PauseStands
    <3>2. queuePaused' \/ ~PausedInTheNameOf(r)'
      BY <1>6, <3>1, PauseMoves DEF CoordinatorTypeOK
    <3> QED BY <1>6, <2>2, <2>5, <3>2
  <2> QED BY <2>4, <2>5
<1> QED BY <1>1, <1>2, <1>3, <1>5, <1>6, RunMoves

-------------------------------------------------------------------------------
(* The invariant *)

\* The invariant is inductive.
LEMMA InvariantStep == CoordinatorIInv /\ [CoordinatorNext]_allVars => CoordinatorIInv'
<1> SUFFICES ASSUME CoordinatorIInv, [CoordinatorNext]_allVars PROVE CoordinatorIInv'
  OBVIOUS
<1>1. Ledger!IInv'
  BY LedgerStep
<1>2. Repo!TypeOK'
  BY <1>1, LedgerGives, PTL
<1>3. Ledger!IInv /\ Control
  BY DEF CoordinatorIInv
<1> USE <1>3 DEF Control
<1>4. CoordinatorTypeOK' /\ ChainIsNamed' /\ HandleIsPlaced' /\ StopHoldsHandle' /\ LeakIsLeft'
  BY <1>2, TypeStep, NamedStep, PlacedStep, HoldsStep, LeakStep
<1>5. RunIsDriven' /\ ResultIsEarned'
  BY DrivenStep, ResultStep
<1>6. StopClosesGate' /\ EarlyRunIsUnsteered' /\ StopRequeuesFirst' /\ SteersNameStartedRuns'
  BY GateStep, EarlyStep, RequeuesFirstStep, AimedStep
<1>7. PauseStands' /\ NoLostWakeup' /\ GracefulEndStrandsNoSteer'
  BY <1>4, PauseStep, WakeupStep, GracefulStep
<1> QED BY <1>1, <1>4, <1>5, <1>6, <1>7 DEF CoordinatorIInv

\* The invariant holds of an idle coordinator over an empty Session.
LEMMA InvariantStarts == CoordinatorInit => CoordinatorIInv
<1> SUFFICES ASSUME CoordinatorInit PROVE CoordinatorIInv
  OBVIOUS
<1>1. Ledger!Init
  BY DEF CoordinatorInit, Repo!Init, Ledger!Init
<1>2. Ledger!IInv
  BY <1>1, LedgerAssumptions, Ledger!InitEstablishes
<1>3. CoordinatorTypeOK
  <2>1. budget \in Budgets /\ 0 \in 0 .. MaxChains
    BY BoundsAreNats DEF CoordinatorInit, Budgets
  <2>2. stopper \in StopCalls
    BY StopCallsProceed DEF CoordinatorInit
  <2> QED BY <1>2, <2>1, <2>2, LedgerGives
          DEF CoordinatorInit, CoordinatorTypeOK, ChainPlaces, Phases, NoLeak
<1>4. /\ pc = "idle" /\ ~registered /\ ~waiting /\ stopper.at = None /\ leaked = NoLeak
      /\ Pending = {} /\ \A r \in Runs : runReports[r] = "none"
  BY DEF CoordinatorInit, Repo!Init, NoStop, Pending, Repo!Pending
<1>5. \A r \in Runs : SteersFor(r) = {}
  BY <1>4 DEF SteersFor, Repo!SteersFor, Pending
<1>6. ChainIsNamed /\ HandleIsPlaced /\ StopHoldsHandle /\ LeakIsLeft
  BY <1>4 DEF ChainIsNamed, HandleIsPlaced, StopHoldsHandle, StopInside, RequeuePlaces, LeakIsLeft, None
<1>7. RunIsDriven /\ ResultIsEarned
  BY <1>4 DEF RunIsDriven, ResultIsEarned, RequeuePlaces
<1>8. StopClosesGate /\ EarlyRunIsUnsteered /\ StopRequeuesFirst /\ SteersNameStartedRuns /\ PauseStands
  BY <1>4, <1>5 DEF StopClosesGate, EarlyRunIsUnsteered, StopRequeuesFirst, SteersNameStartedRuns,
                    PauseStands, EarlyPlaces
<1>9. NoLostWakeup /\ GracefulEndStrandsNoSteer
  BY <1>4, <1>5 DEF NoLostWakeup, GracefulEndStrandsNoSteer
<1> QED BY <1>2, <1>3, <1>6, <1>7, <1>8, <1>9 DEF CoordinatorIInv, Control

\* The invariant holds in every reachable state.
LEMMA InvariantHolds == CoordinatorSpec => []CoordinatorIInv
BY InvariantStarts, InvariantStep, PTL DEF CoordinatorSpec

-------------------------------------------------------------------------------
(* Theorems *)

\* Every variable keeps its type, the repository's included.
THEOREM CoordinatorTypeCorrect == CoordinatorSpec => []CoordinatorTypeOK
<1>1. CoordinatorIInv => CoordinatorTypeOK
  BY DEF CoordinatorIInv, Control
<1> QED BY InvariantHolds, <1>1, PTL

\* The coordinator calls the repository only in ways its lock and its checks
\* allow, so every theorem of SessionStoreProofs holds of the running system.
THEOREM CoordinatorImplementsStore == CoordinatorSpec => ImplementsStore
<1>1. CoordinatorInit => Repo!Init
  BY DEF CoordinatorInit
<1>2. CoordinatorIInv /\ [CoordinatorNext]_allVars => [Repo!Next]_(Repo!vars)
  BY StepCalls DEF CoordinatorIInv, Control
<1> QED BY InvariantHolds, <1>1, <1>2, PTL DEF CoordinatorSpec, ImplementsStore, Repo!Spec

\* waitForSteer (executor boundary, conversation-run-coordinator.ts) never sleeps
\* through a Steer, a stop or the end of its Run.
THEOREM NoWakeupIsLost == CoordinatorSpec => []NoLostWakeup
<1>1. CoordinatorIInv => NoLostWakeup
  BY DEF CoordinatorIInv, Control
<1> QED BY InvariantHolds, <1>1, PTL

\* A Run that completed or was stopped leaves no Steer behind, whatever submits,
\* promotions, stops, crashes and failing calls raced with its end, unless the
\* requeueSteers of its own stop threw.
THEOREM GracefulEndsStrandNoSteer == CoordinatorSpec => []GracefulEndStrandsNoSteer
<1>1. CoordinatorIInv => GracefulEndStrandsNoSteer
  BY DEF CoordinatorIInv, Control
<1> QED BY InvariantHolds, <1>1, PTL

\* A stop that found the Run and did not throw returns with the Queue paused or
\* empty, whatever an earlier stop or the chain did.
THEOREM StopsPauseTheQueue == CoordinatorSpec => StopPausesTheQueue
<1> DEFINE Paused == /\ stopper.at \in {"check", "pause"} /\ stopper'.at = None
                     /\ stopper.runId \notin {NoRun, leaked.runId}
                     /\ UNCHANGED budget
                     => Pending' = {} \/ queuePaused'
<1>1. ASSUME CoordinatorIInv, [CoordinatorNext]_allVars PROVE Paused
  <2>1. SUFFICES ASSUME stopper.at \in {"check", "pause"}, stopper'.at = None,
                        stopper.runId \notin {NoRun, leaked.runId}, UNCHANGED budget
                 PROVE  Pending' = {} \/ queuePaused'
    OBVIOUS
  <2>2. budget \in Budgets
    BY <1>1 DEF CoordinatorIInv, Control, CoordinatorTypeOK
  <2>3. ~Crash /\ ~StopThrows
    BY <2>1, <2>2, BudgetsGrow DEF Crash, StopThrows
  <2>4. StopChecks \/ StopPauses
    BY <1>1, <2>1, <2>3, StopperMoves
       DEF StopMoves, StopStep, StopTakesLock, StopMarks, StopThrowsAtRequeue, StopMisses, None
  <2>5. CASE StopChecks
    <3>1. Pending = {} /\ UNCHANGED repoVars
      BY <2>1, <2>5 DEF StopChecks, None
    <3> QED BY <3>1 DEF Pending, Repo!Pending, repoVars
  <2>6. CASE StopPauses
    <3>1. stopper.at = "pause" /\ SetPaused(TRUE, <<"terminal", stopper.runId, stopper.reason>>)
      BY <2>1, <2>6 DEF StopPauses
    <3>2. registered /\ run = stopper.runId
      BY <1>1, <2>1, <3>1 DEF CoordinatorIInv, Control, StopHoldsHandle, StopInside, RequeuePlaces
    <3>3. queuePaused \/ ~PausedInTheNameOf(run)
      BY <1>1, <3>2 DEF CoordinatorIInv, Control, HandleIsPlaced, HandlePlaces, PauseStands
    <3>4. ~PausedInTheNameOf(run) => Repo!Unused(<<"terminal", stopper.runId, stopper.reason>>)
      BY <3>2 DEF PausedInTheNameOf, Repo!Unused
    <3>5. queuePaused \in BOOLEAN
      BY <1>1 DEF CoordinatorIInv, Control, CoordinatorTypeOK, Repo!TypeOK
    <3>6. CASE queuePaused
      BY <3>1, <3>5, <3>6 DEF SetPaused, repoVars
    <3>7. CASE ~queuePaused
      BY <3>1, <3>3, <3>4, <3>5, <3>7 DEF SetPaused, Repo!SetQueuePaused
    <3> QED BY <3>6, <3>7
  <2> QED BY <2>4, <2>5, <2>6
<1>2. CoordinatorIInv /\ [CoordinatorNext]_allVars => [Paused]_allVars
  BY <1>1
<1> QED BY InvariantHolds, <1>2, PTL DEF CoordinatorSpec, StopPausesTheQueue

\* What SessionStoreProofs says of the repository alone holds under the calls that
\* start, resume, executeChain, runTask, stop and the clients make of it, in every
\* order, with restarts and failing calls between.
THEOREM TheLedgerHoldsInTheSystem ==
  CoordinatorSpec => [](/\ Ledger!PositionsDistinct /\ Ledger!ConsumedExactlyOnce
                        /\ Ledger!RunsDoNotInterleave /\ Ledger!RunsSettleOnce
                        /\ Ledger!DrivenRunsAreOpen)
<1>1. CoordinatorIInv => /\ Ledger!PositionsDistinct /\ Ledger!ConsumedExactlyOnce
                         /\ Ledger!RunsDoNotInterleave /\ Ledger!RunsSettleOnce
                         /\ Ledger!DrivenRunsAreOpen
  BY DEF CoordinatorIInv, Ledger!IInv
<1> QED BY InvariantHolds, <1>1, PTL

\* One operationId stands for one mutation and an accepted item for one enqueue
\* (queue-reducer.ts), whatever chains, stops, restarts and failing calls come
\* between a request and its retry.
THEOREM SubmissionsHaveOneEffect == CoordinatorSpec => []Ledger!OneEffectPerOperation
<1>1. CoordinatorInit => Ledger!Init
  BY DEF CoordinatorInit, Repo!Init, Ledger!Init
<1>2. CoordinatorIInv /\ [CoordinatorNext]_allVars => [Ledger!Next]_(Ledger!vars)
  BY StepCalls, SameNext DEF CoordinatorIInv, Control
<1>3. Ledger!Spec => []Ledger!OneEffectPerOperation
  BY LedgerAssumptions, Ledger!RetriesHaveOneEffect
<1> QED BY InvariantHolds, <1>1, <1>2, <1>3, PTL DEF CoordinatorSpec, Ledger!Spec
===============================================================================
