------------------------------ MODULE MCLiveness ------------------------------
(* What has to end: the chain of Runs of a Session, and the memory work its     *)
(* completed Runs leave.  Each behaviour runs one of them, chosen at the start. *)
EXTENDS RunCoordinator

CONSTANT Sessions

VARIABLES
  part,
  memoryRuns, progress, extractions, work, accepting, pendingConsolidation, settings, state,
  memory, admin, epoch, excused, unfenced, spent

workerVars ==
  <<memoryRuns, progress, extractions, work, accepting, pendingConsolidation, settings, state,
    memory, admin, epoch, excused, unfenced, spent>>

Worker == INSTANCE MemoryWorker WITH
  runs <- memoryRuns, pending <- extractions, Nothing <- NoItem,
  EveryRuns <- 2, MinSessions <- 1, MaxRuns <- 2, MaxAdmin <- 2, MaxMishaps <- 1

ASSUME LivenessAssumption == Worker!WorkerAssumption

Init == part \in {"chain", "memory"} /\ CoordinatorInit /\ Worker!Init

Next ==
  \/ part = "chain" /\ CoordinatorNext /\ UNCHANGED <<part, workerVars>>
  \/ part = "memory" /\ Worker!Next /\ UNCHANGED <<part, allVars>>

\* in its initial state nothing of a part waits for a step of its own
Spec == Init /\ [][Next]_<<part, allVars, workerVars>> /\ Fairness /\ Worker!Fairness

(* What was begun before memory was cleared or switched off is not written *)
(* after it.                                                               *)
OldWorkNeverWritesBack == Worker!OldWorkNeverWritesBack

(* The work of a completed Run is done, counted or left to the next Run.   *)
WorkIsDone == Worker!WorkIsDone
===============================================================================
