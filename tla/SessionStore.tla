----------------------------- MODULE SessionStore -----------------------------
(***************************************************************************)
(* One Session of the repository in packages/session-store: the state that *)
(* its journal projects to (journal-reducer.ts, queue-reducer.ts), the     *)
(* volatile sets the repository keeps beside it, and one action for each   *)
(* mutation of the Queue and of the Run lifecycle.                         *)
(*                                                                         *)
(* Every mutation runs under the per-Session lock (withSessionLock), reads *)
(* the current projection and makes one atomic commit, so each is a single *)
(* step here.  A call that throws or that replays an earlier operationId   *)
(* commits nothing: it is the absence of a step.  loadSession is the       *)
(* exception: one whose commit fails has already marked the Session.       *)
(***************************************************************************)
EXTENDS Integers, Sequences, FiniteSetsExt

CONSTANTS Items,    \* queue item ids (crypto.randomUUID)
          Runs,     \* Run ids (crypto.randomUUID)
          Ops,      \* operationIds
          NoRun,    \* activeTaskId = null, absent targetRunId or consumedRunId
          NoItem    \* a user message that no queue item carried

ASSUME SentinelsAreFresh == NoRun \notin Runs /\ NoItem \notin Items
ASSUME ItemsAreFinite == IsFiniteSet(Items)

VARIABLES
  \* projectQueue: one entry per itemId, "absent" before queue_enqueued
  status, delivery, targetRunId, consumedRunId, position,
  queuePaused,
  activeTaskId,   \* the Run whose run_started has no run_terminal yet
  runReports,     \* runId -> terminal status, "none" without a RunReport
  messages,       \* canonical user messages: the Run and the item each came from
  operations,     \* queue ledger records that are looked up by operationId
  revision,
  activeRuns,     \* volatile: Runs this process started and has not finished
  known,          \* volatile: the Session is in knownSessions
  opened          \* volatile: a loadSession has returned in this process

queueVars == <<status, delivery, targetRunId, consumedRunId, position>>
runVars   == <<activeTaskId, runReports, messages>>
volatile  == <<activeRuns, known, opened>>
vars == <<queueVars, queuePaused, runVars, operations, revision, volatile>>

Status == {"absent", "queued", "consumed", "cancelled"}
Delivery == {"next_run", "steer"}
Terminal == {"completed", "failed", "limited", "aborted"}
Operation == [op : Ops, kind : {"enqueued", "retargeted", "cancelled", "reordered",
                                "paused", "resumed"}, item : Items \cup {NoItem}]

TypeOK ==
  /\ status \in [Items -> Status]
  /\ delivery \in [Items -> Delivery]
  /\ targetRunId \in [Items -> Runs \cup {NoRun}]
  /\ consumedRunId \in [Items -> Runs \cup {NoRun}]
  /\ position \in [Items -> Nat]
  /\ queuePaused \in BOOLEAN
  /\ activeTaskId \in Runs \cup {NoRun}
  /\ runReports \in [Runs -> Terminal \cup {"none"}]
  /\ messages \in Seq([runId : Runs, itemId : Items \cup {NoItem}])
  /\ operations \in SUBSET Operation
  /\ revision \in Nat
  /\ activeRuns \in SUBSET Runs
  /\ known \in BOOLEAN /\ opened \in BOOLEAN

Pending == {i \in Items : status[i] = "queued"}
\* Mutant: the status filter is forgotten.
SteersForAnyStatus(r) == {i \in Items : delivery[i] = "steer" /\ targetRunId[i] = r}

SteersFor(r) == {i \in Pending : delivery[i] = "steer" /\ targetRunId[i] = r}
NextRunItems == {i \in Pending : delivery[i] = "next_run"}

\* Mutant: any candidate instead of the first one.
FirstOfAny(i, S) == i \in S

\* pending is sorted by position; find() takes the first match.
First(i, S) == i \in S /\ \A j \in S : position[i] <= position[j]

\* Mutants: the number of waiting items as the next position; no increment.
NextPositionByCount == Cardinality(Pending)
NextPositionNotAdvanced == Max({-1} \cup {position[i] : i \in Pending})

NextPosition == Max({-1} \cup {position[i] : i \in Pending}) + 1

Started == {messages[k].runId : k \in DOMAIN messages}

\* Mutant: only operations of the same kind of mutation count as a retry.
UnusedForReorder(op) == \A o \in operations : o.op = op => o.kind # "reordered"

\* findQueueOperation found no record: the call is not a retry.
Unused(op) == \A o \in operations : o.op # op

Log(op, kind, item) == operations' = operations \cup {[op |-> op, kind |-> kind, item |-> item]}

Commit == revision' = revision + 1

\* createSession, before anything is sent.
Init ==
  /\ status = [i \in Items |-> "absent"]
  /\ delivery = [i \in Items |-> "next_run"]
  /\ targetRunId = [i \in Items |-> NoRun]
  /\ consumedRunId = [i \in Items |-> NoRun]
  /\ position = [i \in Items |-> 0]
  /\ queuePaused = FALSE
  /\ activeTaskId = NoRun
  /\ runReports = [r \in Runs |-> "none"]
  /\ messages = <<>>
  /\ operations = {}
  /\ revision = 0
  /\ activeRuns = {}
  /\ known = TRUE /\ opened = TRUE

-------------------------------------------------------------------------------
(* Queue mutations asked for by the user *)

\* enqueueQueueItem: a Steer is accepted only for the Run that is active now.
EnqueueQueueItem(i, d, r, op) ==
  /\ Unused(op)
  /\ d = "steer" => r # NoRun /\ activeTaskId = r
  /\ status[i] = "absent"
  /\ status' = [status EXCEPT ![i] = "queued"]
  /\ delivery' = [delivery EXCEPT ![i] = d]
  /\ targetRunId' = [targetRunId EXCEPT ![i] = IF d = "steer" THEN r ELSE NoRun]
  /\ position' = [position EXCEPT ![i] = NextPosition]
  /\ Log(op, "enqueued", i)
  /\ Commit
  /\ UNCHANGED <<consumedRunId, queuePaused, runVars, volatile>>

\* promoteQueueItem
PromoteQueueItem(i, r, op) ==
  /\ Unused(op)
  /\ i \in NextRunItems
  /\ r # NoRun /\ activeTaskId = r
  /\ delivery' = [delivery EXCEPT ![i] = "steer"]
  /\ targetRunId' = [targetRunId EXCEPT ![i] = r]
  /\ Log(op, "retargeted", i)
  /\ Commit
  /\ UNCHANGED <<status, consumedRunId, position, queuePaused, runVars, volatile>>

\* Mutant: the already_consumed outcome is forgotten.
CancelConsumedItem(i, op) ==
  /\ Unused(op)
  /\ status[i] # "absent"
  /\ status' = [status EXCEPT ![i] = "cancelled"]
  /\ Log(op, "cancelled", i)
  /\ Commit
  /\ UNCHANGED <<delivery, targetRunId, consumedRunId, position, queuePaused, runVars, volatile>>

\* cancelQueueItem
CancelQueueItem(i, op) ==
  /\ Unused(op)
  /\ status[i] = "queued"
  /\ status' = [status EXCEPT ![i] = "cancelled"]
  /\ Log(op, "cancelled", i)
  /\ Commit
  /\ UNCHANGED <<delivery, targetRunId, consumedRunId, position, queuePaused, runVars, volatile>>

\* reorderQueueItems: order[i] is i's index in orderedItemIds, seen is the
\* expectedSessionRevision of the client.
ReorderQueueItems(order, seen, op) ==
  /\ Unused(op)
  /\ seen = revision
  /\ DOMAIN order = Pending
  /\ position' = [i \in Items |-> IF i \in Pending THEN order[i] ELSE position[i]]
  /\ Log(op, "reordered", NoItem)
  /\ Commit
  /\ UNCHANGED <<status, delivery, targetRunId, consumedRunId, queuePaused, runVars, volatile>>

-------------------------------------------------------------------------------
(* Run lifecycle and consumption *)

\* beginRun: runId is fresh, the prompt is its first message.
BeginRun(r) ==
  /\ activeTaskId = NoRun
  /\ r \in Runs \ Started
  /\ activeTaskId' = r
  /\ messages' = Append(messages, [runId |-> r, itemId |-> NoItem])
  /\ activeRuns' = activeRuns \cup {r}
  /\ Commit
  /\ UNCHANGED <<queueVars, queuePaused, runReports, operations, known, opened>>

\* beginRunFromQueue: run_started, message, queue_consumed and
\* queue_chain_resumed in one commit.
BeginRunFromQueue(i, r) ==
  /\ activeTaskId = NoRun
  /\ r \in Runs \ Started
  /\ First(i, NextRunItems)
  /\ status' = [status EXCEPT ![i] = "consumed"]
  /\ consumedRunId' = [consumedRunId EXCEPT ![i] = r]
  /\ activeTaskId' = r
  /\ messages' = Append(messages, [runId |-> r, itemId |-> i])
  /\ queuePaused' = FALSE
  /\ activeRuns' = activeRuns \cup {r}
  /\ Commit
  /\ UNCHANGED <<delivery, targetRunId, position, runReports, operations, known, opened>>

\* Mutant: the Run is not checked to be still active.
ConsumeSteerOfAnyRun(i, r) ==
  /\ First(i, SteersFor(r))
  /\ status' = [status EXCEPT ![i] = "consumed"]
  /\ consumedRunId' = [consumedRunId EXCEPT ![i] = r]
  /\ messages' = Append(messages, [runId |-> r, itemId |-> i])
  /\ Commit
  /\ UNCHANGED <<delivery, targetRunId, position, queuePaused, activeTaskId, runReports,
                 operations, volatile>>

\* consumeSteer: the canonical message and queue_consumed in one commit.
ConsumeSteer(i, r) ==
  /\ r # NoRun /\ activeTaskId = r
  /\ First(i, SteersFor(r))
  /\ status' = [status EXCEPT ![i] = "consumed"]
  /\ consumedRunId' = [consumedRunId EXCEPT ![i] = r]
  /\ messages' = Append(messages, [runId |-> r, itemId |-> i])
  /\ Commit
  /\ UNCHANGED <<delivery, targetRunId, position, queuePaused, activeTaskId, runReports,
                 operations, volatile>>

\* The projection of queue_requeued for every Steer of r.
Requeue(r) ==
  /\ delivery' = [i \in Items |-> IF i \in SteersFor(r) THEN "next_run" ELSE delivery[i]]
  /\ targetRunId' = [i \in Items |-> IF i \in SteersFor(r) THEN NoRun ELSE targetRunId[i]]

\* requeueSteers: commits nothing when no Steer of r is pending.
RequeueSteers(r) ==
  /\ SteersFor(r) # {}
  /\ Requeue(r)
  /\ Commit
  /\ UNCHANGED <<status, consumedRunId, position, queuePaused, runVars, operations, volatile>>

\* setQueuePaused: a known operationId or an unchanged flag commits nothing.
SetQueuePaused(paused, op) ==
  /\ Unused(op)
  /\ queuePaused # paused
  /\ queuePaused' = paused
  /\ Log(op, IF paused THEN "paused" ELSE "resumed", NoItem)
  /\ Commit
  /\ UNCHANGED <<queueVars, runVars, volatile>>

\* Mutant: the terminal commit leaves activeTaskId set.
FinishRunKeepsActive(r, terminal) ==
  /\ r # NoRun /\ activeTaskId = r
  /\ runReports[r] = "none"
  /\ runReports' = [runReports EXCEPT ![r] = terminal]
  /\ activeRuns' = activeRuns \ {r}
  /\ Commit
  /\ UNCHANGED <<activeTaskId, queueVars, queuePaused, messages, operations, known, opened>>

\* finishRun: a Run that already has its report is left alone.
FinishRun(r, terminal) ==
  /\ r # NoRun /\ activeTaskId = r
  /\ runReports[r] = "none"
  /\ activeTaskId' = NoRun
  /\ runReports' = [runReports EXCEPT ![r] = terminal]
  /\ activeRuns' = activeRuns \ {r}
  /\ Commit
  /\ UNCHANGED <<queueVars, queuePaused, messages, operations, known, opened>>

-------------------------------------------------------------------------------
(* Opening a Session, and losing the process *)

\* Mutants: pause only for requeued Steers; close a Run that is being driven.
RecoverPausingForSteersOnly ==
  /\ activeTaskId # NoRun
  /\ activeTaskId \notin activeRuns
  /\ runReports' = [runReports EXCEPT ![activeTaskId] = "failed"]
  /\ Requeue(activeTaskId)
  /\ queuePaused' = (queuePaused \/ SteersFor(activeTaskId) # {})
  /\ activeTaskId' = NoRun
  /\ Commit
  /\ UNCHANGED <<status, consumedRunId, position, messages, operations>>

RecoverLiveRun ==
  /\ activeTaskId # NoRun
  /\ runReports' = [runReports EXCEPT ![activeTaskId] = "failed"]
  /\ Requeue(activeTaskId)
  /\ queuePaused' = (queuePaused \/ Pending # {})
  /\ activeTaskId' = NoRun
  /\ Commit
  /\ UNCHANGED <<status, consumedRunId, position, messages, operations>>

\* loadSession on an active Run this process never started: the terminal
\* report, the requeue of its Steers and the pause are one commit.
RecoverInterruptedRun ==
  /\ activeTaskId # NoRun
  /\ activeTaskId \notin activeRuns
  /\ runReports' = [runReports EXCEPT ![activeTaskId] = "failed"]
  /\ Requeue(activeTaskId)
  /\ queuePaused' = (queuePaused \/ Pending # {})
  /\ activeTaskId' = NoRun
  /\ Commit
  /\ UNCHANGED <<status, consumedRunId, position, messages, operations>>

\* loadSession on an idle Session it opens for the first time since start-up.
PauseRecoveredQueue ==
  /\ activeTaskId = NoRun
  /\ ~known /\ Pending # {} /\ ~queuePaused
  /\ queuePaused' = TRUE
  /\ Commit
  /\ UNCHANGED <<queueVars, runVars, operations>>

NothingToRecover ==
  \/ activeTaskId \in activeRuns
  \/ activeTaskId = NoRun /\ (known \/ Pending = {} \/ queuePaused)

LoadUnchanged ==
  /\ NothingToRecover
  /\ UNCHANGED <<queueVars, queuePaused, runVars, operations, revision>>

LoadSession ==
  /\ RecoverInterruptedRun \/ PauseRecoveredQueue \/ LoadUnchanged
  /\ known' = TRUE /\ opened' = TRUE
  /\ UNCHANGED activeRuns

\* loadSession adds the Session to knownSessions before it commits a recovery or
\* a pause; a commit that throws leaves it there.
LoadFails ==
  /\ ~NothingToRecover
  /\ known' = TRUE
  /\ UNCHANGED <<queueVars, queuePaused, runVars, operations, revision, activeRuns, opened>>

\* materializeRun that finds its clientRequestId done: the Session is known from
\* here on, though loadSession has not looked at it.
ReplayMaterializeRun ==
  /\ known' = TRUE
  /\ UNCHANGED <<queueVars, queuePaused, runVars, operations, revision, activeRuns, opened>>

\* The Runtime exits; the journal keeps every commit.
Crash ==
  /\ activeRuns' = {}
  /\ known' = FALSE /\ opened' = FALSE
  /\ UNCHANGED <<queueVars, queuePaused, runVars, operations, revision>>

-------------------------------------------------------------------------------
Orders == UNION {Injection(S, 0 .. Cardinality(S) - 1) : S \in SUBSET Items}

UserMutation(op) ==
  \/ \E i \in Items, d \in Delivery, r \in Runs \cup {NoRun} : EnqueueQueueItem(i, d, r, op)
  \/ \E i \in Items, r \in Runs : PromoteQueueItem(i, r, op)
  \/ \E i \in Items : CancelQueueItem(i, op)
  \/ \E p \in BOOLEAN : SetQueuePaused(p, op)

RunStep(r) ==
  \/ BeginRun(r)
  \/ RequeueSteers(r)
  \/ \E i \in Items : BeginRunFromQueue(i, r) \/ ConsumeSteer(i, r)
  \/ \E s \in Terminal : FinishRun(r, s)

\* Every caller of a mutation has loaded the Session in this process first: the
\* routes through loadScopedSession, a Run through runTask and executeChain.
Next ==
  \/ \E r \in Runs : opened /\ RunStep(r)
  \/ \E op \in Ops : opened /\ UserMutation(op)
  \/ LoadSession \/ LoadFails \/ ReplayMaterializeRun
  \/ Crash
  \/ \E op \in Ops, order \in Orders, seen \in 0 .. revision :
       opened /\ ReorderQueueItems(order, seen, op)

Spec == Init /\ [][Next]_vars

-------------------------------------------------------------------------------
(* Properties *)

\* Two waiting items never share a position, whatever was cancelled, promoted,
\* requeued or reordered in between: "the first item" is one item, and the
\* createdAt tie-break of projectQueue never decides who goes next.
PositionsDistinct ==
  \A i, j \in Pending : i # j => position[i] # position[j]

\* An item is consumed exactly when one canonical message carries it, in the
\* Run it names, and never twice: a message and its queue_consumed record share
\* one commit, across promotion, requeue, crash and recovery.
ConsumedExactlyOnce ==
  \A i \in Items :
    LET carriers == {k \in DOMAIN messages : messages[k].itemId = i}
    IN IF status[i] = "consumed"
       THEN \E k \in DOMAIN messages :
              carriers = {k} /\ messages[k].runId = consumedRunId[i]
       ELSE carriers = {}

\* The history is a sequence of whole Runs: no message of another Run falls
\* between two messages of one Run, and the Run in progress is the last one.
RunsDoNotInterleave ==
  /\ \A k, m \in DOMAIN messages :
       k < m /\ messages[k].runId = messages[m].runId
         => \A l \in k .. m : messages[l].runId = messages[k].runId
  /\ activeTaskId # NoRun => messages # <<>> /\ messages[Len(messages)].runId = activeTaskId

\* Every started Run is either the active one or has its RunReport, never both
\* and never neither; a crash is no third outcome.
RunsSettleOnce ==
  \A r \in Runs : runReports[r] # "none" <=> r \in Started \ {activeTaskId}

\* A Run that this process still drives is still open in the journal: loading
\* the Session for a read never closes it under the executor.
DrivenRunsAreOpen == activeRuns \subseteq {activeTaskId}

\* One operationId makes one queue record, and one enqueue record makes one item.
OneEffectPerOperation ==
  /\ \A a, b \in operations : a.op = b.op => a = b
  /\ \A i \in Items : status[i] # "absent"
       <=> Cardinality({o \in operations : o.kind = "enqueued" /\ o.item = i}) = 1

\* The outcome of an item never changes: a deletion that loses the race against
\* consumption does not take the message back, nor the other way round, and a
\* RunReport is never rewritten.
OutcomesAreFinal ==
  [][/\ \A i \in Items : status[i] \in {"consumed", "cancelled"}
           => status'[i] = status[i] /\ consumedRunId'[i] = consumedRunId[i]
     /\ \A r \in Runs : runReports[r] # "none" => runReports'[r] = runReports[r]]_vars

\* A load that threw or a replayed materializeRun marked the idle Session as known.
MarkedTooEarly == known /\ activeTaskId = NoRun

\* What a restarted process finds waiting does not start by itself: the first
\* loadSession that returns has paused a non-empty Queue, whether a Run was cut
\* short or not, and for a Run cut short also after loads that threw.  Only an
\* idle Session that was marked known before stays unpaused.
RecoveryPausesTheQueue ==
  [][~opened /\ opened' /\ Pending' # {} => queuePaused' \/ MarkedTooEarly]_vars

Queue == INSTANCE SessionQueue WITH
  pending   <- Pending,
  before    <- {p \in Pending \X Pending : position[p[1]] < position[p[2]]},
  aim       <- [i \in Items |-> IF i \in Pending /\ delivery[i] = "steer"
                                THEN targetRunId[i] ELSE NoRun],
  takenBy   <- consumedRunId,
  withdrawn <- {i \in Items : status[i] = "cancelled"},
  live      <- activeTaskId,
  ended     <- {r \in Runs : runReports[r] # "none"},
  paused    <- queuePaused

\* The ledger implements the Queue a user is promised (SessionQueue).
ImplementsQueue == Queue!Spec
===============================================================================
