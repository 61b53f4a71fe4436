-------------------------- MODULE SessionStoreProofs --------------------------
(* Proofs about SessionStore, for every set of Items, Runs and Ops. *)
EXTENDS SessionStore, FiniteSetTheorems, SequenceTheorems, TLAPS

-------------------------------------------------------------------------------
(* Positions: Math.max over the pending items is well defined *)

\* Every finite, non-empty set of integers has a greatest element.  Proved by
\* well-foundedness of strict inclusion: a smallest counterexample would stay a
\* counterexample after losing one element.
LEMMA FiniteSetHasMax ==
  ASSUME NEW S \in SUBSET Int, S # {}, IsFiniteSet(S)
  PROVE  \E x \in S : \A y \in S : x >= y
<1> DEFINE HasMax(X) == \E x \in X : \A y \in X : x >= y
           T == {X \in SUBSET S : X # {} /\ ~HasMax(X)}
<1>1. SUFFICES ASSUME T # {} PROVE FALSE
  OBVIOUS
<1>2. IsWellFoundedOn(StrictSubsetOrdering(S), FiniteSubsetsOf(S))
  BY FS_StrictSubsetOrderingWellFounded
<1>3. T \subseteq FiniteSubsetsOf(S)
  BY FS_FiniteSubsetsOfFinite
<1> HIDE DEF T
<1>4. PICK X \in T : \A Y \in T : <<Y, X>> \notin StrictSubsetOrdering(S)
  BY <1>1, <1>2, <1>3, WFMin
<1>5. X \in SUBSET S /\ X # {} /\ ~HasMax(X)
  BY <1>4 DEF T
<1>6. PICK a \in X : TRUE
  BY <1>5
<1> DEFINE Y == X \ {a}
<1>7. <<Y, X>> \in StrictSubsetOrdering(S)
  BY <1>5, <1>6 DEF StrictSubsetOrdering
<1>8. Y \notin T
  BY <1>4, <1>7
<1>9. CASE Y = {}
  <2>1. X = {a}
    BY <1>9, <1>6
  <2>2. a \in Int /\ \A y \in X : a >= y
    BY <2>1, <1>5
  <2> QED BY <2>2, <1>5, <1>6
<1>10. CASE Y # {}
  <2>1. HasMax(Y)
    BY <1>5, <1>8, <1>10 DEF T
  <2>2. PICK m \in Y : \A y \in Y : m >= y
    BY <2>1
  <2>3. a \in Int /\ m \in Int /\ X \subseteq Int
    BY <1>5, <1>6, <2>2
  <2>4. CASE m >= a
    <3>1. \A y \in X : m >= y
      BY <2>2, <2>4
    <3> QED BY <3>1, <2>2, <1>5
  <2>5. CASE a > m
    <3>1. \A y \in X : a >= y
      BY <2>2, <2>3, <2>5
    <3> QED BY <3>1, <1>6, <1>5
  <2> QED BY <2>3, <2>4, <2>5
<1> QED BY <1>9, <1>10

\* A new item is placed behind every waiting item, at a natural position.
LEMMA NextPositionIsLast ==
  ASSUME TypeOK
  PROVE  /\ NextPosition \in Nat
         /\ \A i \in Pending : position[i] < NextPosition
<1> DEFINE P == {position[i] : i \in Pending}
           S == {-1} \cup P
<1>1. Pending \in SUBSET Items /\ IsFiniteSet(Pending)
  BY ItemsAreFinite, FS_Subset DEF Pending
<1>2. IsFiniteSet(P)
  <2> DEFINE f == [i \in Pending |-> position[i]]
  <2>1. f \in Surjection(Pending, P)
    BY DEF Surjection
  <2> QED BY <1>1, <2>1, FS_Surjection
<1>3. IsFiniteSet(P \cup {-1})
  BY <1>2, FS_AddElement
<1>4. S = P \cup {-1} /\ S \in SUBSET Int /\ -1 \in S /\ P \subseteq Nat
  BY <1>1 DEF TypeOK
<1>5. IsFiniteSet(S) /\ S # {}
  BY <1>3, <1>4
<1> HIDE DEF S, P
<1>6. \E x \in S : \A y \in S : x >= y
  BY <1>4, <1>5, FiniteSetHasMax
<1>7. Max(S) \in S /\ \A y \in S : Max(S) >= y
  BY <1>6 DEF Max
<1>8. NextPosition = Max(S) + 1
  BY DEF NextPosition, S, P
<1>9. \A i \in Pending : position[i] \in S
  BY DEF S, P
<1>10. Max(S) \in Int /\ Max(S) >= -1
  BY <1>4, <1>7
<1>11. \A i \in Pending : position[i] \in Int /\ Max(S) >= position[i]
  BY <1>4, <1>7, <1>9
<1> QED BY <1>8, <1>10, <1>11


\* A requested order is an injective numbering of the waiting items.
LEMMA OrderIsNumbering ==
  ASSUME NEW order \in Orders, DOMAIN order = Pending
  PROVE  /\ \A i \in Pending : order[i] \in Nat
         /\ \A i, j \in Pending : i # j => order[i] # order[j]
<1>1. PICK S \in SUBSET Items : order \in Injection(S, 0 .. Cardinality(S) - 1)
  BY DEF Orders
<1>2. order \in [Pending -> 0 .. Cardinality(S) - 1] /\ IsInjective(order)
  BY <1>1 DEF Injection
<1>3. \A i, j \in Pending : order[i] = order[j] => i = j
  BY <1>2 DEF IsInjective
<1>4. \A i \in Pending : order[i] \in 0 .. Cardinality(S) - 1
  BY <1>2
<1>5. \A n \in 0 .. Cardinality(S) - 1 : n \in Nat
  OBVIOUS
<1> QED BY <1>3, <1>4, <1>5

-------------------------------------------------------------------------------
(* Type correctness *)

Message == [runId : Runs, itemId : Items \cup {NoItem}]

\* Appending one message keeps the history a sequence of messages.
LEMMA AppendMessage ==
  ASSUME TypeOK, NEW m \in Message
  PROVE  /\ Append(messages, m) \in Seq(Message)
         /\ DOMAIN Append(messages, m) = 1 .. Len(messages) + 1
         /\ DOMAIN messages = 1 .. Len(messages)
         /\ Len(messages) \in Nat
         /\ \A k \in DOMAIN messages : Append(messages, m)[k] = messages[k]
         /\ Append(messages, m)[Len(messages) + 1] = m
<1>1. messages \in Seq(Message)
  BY DEF TypeOK, Message
<1> QED BY <1>1, AppendProperties, LenProperties

\* Every step keeps the types.
LEMMA TypeStep ==
  ASSUME TypeOK, [Next]_vars
  PROVE  TypeOK'
<1> USE DEF TypeOK, Status, Delivery
<1>1. ASSUME NEW op \in Ops, NEW i \in Items, NEW d \in Delivery, NEW r \in Runs \cup {NoRun},
             EnqueueQueueItem(i, d, r, op)
      PROVE  TypeOK'
  <2>1. NextPosition \in Nat
    BY NextPositionIsLast
  <2>2. operations' \in SUBSET Operation
    BY <1>1 DEF EnqueueQueueItem, Log, Operation
  <2> QED
    BY <1>1, <2>1, <2>2 DEF EnqueueQueueItem, Commit, runVars, volatile
<1>2. ASSUME NEW op \in Ops, NEW i \in Items, NEW r \in Runs, PromoteQueueItem(i, r, op)
      PROVE  TypeOK'
  <2>1. operations' \in SUBSET Operation
    BY <1>2 DEF PromoteQueueItem, Log, Operation
  <2> QED
    BY <1>2, <2>1 DEF PromoteQueueItem, Commit, runVars, volatile
<1>3. ASSUME NEW op \in Ops, NEW i \in Items, CancelQueueItem(i, op)
      PROVE  TypeOK'
  <2>1. operations' \in SUBSET Operation
    BY <1>3 DEF CancelQueueItem, Log, Operation
  <2> QED
    BY <1>3, <2>1 DEF CancelQueueItem, Commit, runVars, volatile
<1>4. ASSUME NEW op \in Ops, NEW p \in BOOLEAN, SetQueuePaused(p, op)
      PROVE  TypeOK'
  <2>1. operations' \in SUBSET Operation
    BY <1>4 DEF SetQueuePaused, Log, Operation
  <2> QED
    BY <1>4, <2>1 DEF SetQueuePaused, Commit, queueVars, runVars, volatile
<1>5. ASSUME NEW op \in Ops, NEW order \in Orders, NEW seen \in 0 .. revision,
             ReorderQueueItems(order, seen, op)
      PROVE  TypeOK'
  <2>1. operations' \in SUBSET Operation
    BY <1>5 DEF ReorderQueueItems, Log, Operation
  <2>2. \A i \in Pending : order[i] \in Nat
    BY <1>5, OrderIsNumbering DEF ReorderQueueItems
  <2> QED
    BY <1>5, <2>1, <2>2 DEF ReorderQueueItems, Commit, runVars, volatile
<1>6. ASSUME NEW r \in Runs, BeginRun(r)
      PROVE  TypeOK'
  <2>1. messages' \in Seq(Message)
    BY <1>6, AppendMessage DEF BeginRun, Message
  <2> QED
    BY <1>6, <2>1 DEF BeginRun, Commit, queueVars, Message
<1>7. ASSUME NEW r \in Runs, RequeueSteers(r)
      PROVE  TypeOK'
  BY <1>7 DEF RequeueSteers, Requeue, Commit, runVars, volatile
<1>8. ASSUME NEW r \in Runs, NEW i \in Items, BeginRunFromQueue(i, r)
      PROVE  TypeOK'
  <2>1. messages' \in Seq(Message)
    BY <1>8, AppendMessage DEF BeginRunFromQueue, Message
  <2>2. /\ status' \in [Items -> {"absent", "queued", "consumed", "cancelled"}]
        /\ consumedRunId' \in [Items -> Runs \cup {NoRun}]
        /\ activeTaskId' \in Runs \cup {NoRun}
        /\ activeRuns' \in SUBSET Runs
        /\ revision' \in Nat
    BY <1>8 DEF BeginRunFromQueue, Commit
  <2> QED
    BY <1>8, <2>1, <2>2 DEF BeginRunFromQueue, Message
<1>9. ASSUME NEW r \in Runs, NEW i \in Items, ConsumeSteer(i, r)
      PROVE  TypeOK'
  <2>1. messages' \in Seq(Message)
    BY <1>9, AppendMessage DEF ConsumeSteer, Message
  <2> QED
    BY <1>9, <2>1 DEF ConsumeSteer, Commit, volatile, Message
<1>10. ASSUME NEW r \in Runs, NEW s \in Terminal, FinishRun(r, s)
       PROVE  TypeOK'
  BY <1>10 DEF FinishRun, Commit, queueVars
<1>11. ASSUME LoadSession
       PROVE  TypeOK'
  <2>1. CASE RecoverInterruptedRun
    <3>1. activeTaskId \in Runs
      BY <2>1 DEF RecoverInterruptedRun
    <3> QED
      BY <1>11, <2>1, <3>1 DEF LoadSession, RecoverInterruptedRun, Requeue, Commit, Terminal
  <2>2. CASE PauseRecoveredQueue
    BY <1>11, <2>2 DEF LoadSession, PauseRecoveredQueue, Commit, queueVars, runVars
  <2>3. CASE LoadUnchanged
    BY <1>11, <2>3 DEF LoadSession, LoadUnchanged, queueVars, runVars
  <2> QED BY <1>11, <2>1, <2>2, <2>3 DEF LoadSession
<1>12. CASE Crash \/ LoadFails \/ ReplayMaterializeRun
  BY <1>12 DEF Crash, LoadFails, ReplayMaterializeRun, queueVars, runVars
<1>13. CASE UNCHANGED vars
  BY <1>13 DEF vars, queueVars, runVars, volatile
<1> QED
  BY <1>1, <1>2, <1>3, <1>4, <1>5, <1>6, <1>7, <1>8, <1>9, <1>10, <1>11, <1>12, <1>13
     DEF Next, UserMutation, RunStep

\* Every reachable state of one Session is well typed: in particular positions
\* stay natural numbers and the history a sequence of canonical messages.
THEOREM TypeCorrect == Spec => []TypeOK
<1>1. ASSUME Init PROVE TypeOK
  <2>1. messages \in Seq([runId : Runs, itemId : Items \cup {NoItem}])
    BY <1>1, EmptySeq DEF Init
  <2> QED BY <1>1, <2>1 DEF Init, TypeOK, Status, Delivery
<1>2. TypeOK /\ [Next]_vars => TypeOK'
  BY TypeStep
<1> QED BY <1>1, <1>2, PTL DEF Spec


-------------------------------------------------------------------------------
(* The inductive invariant *)

\* A waiting Steer names the Run it steers; without this a Steer aimed at
\* "no Run" would look like a next-run item to the abstract Queue.
TargetsAreRuns == \A i \in Pending : delivery[i] = "steer" => targetRunId[i] \in Runs

ConsumersAreNamed == \A i \in Items : consumedRunId[i] # NoRun <=> status[i] = "consumed"

\* A process that has not opened the Session drives none of its Runs.
UnopenedIsUndriven == ~opened => activeRuns = {}

IInv ==
  /\ TypeOK
  /\ PositionsDistinct
  /\ ConsumedExactlyOnce
  /\ RunsDoNotInterleave
  /\ RunsSettleOnce
  /\ DrivenRunsAreOpen
  /\ TargetsAreRuns
  /\ ConsumersAreNamed
  /\ UnopenedIsUndriven

\* The Runs with a message, after one more message.
LEMMA StartedByAppend ==
  ASSUME TypeOK, NEW m \in Message, messages' = Append(messages, m)
  PROVE  Started' = Started \cup {m.runId}
<1>1. DOMAIN messages' = DOMAIN messages \cup {Len(messages) + 1}
  BY AppendMessage
<1>2. \A k \in DOMAIN messages : messages'[k] = messages[k]
  BY AppendMessage
<1>3. messages'[Len(messages) + 1] = m
  BY AppendMessage
<1> QED BY <1>1, <1>2, <1>3 DEF Started

\* Positions stay distinct: a new item goes behind all, a reorder is injective,
\* everything else keeps positions and never makes an item wait again.
LEMMA PositionsStep ==
  ASSUME TypeOK, PositionsDistinct, [Next]_vars
  PROVE  PositionsDistinct'
<1> USE DEF PositionsDistinct
<1>1. ASSUME NEW op \in Ops, NEW i \in Items, NEW d \in Delivery, NEW r \in Runs \cup {NoRun},
             EnqueueQueueItem(i, d, r, op)
      PROVE  PositionsDistinct'
  <2>1. Pending' = Pending \cup {i} /\ i \notin Pending
    BY <1>1 DEF EnqueueQueueItem, Pending, TypeOK
  <2>2. position'[i] = NextPosition
    BY <1>1 DEF EnqueueQueueItem, TypeOK
  <2>3. \A j \in Pending : position'[j] = position[j]
    BY <1>1, <2>1 DEF EnqueueQueueItem, TypeOK, Pending
  <2>4. \A j \in Pending : position[j] # NextPosition
    BY NextPositionIsLast DEF TypeOK, Pending
  <2> QED BY <2>1, <2>2, <2>3, <2>4
<1>2. ASSUME NEW op \in Ops, NEW order \in Orders, NEW seen \in 0 .. revision,
             ReorderQueueItems(order, seen, op)
      PROVE  PositionsDistinct'
  <2>1. Pending' = Pending
    BY <1>2 DEF ReorderQueueItems, Pending
  <2>2. \A i \in Pending : position'[i] = order[i]
    BY <1>2 DEF ReorderQueueItems, Pending, TypeOK
  <2> QED BY <1>2, <2>1, <2>2, OrderIsNumbering DEF ReorderQueueItems
<1>3. ASSUME Pending' \subseteq Pending, position' = position
      PROVE  PositionsDistinct'
  BY <1>3
<1>4. ASSUME NEW op \in Ops, NEW i \in Items,
             CancelQueueItem(i, op) \/ \E r \in Runs : PromoteQueueItem(i, r, op)
      PROVE  PositionsDistinct'
  BY <1>3, <1>4 DEF PromoteQueueItem, CancelQueueItem, Pending, TypeOK
<1>5. ASSUME NEW i \in Items, NEW r \in Runs, BeginRunFromQueue(i, r) \/ ConsumeSteer(i, r)
      PROVE  PositionsDistinct'
  BY <1>3, <1>5 DEF BeginRunFromQueue, ConsumeSteer, Pending, TypeOK
<1>6. ASSUME NEW r \in Runs,
             BeginRun(r) \/ RequeueSteers(r) \/ \E s \in Terminal : FinishRun(r, s)
      PROVE  PositionsDistinct'
  BY <1>3, <1>6 DEF BeginRun, RequeueSteers, FinishRun, queueVars, Pending
<1>7. ASSUME NEW op \in Ops, NEW p \in BOOLEAN, SetQueuePaused(p, op)
      PROVE  PositionsDistinct'
  BY <1>3, <1>7 DEF SetQueuePaused, queueVars, Pending
<1>8. CASE LoadSession
  BY <1>3, <1>8 DEF LoadSession, RecoverInterruptedRun, PauseRecoveredQueue, LoadUnchanged,
                    queueVars, Pending
<1>9. CASE Crash \/ LoadFails \/ ReplayMaterializeRun \/ UNCHANGED vars
  BY <1>3, <1>9 DEF Crash, LoadFails, ReplayMaterializeRun, vars, queueVars, Pending
<1> QED
  BY <1>1, <1>2, <1>4, <1>5, <1>6, <1>7, <1>8, <1>9 DEF Next, UserMutation, RunStep

\* Consumption and its message are one commit.
LEMMA ConsumptionStep ==
  ASSUME TypeOK, ConsumedExactlyOnce, ConsumersAreNamed, [Next]_vars
  PROVE  ConsumedExactlyOnce' /\ ConsumersAreNamed'
<1> DEFINE Carriers(i) == {k \in DOMAIN messages : messages[k].itemId = i}
<1>1. ASSUME NEW i \in Items, NEW r \in Runs,
             status[i] = "queued",
             status' = [status EXCEPT ![i] = "consumed"],
             consumedRunId' = [consumedRunId EXCEPT ![i] = r],
             messages' = Append(messages, [runId |-> r, itemId |-> i])
      PROVE  ConsumedExactlyOnce' /\ ConsumersAreNamed'
  <2> DEFINE n == Len(messages) + 1
             m == [runId |-> r, itemId |-> i]
  <2>1. m \in Message
    BY DEF Message
  <2>2. /\ DOMAIN messages' = DOMAIN messages \cup {n}
        /\ n \notin DOMAIN messages
        /\ messages'[n] = m
        /\ \A k \in DOMAIN messages : messages'[k] = messages[k]
    BY <1>1, <2>1, AppendMessage
  <2>3. Carriers(i)' = {n}
    <3>1. Carriers(i) = {}
      BY <1>1 DEF ConsumedExactlyOnce
    <3> QED BY <2>2, <3>1
  <2>4. \A j \in Items \ {i} : /\ Carriers(j)' = Carriers(j)
                               /\ status'[j] = status[j]
                               /\ consumedRunId'[j] = consumedRunId[j]
    BY <1>1, <2>2 DEF TypeOK
  <2>5. status'[i] = "consumed" /\ consumedRunId'[i] = r
    BY <1>1 DEF TypeOK
  <2>6. ASSUME NEW j \in Items
        PROVE  IF status'[j] = "consumed"
               THEN \E k \in DOMAIN messages' :
                      Carriers(j)' = {k} /\ messages'[k].runId = consumedRunId'[j]
               ELSE Carriers(j)' = {}
    <3>1. CASE j = i
      BY <2>2, <2>3, <2>5, <3>1
    <3>2. CASE j # i
      BY <2>2, <2>4, <3>2 DEF ConsumedExactlyOnce
    <3> QED BY <3>1, <3>2
  <2>7. ConsumedExactlyOnce'
    BY <2>6 DEF ConsumedExactlyOnce
  <2>8. ConsumersAreNamed'
    BY <2>4, <2>5, SentinelsAreFresh DEF ConsumersAreNamed
  <2> QED BY <2>7, <2>8
<1>2. ASSUME NEW r \in Runs, UNCHANGED <<status, consumedRunId>>,
             messages' = Append(messages, [runId |-> r, itemId |-> NoItem])
      PROVE  ConsumedExactlyOnce' /\ ConsumersAreNamed'
  <2> DEFINE n == Len(messages) + 1
             m == [runId |-> r, itemId |-> NoItem]
  <2>1. m \in Message
    BY DEF Message
  <2>2. /\ DOMAIN messages' = DOMAIN messages \cup {n}
        /\ n \notin DOMAIN messages
        /\ messages'[n] = m
        /\ \A k \in DOMAIN messages : messages'[k] = messages[k]
    BY <1>2, <2>1, AppendMessage
  <2>3. \A j \in Items : Carriers(j)' = Carriers(j)
    BY <2>2, SentinelsAreFresh
  <2>4. ConsumedExactlyOnce'
    BY <1>2, <2>2, <2>3 DEF ConsumedExactlyOnce
  <2> QED BY <1>2, <2>4 DEF ConsumersAreNamed
<1>3. ASSUME UNCHANGED <<consumedRunId, messages>>,
             \A i \in Items : status'[i] = "consumed" <=> status[i] = "consumed"
      PROVE  ConsumedExactlyOnce' /\ ConsumersAreNamed'
  BY <1>3 DEF ConsumedExactlyOnce, ConsumersAreNamed
<1>4. ASSUME NEW op \in Ops, NEW i \in Items,
             \/ CancelQueueItem(i, op)
             \/ \E d \in Delivery, r \in Runs \cup {NoRun} : EnqueueQueueItem(i, d, r, op)
      PROVE  ConsumedExactlyOnce' /\ ConsumersAreNamed'
  BY <1>3, <1>4 DEF EnqueueQueueItem, CancelQueueItem, runVars, TypeOK
<1>5. ASSUME NEW op \in Ops,
             \/ \E i \in Items, r \in Runs : PromoteQueueItem(i, r, op)
             \/ \E p \in BOOLEAN : SetQueuePaused(p, op)
      PROVE  ConsumedExactlyOnce' /\ ConsumersAreNamed'
  BY <1>3, <1>5 DEF PromoteQueueItem, SetQueuePaused, queueVars, runVars
<1>6. ASSUME NEW op \in Ops, NEW order \in Orders, NEW seen \in 0 .. revision,
             ReorderQueueItems(order, seen, op)
      PROVE  ConsumedExactlyOnce' /\ ConsumersAreNamed'
  BY <1>3, <1>6 DEF ReorderQueueItems, runVars
<1>7. ASSUME NEW i \in Items, NEW r \in Runs, BeginRunFromQueue(i, r) \/ ConsumeSteer(i, r)
      PROVE  ConsumedExactlyOnce' /\ ConsumersAreNamed'
  <2>1. status[i] = "queued"
    BY <1>7 DEF BeginRunFromQueue, ConsumeSteer, First, NextRunItems, SteersFor, Pending
  <2> QED BY <1>1, <1>7, <2>1 DEF BeginRunFromQueue, ConsumeSteer
<1>8. ASSUME NEW r \in Runs, BeginRun(r)
      PROVE  ConsumedExactlyOnce' /\ ConsumersAreNamed'
  BY <1>2, <1>8 DEF BeginRun, queueVars
<1>9. ASSUME NEW r \in Runs, RequeueSteers(r) \/ \E s \in Terminal : FinishRun(r, s)
      PROVE  ConsumedExactlyOnce' /\ ConsumersAreNamed'
  BY <1>3, <1>9 DEF RequeueSteers, FinishRun, queueVars, runVars
<1>10. CASE LoadSession
  BY <1>3, <1>10 DEF LoadSession, RecoverInterruptedRun, PauseRecoveredQueue, LoadUnchanged,
                     queueVars, runVars
<1>11. CASE Crash \/ LoadFails \/ ReplayMaterializeRun \/ UNCHANGED vars
  BY <1>3, <1>11 DEF Crash, LoadFails, ReplayMaterializeRun, vars, queueVars, runVars
<1> QED
  BY <1>4, <1>5, <1>6, <1>7, <1>8, <1>9, <1>10, <1>11 DEF Next, UserMutation, RunStep

\* Runs stay whole, in order, and each is either active or reported.
Lifecycle == RunsDoNotInterleave /\ RunsSettleOnce /\ DrivenRunsAreOpen

\* No step interleaves Runs, reports one twice or leaves one open.
LEMMA LifecycleStep ==
  ASSUME TypeOK, Lifecycle, [Next]_vars
  PROVE  Lifecycle'
<1> USE DEF Lifecycle
<1>1. activeTaskId # NoRun => activeTaskId \in Started
  <2>1. DOMAIN messages = 1 .. Len(messages) /\ Len(messages) \in Nat
    BY LenProperties DEF TypeOK
  <2>2. messages # <<>> => Len(messages) \in DOMAIN messages
    BY <2>1, EmptySeq, LenProperties DEF TypeOK
  <2> QED BY <2>2 DEF RunsDoNotInterleave, Started
<1>2. ASSUME NEW r \in Runs \ Started, NEW i \in Items \cup {NoItem},
             activeTaskId = NoRun, activeTaskId' = r,
             messages' = Append(messages, [runId |-> r, itemId |-> i]),
             activeRuns' = activeRuns \cup {r}, runReports' = runReports
      PROVE  Lifecycle'
  <2> DEFINE n == Len(messages) + 1
             m == [runId |-> r, itemId |-> i]
  <2>1. m \in Message /\ messages' = Append(messages, m)
    BY <1>2 DEF Message
  <2>2. /\ DOMAIN messages' = 1 .. n
        /\ DOMAIN messages = 1 .. Len(messages)
        /\ Len(messages) \in Nat
        /\ messages'[n] = m
        /\ \A k \in DOMAIN messages : messages'[k] = messages[k]
        /\ Len(messages') = n
        /\ messages' # <<>>
    BY <2>1, AppendMessage, AppendProperties DEF TypeOK, Message
  <2>3. \A k \in DOMAIN messages : messages[k].runId # r
    BY <1>2 DEF Started
  <2>4. RunsDoNotInterleave'
    <3>1. ASSUME NEW k \in 1 .. n, NEW l \in 1 .. n, k < l,
                 messages'[k].runId = messages'[l].runId,
                 NEW j \in k .. l
          PROVE  messages'[j].runId = messages'[k].runId
      <4>1. CASE l = n
        BY <2>2, <2>3, <3>1, <4>1
      <4>2. CASE l # n
        <5>1. k \in DOMAIN messages /\ l \in DOMAIN messages /\ j \in DOMAIN messages
          BY <2>2, <3>1, <4>2
        <5> QED BY <2>2, <3>1, <5>1 DEF RunsDoNotInterleave
      <4> QED BY <4>1, <4>2
    <3>2. messages'[Len(messages')].runId = activeTaskId'
      BY <1>2, <2>2
    <3> QED BY <2>2, <3>1, <3>2 DEF RunsDoNotInterleave
  <2>5. Started' = Started \cup {r}
    BY <1>2, <2>1, StartedByAppend
  <2>6. RunsSettleOnce'
    BY <1>2, <2>5, SentinelsAreFresh DEF RunsSettleOnce
  <2>7. DrivenRunsAreOpen'
    BY <1>2, SentinelsAreFresh DEF DrivenRunsAreOpen, TypeOK
  <2> QED BY <2>4, <2>6, <2>7
<1>3. ASSUME UNCHANGED <<runVars, activeRuns>>
      PROVE  Lifecycle'
  BY <1>3 DEF runVars, RunsDoNotInterleave, RunsSettleOnce, DrivenRunsAreOpen, Started
<1>4. ASSUME NEW r \in Runs, NEW i \in Items, ConsumeSteer(i, r)
      PROVE  Lifecycle'
  <2> DEFINE n == Len(messages) + 1
             m == [runId |-> r, itemId |-> i]
  <2>1. m \in Message /\ messages' = Append(messages, m) /\ activeTaskId = r
    BY <1>4 DEF Message, ConsumeSteer
  <2>2. /\ DOMAIN messages' = 1 .. n
        /\ DOMAIN messages = 1 .. Len(messages)
        /\ Len(messages) \in Nat
        /\ messages'[n] = m
        /\ \A k \in DOMAIN messages : messages'[k] = messages[k]
        /\ Len(messages') = n
        /\ messages' # <<>>
    <3>1. messages \in Seq(Message)
      BY DEF TypeOK, Message
    <3> HIDE DEF m
    <3>2. Len(messages') = n /\ messages' # <<>>
      BY <2>1, <3>1, AppendProperties, EmptySeq, LenProperties
    <3> QED BY <2>1, <3>2, AppendMessage
  <2>3. messages # <<>> /\ messages[Len(messages)].runId = r
    BY <1>4, <2>1 DEF RunsDoNotInterleave, ConsumeSteer
  <2>4. Len(messages) \in DOMAIN messages
    BY <2>2, <2>3, EmptySeq, LenProperties DEF TypeOK
  <2>5. RunsDoNotInterleave'
    <3>1. ASSUME NEW k \in 1 .. n, NEW l \in 1 .. n, k < l,
                 messages'[k].runId = messages'[l].runId,
                 NEW j \in k .. l
          PROVE  messages'[j].runId = messages'[k].runId
      <4>1. CASE l = n
        <5>1. k \in DOMAIN messages /\ messages[k].runId = r
          BY <2>2, <3>1, <4>1
        <5>2. \A h \in k .. Len(messages) : messages[h].runId = r
          BY <2>2, <2>3, <2>4, <5>1 DEF RunsDoNotInterleave
        <5>3. CASE j = n
          BY <2>2, <3>1, <4>1, <5>3
        <5>4. CASE j # n
          <6>1. j \in k .. Len(messages) /\ j \in DOMAIN messages
            BY <2>2, <3>1, <4>1, <5>4
          <6> QED BY <2>2, <5>1, <5>2, <6>1
        <5> QED BY <5>3, <5>4
      <4>2. CASE l # n
        <5>1. k \in DOMAIN messages /\ l \in DOMAIN messages /\ j \in DOMAIN messages
          BY <2>2, <3>1, <4>2
        <5> QED BY <2>2, <3>1, <5>1 DEF RunsDoNotInterleave
      <4> QED BY <4>1, <4>2
    <3>2. activeTaskId' = r
      BY <1>4, <2>1 DEF ConsumeSteer
    <3> QED BY <2>2, <3>1, <3>2 DEF RunsDoNotInterleave
  <2>6. Started' = Started
    <3>1. r \in Started
      BY <1>1, <2>1, SentinelsAreFresh
    <3> QED BY <2>1, <3>1, StartedByAppend
  <2>7. UNCHANGED <<activeTaskId, runReports, activeRuns>>
    BY <1>4 DEF ConsumeSteer, volatile
  <2> QED BY <2>5, <2>6, <2>7 DEF RunsSettleOnce, DrivenRunsAreOpen
<1>5. ASSUME NEW t \in Terminal, activeTaskId \in Runs, activeTaskId' = NoRun,
             runReports' = [runReports EXCEPT ![activeTaskId] = t],
             messages' = messages, activeRuns' = activeRuns \ {activeTaskId}
      PROVE  Lifecycle'
  <2>1. Started' = Started
    BY <1>5 DEF Started
  <2>2. \A r \in Runs : runReports'[r] # "none" <=> r = activeTaskId \/ runReports[r] # "none"
    BY <1>5 DEF TypeOK, Terminal
  <2>3. activeTaskId \in Started
    BY <1>1, <1>5, SentinelsAreFresh
  <2>4. RunsSettleOnce'
    BY <1>5, <2>1, <2>2, <2>3, SentinelsAreFresh DEF RunsSettleOnce
  <2> QED BY <1>5, <2>4 DEF RunsDoNotInterleave, DrivenRunsAreOpen
<1>6. ASSUME NEW op \in Ops, UserMutation(op)
      PROVE  Lifecycle'
  BY <1>3, <1>6 DEF UserMutation, EnqueueQueueItem, PromoteQueueItem, CancelQueueItem,
                    SetQueuePaused, volatile
<1>7. ASSUME NEW op \in Ops, NEW order \in Orders, NEW seen \in 0 .. revision,
             ReorderQueueItems(order, seen, op)
      PROVE  Lifecycle'
  BY <1>3, <1>7 DEF ReorderQueueItems, volatile
<1>8. ASSUME NEW r \in Runs, BeginRun(r)
      PROVE  Lifecycle'
  BY <1>2, <1>8 DEF BeginRun
<1>9. ASSUME NEW r \in Runs, NEW i \in Items, BeginRunFromQueue(i, r)
      PROVE  Lifecycle'
  BY <1>2, <1>9 DEF BeginRunFromQueue
<1>10. ASSUME NEW r \in Runs, RequeueSteers(r)
       PROVE  Lifecycle'
  BY <1>3, <1>10 DEF RequeueSteers, volatile
<1>11. ASSUME NEW r \in Runs, NEW t \in Terminal, FinishRun(r, t)
       PROVE  Lifecycle'
  BY <1>5, <1>11 DEF FinishRun
<1>12. CASE LoadSession
  <2>1. CASE RecoverInterruptedRun
    <3>1. activeTaskId \in Runs /\ activeRuns' = activeRuns \ {activeTaskId}
      BY <1>12, <2>1 DEF LoadSession, RecoverInterruptedRun, TypeOK
    <3>2. "failed" \in Terminal
      BY DEF Terminal
    <3> QED BY <1>5, <2>1, <3>1, <3>2 DEF RecoverInterruptedRun
  <2>2. CASE PauseRecoveredQueue \/ LoadUnchanged
    BY <1>3, <1>12, <2>2 DEF LoadSession, PauseRecoveredQueue, LoadUnchanged
  <2> QED BY <1>12, <2>1, <2>2 DEF LoadSession
<1>13. CASE Crash
  BY <1>13 DEF Crash, runVars, RunsDoNotInterleave, RunsSettleOnce, DrivenRunsAreOpen, Started
<1>14. CASE LoadFails \/ ReplayMaterializeRun \/ UNCHANGED vars
  BY <1>3, <1>14 DEF LoadFails, ReplayMaterializeRun, vars, volatile
<1> QED
  BY <1>4, <1>6, <1>7, <1>8, <1>9, <1>10, <1>11, <1>12, <1>13, <1>14 DEF Next, RunStep

\* A Steer keeps its Run, and gets one only from the Run in progress.
LEMMA TargetsStep ==
  ASSUME TypeOK, TargetsAreRuns, [Next]_vars
  PROVE  TargetsAreRuns'
<1> USE DEF TargetsAreRuns
<1>1. ASSUME Pending' \subseteq Pending,
             \A i \in Pending : delivery'[i] = "steer"
               => delivery[i] = "steer" /\ targetRunId'[i] = targetRunId[i]
      PROVE  TargetsAreRuns'
  BY <1>1
<1>2. ASSUME NEW op \in Ops, NEW i \in Items, NEW d \in Delivery, NEW r \in Runs \cup {NoRun},
             EnqueueQueueItem(i, d, r, op)
      PROVE  TargetsAreRuns'
  BY <1>2, SentinelsAreFresh DEF EnqueueQueueItem, TypeOK, Pending, Delivery
<1>3. ASSUME NEW op \in Ops, NEW i \in Items, NEW r \in Runs, PromoteQueueItem(i, r, op)
      PROVE  TargetsAreRuns'
  BY <1>3 DEF PromoteQueueItem, TypeOK, Pending
<1>4. ASSUME NEW op \in Ops, NEW i \in Items, CancelQueueItem(i, op)
      PROVE  TargetsAreRuns'
  BY <1>1, <1>4 DEF CancelQueueItem, TypeOK, Pending
<1>5. ASSUME NEW op \in Ops, NEW p \in BOOLEAN, SetQueuePaused(p, op)
      PROVE  TargetsAreRuns'
  BY <1>1, <1>5 DEF SetQueuePaused, queueVars, Pending
<1>6. ASSUME NEW op \in Ops, NEW order \in Orders, NEW seen \in 0 .. revision,
             ReorderQueueItems(order, seen, op)
      PROVE  TargetsAreRuns'
  BY <1>1, <1>6 DEF ReorderQueueItems, Pending
<1>7. ASSUME NEW r \in Runs, BeginRun(r) \/ \E t \in Terminal : FinishRun(r, t)
      PROVE  TargetsAreRuns'
  BY <1>1, <1>7 DEF BeginRun, FinishRun, queueVars, Pending
<1>8. ASSUME NEW r \in Runs, NEW i \in Items, BeginRunFromQueue(i, r) \/ ConsumeSteer(i, r)
      PROVE  TargetsAreRuns'
  BY <1>1, <1>8 DEF BeginRunFromQueue, ConsumeSteer, TypeOK, Pending
<1>9. ASSUME NEW r \in Runs \cup {NoRun}, Requeue(r), status' = status
      PROVE  TargetsAreRuns'
  BY <1>1, <1>9 DEF Requeue, TypeOK, Pending
<1>10. ASSUME NEW r \in Runs, RequeueSteers(r)
       PROVE  TargetsAreRuns'
  BY <1>9, <1>10 DEF RequeueSteers
<1>11. CASE LoadSession
  <2>1. CASE RecoverInterruptedRun
    BY <1>9, <2>1 DEF RecoverInterruptedRun, TypeOK
  <2>2. CASE PauseRecoveredQueue \/ LoadUnchanged
    BY <1>1, <2>2 DEF PauseRecoveredQueue, LoadUnchanged, queueVars, Pending
  <2> QED BY <1>11, <2>1, <2>2 DEF LoadSession
<1>12. CASE Crash \/ LoadFails \/ ReplayMaterializeRun \/ UNCHANGED vars
  BY <1>1, <1>12 DEF Crash, LoadFails, ReplayMaterializeRun, vars, queueVars, Pending
<1> QED
  BY <1>2, <1>3, <1>4, <1>5, <1>6, <1>7, <1>8, <1>10, <1>11, <1>12
     DEF Next, UserMutation, RunStep

\* Only a restart closes the Session, and it takes the active Run along.
LEMMA OpeningStep ==
  ASSUME UnopenedIsUndriven, [Next]_vars
  PROVE  UnopenedIsUndriven'
<1> USE DEF UnopenedIsUndriven
<1>1. CASE opened /\ ~LoadSession /\ ~Crash /\ ~LoadFails /\ ~ReplayMaterializeRun
  <2>1. ASSUME NEW op \in Ops, UserMutation(op) PROVE opened'
    BY <1>1, <2>1 DEF UserMutation, EnqueueQueueItem, PromoteQueueItem, CancelQueueItem,
                      SetQueuePaused, volatile
  <2>2. ASSUME NEW op \in Ops, NEW order \in Orders, NEW seen \in 0 .. revision,
               ReorderQueueItems(order, seen, op)
        PROVE  opened'
    BY <1>1, <2>2 DEF ReorderQueueItems, volatile
  <2>3. ASSUME NEW r \in Runs, RunStep(r) PROVE opened'
    BY <1>1, <2>3 DEF RunStep, BeginRun, RequeueSteers, BeginRunFromQueue, ConsumeSteer,
                      FinishRun, volatile
  <2>4. CASE UNCHANGED vars
    BY <1>1, <2>4 DEF vars, volatile
  <2> QED BY <1>1, <2>1, <2>2, <2>3, <2>4 DEF Next
<1>2. CASE LoadSession \/ Crash \/ LoadFails \/ ReplayMaterializeRun
  BY <1>2 DEF LoadSession, Crash, LoadFails, ReplayMaterializeRun
<1>3. CASE ~opened /\ ~LoadSession /\ ~Crash /\ ~LoadFails /\ ~ReplayMaterializeRun
  BY <1>3 DEF Next, vars, volatile
<1> QED BY <1>1, <1>2, <1>3

\* The invariant is inductive.
LEMMA Inductive ==
  ASSUME IInv, [Next]_vars
  PROVE  IInv'
BY TypeStep, PositionsStep, ConsumptionStep, LifecycleStep, TargetsStep, OpeningStep
   DEF IInv, Lifecycle

\* The invariant holds of a new Session.
LEMMA InitEstablishes == Init => IInv
<1>1. ASSUME Init PROVE TypeOK
  <2>1. messages \in Seq([runId : Runs, itemId : Items \cup {NoItem}])
    BY <1>1, EmptySeq DEF Init
  <2> QED BY <1>1, <2>1 DEF Init, TypeOK, Status, Delivery
<1>2. ASSUME Init PROVE DOMAIN messages = {} /\ Started = {}
  <2>1. DOMAIN messages = {}
    BY <1>2, EmptySeq DEF Init
  <2> QED BY <2>1 DEF Started
<1>3. ASSUME Init PROVE PositionsDistinct /\ TargetsAreRuns /\ ConsumersAreNamed
  BY <1>3 DEF Init, PositionsDistinct, TargetsAreRuns, ConsumersAreNamed, Pending
<1>4. ASSUME Init PROVE ConsumedExactlyOnce
  BY <1>2, <1>4 DEF Init, ConsumedExactlyOnce
<1>5. ASSUME Init PROVE Lifecycle
  BY <1>2, <1>5 DEF Init, Lifecycle, RunsDoNotInterleave, RunsSettleOnce, DrivenRunsAreOpen
<1> QED BY <1>1, <1>3, <1>4, <1>5 DEF Init, IInv, Lifecycle, UnopenedIsUndriven

\* The invariant holds in every reachable state.
LEMMA Invariance == Spec => []IInv
<1>1. IInv /\ [Next]_vars => IInv'
  BY Inductive
<1> QED BY InitEstablishes, <1>1, PTL DEF Spec

-------------------------------------------------------------------------------
(* Safety theorems *)

\* The first waiting item is unique in every reachable state.
THEOREM PositionsStayDistinct == Spec => []PositionsDistinct
BY Invariance, PTL DEF IInv

\* No follow-up is lost or delivered twice, whatever the interleaving of user
\* mutations, consumption, crashes and recovery.
THEOREM ConsumptionIsExact == Spec => []ConsumedExactlyOnce
BY Invariance, PTL DEF IInv

\* Runs of one Session are serial: their messages never mix.
THEOREM RunsAreSerial == Spec => []RunsDoNotInterleave
BY Invariance, PTL DEF IInv

\* Every started Run is open or has exactly one outcome.
THEOREM EveryRunSettles == Spec => []RunsSettleOnce
BY Invariance, PTL DEF IInv

\* Recovery never closes a Run that this process is driving.
THEOREM RecoverySparesDrivenRuns == Spec => []DrivenRunsAreOpen
BY Invariance, PTL DEF IInv

-------------------------------------------------------------------------------
(* The replay table *)

\* The enqueue records of an item.  An item that was accepted has one, and each
\* operationId one record; Cardinality is left to the end.
EnqueueRecords(i) == {o \in operations : o.kind = "enqueued" /\ o.item = i}
RecordsAreUnique == \A a, b \in operations : a.op = b.op => a = b
AcceptedHaveOneRecord ==
  \A i \in Items : IF status[i] = "absent" THEN EnqueueRecords(i) = {}
                   ELSE \E o \in operations : EnqueueRecords(i) = {o}

\* A logged operation is new, so it meets no record of its operationId.
LEMMA LogKeepsUnique ==
  ASSUME RecordsAreUnique, NEW op \in Ops, Unused(op), NEW kind, NEW item, Log(op, kind, item)
  PROVE  RecordsAreUnique'
BY DEF RecordsAreUnique, Unused, Log

\* A step that writes no enqueue record leaves the records of every item.
LEMMA OtherRecords ==
  ASSUME AcceptedHaveOneRecord, NEW op \in Ops, NEW kind, NEW item, kind # "enqueued",
         Log(op, kind, item) \/ operations' = operations,
         \A i \in Items : status'[i] = "absent" <=> status[i] = "absent"
  PROVE  AcceptedHaveOneRecord'
<1>1. operations \subseteq operations' /\ \A i \in Items : EnqueueRecords(i)' = EnqueueRecords(i)
  BY DEF Log, EnqueueRecords
<1> QED BY <1>1 DEF AcceptedHaveOneRecord

\* A record is written once per operationId, and an enqueue record with its item.
LEMMA RecordsStep ==
  ASSUME TypeOK, RecordsAreUnique, AcceptedHaveOneRecord, [Next]_vars
  PROVE  RecordsAreUnique' /\ AcceptedHaveOneRecord'
<1>1. ASSUME operations' = operations, \A i \in Items : status'[i] = "absent" <=> status[i] = "absent"
      PROVE  RecordsAreUnique' /\ AcceptedHaveOneRecord'
  BY <1>1 DEF RecordsAreUnique, AcceptedHaveOneRecord, EnqueueRecords
<1>2. ASSUME NEW op \in Ops, NEW i \in Items, NEW d \in Delivery, NEW r \in Runs \cup {NoRun},
             EnqueueQueueItem(i, d, r, op)
      PROVE  RecordsAreUnique' /\ AcceptedHaveOneRecord'
  <2> DEFINE record == [op |-> op, kind |-> "enqueued", item |-> i]
  <2>1. status[i] = "absent" /\ status' = [status EXCEPT ![i] = "queued"]
        /\ operations' = operations \cup {record} /\ record.kind = "enqueued" /\ record.item = i
    BY <1>2 DEF EnqueueQueueItem, Log
  <2>2. EnqueueRecords(i)' = {record}
    BY <2>1 DEF AcceptedHaveOneRecord, EnqueueRecords
  <2>3. \A j \in Items \ {i} : EnqueueRecords(j)' = EnqueueRecords(j) /\ status'[j] = status[j]
    BY <2>1 DEF EnqueueRecords, TypeOK
  <2>4. status'[i] # "absent" /\ record \in operations'
    BY <2>1 DEF TypeOK
  <2> HIDE DEF record
  <2>5. AcceptedHaveOneRecord'
    BY <2>1, <2>2, <2>3, <2>4 DEF AcceptedHaveOneRecord
  <2> QED BY <1>2, <2>5, LogKeepsUnique DEF EnqueueQueueItem
<1>3. ASSUME NEW op \in Ops, NEW i \in Items, NEW r \in Runs, PromoteQueueItem(i, r, op)
      PROVE  RecordsAreUnique' /\ AcceptedHaveOneRecord'
  BY <1>3, LogKeepsUnique, OtherRecords DEF PromoteQueueItem
<1>4. ASSUME NEW op \in Ops, NEW i \in Items, CancelQueueItem(i, op)
      PROVE  RecordsAreUnique' /\ AcceptedHaveOneRecord'
  <2>1. \A j \in Items : status'[j] = "absent" <=> status[j] = "absent"
    BY <1>4 DEF CancelQueueItem, TypeOK
  <2> QED BY <1>4, <2>1, LogKeepsUnique, OtherRecords DEF CancelQueueItem
<1>5. ASSUME NEW op \in Ops, NEW p \in BOOLEAN, SetQueuePaused(p, op)
      PROVE  RecordsAreUnique' /\ AcceptedHaveOneRecord'
  <2>1. PICK kind \in {"paused", "resumed"} : Log(op, kind, NoItem)
    BY <1>5 DEF SetQueuePaused
  <2> QED BY <1>5, <2>1, LogKeepsUnique, OtherRecords DEF SetQueuePaused, queueVars
<1>6. ASSUME NEW op \in Ops, NEW order \in Orders, NEW seen \in 0 .. revision,
             ReorderQueueItems(order, seen, op)
      PROVE  RecordsAreUnique' /\ AcceptedHaveOneRecord'
  BY <1>6, LogKeepsUnique, OtherRecords DEF ReorderQueueItems
<1>7. ASSUME NEW r \in Runs, RunStep(r) PROVE RecordsAreUnique' /\ AcceptedHaveOneRecord'
  <2>1. operations' = operations
    BY <1>7 DEF RunStep, BeginRun, RequeueSteers, BeginRunFromQueue, ConsumeSteer, FinishRun
  <2>2. ASSUME NEW i \in Items, BeginRunFromQueue(i, r) \/ ConsumeSteer(i, r)
        PROVE  \A j \in Items : status'[j] = "absent" <=> status[j] = "absent"
    BY <2>2 DEF BeginRunFromQueue, ConsumeSteer, First, NextRunItems, SteersFor, Pending, TypeOK
  <2>3. CASE BeginRun(r) \/ RequeueSteers(r) \/ \E s \in Terminal : FinishRun(r, s)
    BY <1>1, <2>1, <2>3 DEF BeginRun, RequeueSteers, FinishRun, queueVars
  <2> QED BY <1>1, <1>7, <2>1, <2>2, <2>3 DEF RunStep
<1>8. CASE LoadSession \/ Crash \/ LoadFails \/ ReplayMaterializeRun \/ UNCHANGED vars
  BY <1>1, <1>8 DEF LoadSession, RecoverInterruptedRun, PauseRecoveredQueue, LoadUnchanged, Crash,
                    LoadFails, ReplayMaterializeRun, vars, queueVars
<1> QED BY <1>2, <1>3, <1>4, <1>5, <1>6, <1>7, <1>8 DEF Next, UserMutation

\* One operationId makes one queue record and one enqueue record one item, however
\* often a client repeats a mutation and whatever kind the repeated one is of.
THEOREM RetriesHaveOneEffect == Spec => []OneEffectPerOperation
<1>1. Init => RecordsAreUnique /\ AcceptedHaveOneRecord
  BY DEF Init, RecordsAreUnique, AcceptedHaveOneRecord, EnqueueRecords
<1>2. RecordsAreUnique /\ AcceptedHaveOneRecord => OneEffectPerOperation
  <2> SUFFICES ASSUME RecordsAreUnique, AcceptedHaveOneRecord, NEW i \in Items
               PROVE  status[i] # "absent" <=> Cardinality(EnqueueRecords(i)) = 1
    BY DEF OneEffectPerOperation, RecordsAreUnique, EnqueueRecords
  <2>1. CASE status[i] = "absent"
    BY <2>1, FS_EmptySet DEF AcceptedHaveOneRecord
  <2>2. CASE status[i] # "absent"
    BY <2>2, FS_Singleton DEF AcceptedHaveOneRecord
  <2> QED BY <2>1, <2>2
<1>3. TypeOK /\ RecordsAreUnique /\ AcceptedHaveOneRecord /\ [Next]_vars
        => (RecordsAreUnique /\ AcceptedHaveOneRecord)'
  BY RecordsStep
<1> QED BY <1>1, <1>2, <1>3, TypeCorrect, PTL DEF Spec

-------------------------------------------------------------------------------
(* Action properties *)

\* What was consumed, cancelled or reported stays so.
THEOREM OutcomesNeverChange == Spec => OutcomesAreFinal
<1> DEFINE Final == /\ \A i \in Items : status[i] \in {"consumed", "cancelled"}
                         => status'[i] = status[i] /\ consumedRunId'[i] = consumedRunId[i]
                    /\ \A r \in Runs : runReports[r] # "none" => runReports'[r] = runReports[r]
<1>1. ASSUME IInv, [Next]_vars PROVE Final
  <2> USE <1>1 DEF IInv
  <2>1. ASSUME NEW op \in Ops, UserMutation(op)
        PROVE  Final
    BY <2>1 DEF UserMutation, EnqueueQueueItem, PromoteQueueItem, CancelQueueItem,
                SetQueuePaused, queueVars, runVars, TypeOK
  <2>2. ASSUME NEW op \in Ops, NEW order \in Orders, NEW seen \in 0 .. revision,
               ReorderQueueItems(order, seen, op)
        PROVE  Final
    BY <2>2 DEF ReorderQueueItems, runVars
  <2>3. ASSUME NEW r \in Runs, BeginRun(r) \/ RequeueSteers(r)
        PROVE  Final
    BY <2>3 DEF BeginRun, RequeueSteers, queueVars, runVars
  <2>4. ASSUME NEW r \in Runs, NEW i \in Items, BeginRunFromQueue(i, r) \/ ConsumeSteer(i, r)
        PROVE  Final
    BY <2>4 DEF BeginRunFromQueue, ConsumeSteer, First, NextRunItems, SteersFor, Pending, TypeOK
  <2>5. ASSUME NEW r \in Runs, NEW t \in Terminal, FinishRun(r, t)
        PROVE  Final
    BY <2>5 DEF FinishRun, queueVars, TypeOK
  <2>6. CASE LoadSession
    BY <2>6, SentinelsAreFresh
       DEF LoadSession, RecoverInterruptedRun, PauseRecoveredQueue, LoadUnchanged, queueVars,
           runVars, TypeOK, RunsSettleOnce
  <2>7. CASE Crash \/ LoadFails \/ ReplayMaterializeRun \/ UNCHANGED vars
    BY <2>7 DEF Crash, LoadFails, ReplayMaterializeRun, vars, queueVars, runVars
  <2> QED BY <1>1, <2>1, <2>2, <2>3, <2>4, <2>5, <2>6, <2>7 DEF Next, RunStep
<1>2. IInv /\ [Next]_vars => [Final]_vars
  BY <1>1
<1> QED BY Invariance, <1>2, PTL DEF Spec, OutcomesAreFinal

\* The first loadSession that returns in a process has paused what it found waiting,
\* unless a load that threw or a replayed materializeRun marked the idle Session.
THEOREM RecoveryAlwaysPauses == Spec => RecoveryPausesTheQueue
<1>1. ASSUME UnopenedIsUndriven, TypeOK, [Next]_vars
      PROVE  ~opened /\ opened' /\ Pending' # {} => queuePaused' \/ MarkedTooEarly
  <2>1. CASE LoadSession
    <3>1. SUFFICES ASSUME ~opened, Pending' # {}, ~MarkedTooEarly PROVE queuePaused' = TRUE
      OBVIOUS
    <3>2. CASE RecoverInterruptedRun
      BY <3>1, <3>2 DEF RecoverInterruptedRun, Pending
    <3>3. CASE PauseRecoveredQueue
      BY <3>3 DEF PauseRecoveredQueue
    <3>4. CASE LoadUnchanged
      <4>1. Pending # {} /\ activeTaskId \notin activeRuns /\ queuePaused' = queuePaused
        BY <1>1, <3>1, <3>4 DEF LoadUnchanged, UnopenedIsUndriven, queueVars, Pending
      <4>2. queuePaused
        BY <3>1, <3>4, <4>1 DEF LoadUnchanged, NothingToRecover, MarkedTooEarly
      <4> QED BY <4>1, <4>2, <1>1 DEF TypeOK
    <3> QED BY <2>1, <3>2, <3>3, <3>4 DEF LoadSession
  <2>2. CASE ~LoadSession
    <3>1. ~opened => ~opened'
      BY <1>1, <2>2 DEF Next, Crash, LoadFails, ReplayMaterializeRun, vars, volatile
    <3> QED BY <3>1
  <2> QED BY <2>1, <2>2
<1>2. IInv => UnopenedIsUndriven /\ TypeOK
  BY DEF IInv
<1> QED BY Invariance, <1>1, <1>2, PTL DEF Spec, RecoveryPausesTheQueue

-------------------------------------------------------------------------------
(* The ledger implements SessionQueue *)

\* The values SessionQueue's variables take under the refinement mapping.
Ahead == {p \in Pending \X Pending : position[p[1]] < position[p[2]]}
Aim == [i \in Items |-> IF i \in Pending /\ delivery[i] = "steer"
                        THEN targetRunId[i] ELSE NoRun]
Withdrawn == {i \in Items : status[i] = "cancelled"}
Ended == {r \in Runs : runReports[r] # "none"}

\* The two views of "who is waiting for what" agree.
LEMMA AimedAtMeaning ==
  ASSUME IInv
  PROVE  /\ Queue!AimedAt(NoRun) = NextRunItems
         /\ \A r \in Runs : Queue!AimedAt(r) = SteersFor(r)
<1>1. Pending \subseteq Items
  BY DEF Pending
<1>2. \A i \in Pending : delivery[i] = "next_run" <=> delivery[i] # "steer"
  BY <1>1 DEF IInv, TypeOK, Delivery
<1>3. \A i \in Pending : delivery[i] = "steer" => targetRunId[i] \in Runs
  BY DEF IInv, TargetsAreRuns
<1> QED BY <1>1, <1>2, <1>3, SentinelsAreFresh DEF Queue!AimedAt, NextRunItems, SteersFor

\* The waiting item with the least position has no other before it.
LEMMA FirstLeads ==
  ASSUME IInv, NEW S \in SUBSET Pending, NEW i \in S, First(i, S)
  PROVE  Queue!Leads(i, S)
<1>1. \A j \in S \ {i} : position[i] < position[j]
  <2>1. \A j \in S : position[j] \in Nat
    BY DEF IInv, TypeOK, Pending
  <2>2. \A j \in S \ {i} : position[i] <= position[j] /\ position[i] # position[j]
    BY DEF First, IInv, PositionsDistinct
  <2> QED BY <2>1, <2>2
<1> QED BY <1>1 DEF Queue!Leads

\* Taking one item out of the waiting set leaves the others as they were.
LEMMA RemoveMaps ==
  ASSUME IInv, NEW i \in Pending, Pending' = Pending \ {i},
         UNCHANGED <<delivery, targetRunId, position>>
  PROVE  Queue!Remove(i)
<1>1. Ahead' = {p \in Ahead : p[1] # i /\ p[2] # i}
  BY DEF Ahead
<1>2. Aim' = [Aim EXCEPT ![i] = NoRun]
  BY DEF Aim
<1> QED BY <1>1, <1>2 DEF Queue!Remove, Ahead, Aim

\* Nothing the abstract Queue sees about waiting items depends on other state.
LEMMA WaitingUnchanged ==
  ASSUME Pending' = Pending, UNCHANGED <<delivery, targetRunId, position>>
  PROVE  Ahead' = Ahead /\ Aim' = Aim
BY DEF Ahead, Aim

\* enqueueQueueItem is the acceptance of an item at the end of the order.
LEMMA EnqueueMaps ==
  ASSUME IInv, NEW op \in Ops, NEW i \in Items, NEW d \in Delivery, NEW r \in Runs \cup {NoRun},
         EnqueueQueueItem(i, d, r, op)
  PROVE  Queue!Accept(i)
<1>1. Pending' = Pending \cup {i} /\ i \notin Pending
  BY DEF EnqueueQueueItem, Pending, IInv, TypeOK
<1>2. /\ position'[i] = NextPosition
      /\ \A j \in Pending : position'[j] = position[j] /\ position[j] < NextPosition
      /\ \A j \in Pending : position[j] \in Nat
      /\ NextPosition \in Nat
  BY <1>1, NextPositionIsLast DEF EnqueueQueueItem, IInv, TypeOK, Pending
<1>3. Ahead' = Ahead \cup (Pending \X {i})
  <2>1. ASSUME NEW a \in Pending', NEW b \in Pending'
        PROVE  position'[a] < position'[b]
                 <=> (a \in Pending /\ b = i)
                     \/ (a \in Pending /\ b \in Pending /\ position[a] < position[b])
    BY <1>1, <1>2, <2>1
  <2> QED BY <1>1, <2>1 DEF Ahead
<1>4. Aim' \in {Aim, [Aim EXCEPT ![i] = activeTaskId]}
  <2>1. \A j \in Items \ {i} : Aim'[j] = Aim[j]
    BY <1>1 DEF Aim, EnqueueQueueItem, IInv, TypeOK
  <2>2. Aim'[i] = IF d = "steer" THEN activeTaskId ELSE NoRun
    BY <1>1 DEF Aim, EnqueueQueueItem, IInv, TypeOK
  <2>3. Aim[i] = NoRun
    BY <1>1 DEF Aim
  <2> QED BY <2>1, <2>2, <2>3 DEF Aim
<1>5. Queue!Unseen(i)
  BY <1>1 DEF Queue!Unseen, EnqueueQueueItem, IInv, ConsumersAreNamed, TypeOK
<1>6. Withdrawn' = Withdrawn
  BY DEF Withdrawn, EnqueueQueueItem, IInv, TypeOK
<1> QED
  BY <1>1, <1>3, <1>4, <1>5, <1>6
     DEF Queue!Accept, EnqueueQueueItem, runVars, Ahead, Aim, Withdrawn

\* promoteQueueItem aims an item at the Run in progress.
LEMMA PromoteMaps ==
  ASSUME IInv, NEW op \in Ops, NEW i \in Items, NEW r \in Runs, PromoteQueueItem(i, r, op)
  PROVE  Queue!Steer(i)
<1>1. Pending' = Pending /\ i \in Pending /\ position' = position
  BY DEF PromoteQueueItem, NextRunItems, Pending
<1>2. Ahead' = Ahead
  BY <1>1 DEF Ahead
<1>3. Aim' = [Aim EXCEPT ![i] = activeTaskId]
  BY <1>1 DEF Aim, PromoteQueueItem, IInv, TypeOK
<1>4. i \in Queue!AimedAt(NoRun)
  BY AimedAtMeaning DEF PromoteQueueItem
<1>5. activeTaskId # NoRun /\ UNCHANGED <<consumedRunId, queuePaused, runVars, status>>
  BY DEF PromoteQueueItem
<1> QED BY <1>1, <1>2, <1>3, <1>4, <1>5 DEF Queue!Steer, runVars, Ahead, Aim

\* cancelQueueItem is a withdrawal.
LEMMA CancelMaps ==
  ASSUME IInv, NEW op \in Ops, NEW i \in Items, CancelQueueItem(i, op)
  PROVE  Queue!Withdraw(i)
<1>1. Pending' = Pending \ {i} /\ i \in Pending /\ Withdrawn' = Withdrawn \cup {i}
  BY DEF CancelQueueItem, Pending, Withdrawn, IInv, TypeOK
<1>2. Queue!Remove(i)
  BY <1>1, RemoveMaps DEF CancelQueueItem
<1> QED BY <1>1, <1>2 DEF Queue!Withdraw, CancelQueueItem, runVars, Withdrawn

\* reorderQueueItems chooses another total order of the same items.
LEMMA ReorderMaps ==
  ASSUME IInv, NEW op \in Ops, NEW order \in Orders, NEW seen \in 0 .. revision,
         ReorderQueueItems(order, seen, op)
  PROVE  Queue!Rearrange
<1>1. Pending' = Pending
  BY DEF ReorderQueueItems, Pending
<1>2. \A i \in Pending : position'[i] = order[i] /\ order[i] \in Nat
  BY OrderIsNumbering DEF ReorderQueueItems, Pending, IInv, TypeOK
<1>3. \A i, j \in Pending : i # j => position'[i] # position'[j]
  BY <1>2, OrderIsNumbering DEF ReorderQueueItems
<1>4. Aim' = Aim
  BY <1>1 DEF Aim, ReorderQueueItems
<1>5. Queue!StrictTotalOrder(Ahead', Pending)
  <2>1. \A i, j \in Pending : <<i, j>> \in Ahead' <=> position'[i] < position'[j]
    BY <1>1 DEF Ahead
  <2>2. Ahead' \subseteq Pending \X Pending
    BY <1>1 DEF Ahead
  <2>3. \A i \in Pending : position'[i] \in Nat
    BY <1>2
  <2> QED BY <1>3, <2>1, <2>2, <2>3 DEF Queue!StrictTotalOrder
<1>6. Ahead' \in SUBSET (Pending \X Pending)
  BY <1>1 DEF Ahead
<1> QED
  BY <1>1, <1>4, <1>5, <1>6 DEF Queue!Rearrange, ReorderQueueItems, runVars, Ahead, Aim

\* Requeueing the Steers of one Run is a Release of that Run.
LEMMA RequeueAims ==
  ASSUME IInv, NEW r \in Runs, Requeue(r), status' = status
  PROVE  Aim' = [i \in Items |-> IF Aim[i] = r THEN NoRun ELSE Aim[i]]
<1>1. Pending' = Pending
  BY DEF Pending
<1>2. \A i \in Items : Aim[i] = r <=> i \in SteersFor(r)
  BY SentinelsAreFresh DEF Aim, SteersFor
<1>3. \A i \in Items : Aim'[i] = IF Aim[i] = r THEN NoRun ELSE Aim[i]
  BY <1>1, <1>2 DEF Requeue, Aim, IInv, TypeOK
<1> QED BY <1>3 DEF Aim

\* requeueSteers aims Steers at the next Run again.
LEMMA RequeueMaps ==
  ASSUME IInv, NEW r \in Runs, RequeueSteers(r)
  PROVE  Queue!Release(r)
<1>1. Pending' = Pending /\ Ahead' = Ahead
  BY DEF RequeueSteers, Pending, Ahead
<1>2. Aim' = [i \in Items |-> IF Aim[i] = r THEN NoRun ELSE Aim[i]]
  BY RequeueAims DEF RequeueSteers
<1> QED BY <1>1, <1>2 DEF Queue!Release, RequeueSteers, runVars, Ahead, Aim

\* beginRun takes no item.
LEMMA BeginMaps ==
  ASSUME IInv, NEW r \in Runs, BeginRun(r)
  PROVE  Queue!Begin(r)
<1>1. Pending' = Pending /\ Ahead' = Ahead /\ Aim' = Aim
  BY DEF BeginRun, queueVars, Pending, Ahead, Aim
<1>2. r \in Runs \ Ended
  BY DEF BeginRun, Ended, IInv, RunsSettleOnce
<1> QED BY <1>1, <1>2 DEF Queue!Begin, BeginRun, queueVars, Ahead, Aim, Ended

\* beginRunFromQueue takes the first item of the next Run.
LEMMA BeginFromQueueMaps ==
  ASSUME IInv, NEW r \in Runs, NEW i \in Items, BeginRunFromQueue(i, r)
  PROVE  Queue!BeginWith(i, r)
<1>1. i \in NextRunItems /\ NextRunItems \subseteq Pending
  BY DEF BeginRunFromQueue, First, NextRunItems
<1>2. Pending' = Pending \ {i} /\ Withdrawn' = Withdrawn
  BY <1>1 DEF BeginRunFromQueue, Pending, Withdrawn, IInv, TypeOK, NextRunItems
<1>3. Queue!Remove(i)
  BY <1>1, <1>2, RemoveMaps DEF BeginRunFromQueue
<1>4. Queue!Leads(i, Queue!AimedAt(NoRun))
  BY <1>1, FirstLeads, AimedAtMeaning DEF BeginRunFromQueue
<1>5. r \in Runs \ Ended
  BY DEF BeginRunFromQueue, Ended, IInv, RunsSettleOnce
<1> QED
  BY <1>2, <1>3, <1>4, <1>5 DEF Queue!BeginWith, BeginRunFromQueue, Withdrawn, Ended

\* consumeSteer takes the first Steer of the Run in progress.
LEMMA ConsumeMaps ==
  ASSUME IInv, NEW r \in Runs, NEW i \in Items, ConsumeSteer(i, r)
  PROVE  Queue!TakeSteer(i)
<1>1. i \in SteersFor(r) /\ SteersFor(r) \subseteq Pending /\ activeTaskId = r /\ r # NoRun
  BY DEF ConsumeSteer, First, SteersFor
<1>2. Pending' = Pending \ {i} /\ Withdrawn' = Withdrawn
  BY <1>1 DEF ConsumeSteer, Pending, Withdrawn, IInv, TypeOK, SteersFor
<1>3. Queue!Remove(i)
  BY <1>1, <1>2, RemoveMaps DEF ConsumeSteer
<1>4. Queue!Leads(i, Queue!AimedAt(activeTaskId))
  BY <1>1, FirstLeads, AimedAtMeaning DEF ConsumeSteer
<1> QED BY <1>1, <1>2, <1>3, <1>4 DEF Queue!TakeSteer, ConsumeSteer, Withdrawn

\* One more RunReport is one more ended Run.
LEMMA ReportEnds ==
  ASSUME IInv, NEW r \in Runs, NEW t \in Terminal,
         runReports' = [runReports EXCEPT ![r] = t]
  PROVE  Ended' = Ended \cup {r}
BY DEF Ended, IInv, TypeOK, Terminal

\* finishRun ends the Run in progress and moves no item.
LEMMA FinishMaps ==
  ASSUME IInv, NEW r \in Runs, NEW t \in Terminal, FinishRun(r, t)
  PROVE  Queue!End
<1>1. Pending' = Pending /\ Ahead' = Ahead /\ Aim' = Aim
  BY DEF FinishRun, queueVars, Pending, Ahead, Aim
<1>2. Ended' = Ended \cup {activeTaskId}
  BY ReportEnds DEF FinishRun
<1> QED BY <1>1, <1>2 DEF Queue!End, FinishRun, queueVars, Ahead, Aim, Ended

\* Recovery of an interrupted Run ends it, requeues its Steers and pauses.
LEMMA RecoverMaps ==
  ASSUME IInv, RecoverInterruptedRun
  PROVE  Queue!Interrupt
<1>1. activeTaskId \in Runs /\ "failed" \in Terminal
  BY DEF RecoverInterruptedRun, IInv, TypeOK, Terminal
<1>2. Pending' = Pending /\ Ahead' = Ahead
  BY DEF RecoverInterruptedRun, Pending, Ahead
<1>3. Aim' = [i \in Items |-> IF Aim[i] = activeTaskId THEN NoRun ELSE Aim[i]]
  BY <1>1, RequeueAims DEF RecoverInterruptedRun
<1>4. Ended' = Ended \cup {activeTaskId}
  BY <1>1, ReportEnds DEF RecoverInterruptedRun
<1> QED
  BY <1>2, <1>3, <1>4 DEF Queue!Interrupt, RecoverInterruptedRun, Ahead, Aim, Ended

\* What changes neither the Queue nor the Runs, or only the pause flag.
LEMMA StutterMaps ==
  ASSUME UNCHANGED <<queueVars, runVars>>, queuePaused' = queuePaused
  PROVE  UNCHANGED Queue!vars
<1>1. Pending' = Pending /\ Ahead' = Ahead /\ Aim' = Aim
  BY DEF queueVars, Pending, Ahead, Aim
<1> QED BY <1>1 DEF Queue!vars, queueVars, runVars, Ahead, Aim

\* setQueuePaused sets the pause.
LEMMA PauseMaps ==
  ASSUME UNCHANGED <<queueVars, runVars>>, queuePaused' \in BOOLEAN
  PROVE  Queue!SetPaused
<1>1. Pending' = Pending /\ Ahead' = Ahead /\ Aim' = Aim
  BY DEF queueVars, Pending, Ahead, Aim
<1> QED BY <1>1 DEF Queue!SetPaused, queueVars, runVars, Ahead, Aim

\* A new Session is an empty Queue.
LEMMA InitMaps == Init => Queue!Init
<1>1. ASSUME Init PROVE Pending = {} /\ Withdrawn = {} /\ Ended = {}
  BY <1>1 DEF Init, Pending, Withdrawn, Ended
<1>2. ASSUME Init PROVE Ahead = {} /\ Aim = [i \in Items |-> NoRun]
  BY <1>1, <1>2 DEF Ahead, Aim
<1> QED BY <1>1, <1>2 DEF Init, Queue!Init, Ahead, Aim, Withdrawn, Ended

\* Every step of the repository is a step of the Queue or leaves it alone.
LEMMA StepMaps ==
  ASSUME IInv, [Next]_vars
  PROVE  [Queue!Next]_(Queue!vars)
<1>1. ASSUME NEW op \in Ops, UserMutation(op)
      PROVE  Queue!Next
  <2>1. ASSUME NEW i \in Items, NEW d \in Delivery, NEW r \in Runs \cup {NoRun},
               EnqueueQueueItem(i, d, r, op)
        PROVE  Queue!Next
    BY <2>1, EnqueueMaps DEF Queue!Next
  <2>2. ASSUME NEW i \in Items, NEW r \in Runs, PromoteQueueItem(i, r, op)
        PROVE  Queue!Next
    BY <2>2, PromoteMaps DEF Queue!Next
  <2>3. ASSUME NEW i \in Items, CancelQueueItem(i, op)
        PROVE  Queue!Next
    BY <2>3, CancelMaps DEF Queue!Next
  <2>4. ASSUME NEW p \in BOOLEAN, SetQueuePaused(p, op)
        PROVE  Queue!Next
    BY <2>4, PauseMaps DEF Queue!Next, SetQueuePaused
  <2> QED BY <1>1, <2>1, <2>2, <2>3, <2>4 DEF UserMutation
<1>2. ASSUME NEW op \in Ops, NEW order \in Orders, NEW seen \in 0 .. revision,
             ReorderQueueItems(order, seen, op)
      PROVE  Queue!Next
  BY <1>2, ReorderMaps DEF Queue!Next
<1>3. ASSUME NEW r \in Runs, RunStep(r)
      PROVE  Queue!Next
  <2>1. CASE BeginRun(r)
    BY <2>1, BeginMaps DEF Queue!Next
  <2>2. CASE RequeueSteers(r)
    BY <2>2, RequeueMaps DEF Queue!Next
  <2>3. ASSUME NEW i \in Items, BeginRunFromQueue(i, r)
        PROVE  Queue!Next
    BY <2>3, BeginFromQueueMaps DEF Queue!Next
  <2>4. ASSUME NEW i \in Items, ConsumeSteer(i, r)
        PROVE  Queue!Next
    BY <2>4, ConsumeMaps DEF Queue!Next
  <2>5. ASSUME NEW t \in Terminal, FinishRun(r, t)
        PROVE  Queue!Next
    BY <2>5, FinishMaps DEF Queue!Next
  <2> QED BY <1>3, <2>1, <2>2, <2>3, <2>4, <2>5 DEF RunStep
<1>4. CASE LoadSession
  <2>1. CASE RecoverInterruptedRun
    BY <2>1, RecoverMaps DEF Queue!Next
  <2>2. CASE PauseRecoveredQueue
    BY <2>2, PauseMaps DEF Queue!Next, PauseRecoveredQueue
  <2>3. CASE LoadUnchanged
    BY <2>3, StutterMaps DEF LoadUnchanged
  <2> QED BY <1>4, <2>1, <2>2, <2>3 DEF LoadSession
<1>5. CASE Crash \/ LoadFails \/ ReplayMaterializeRun \/ UNCHANGED vars
  BY <1>5, StutterMaps DEF Crash, LoadFails, ReplayMaterializeRun, vars
<1> QED BY <1>1, <1>2, <1>3, <1>4, <1>5 DEF Next

\* The ledger of one Session, with its positions, operationIds, crashes and
\* recovery, implements the Queue that SessionQueue promises.
THEOREM LedgerImplementsQueue == Spec => ImplementsQueue
<1>1. IInv /\ [Next]_vars => [Queue!Next]_(Queue!vars)
  BY StepMaps
<1> QED BY InitMaps, Invariance, <1>1, PTL DEF Spec, ImplementsQueue, Queue!Spec

===============================================================================
