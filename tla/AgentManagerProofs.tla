--------------------------- MODULE AgentManagerProofs ---------------------------
(* Proofs about AgentManager, for every set of Agents and call ids, any limits  *)
(* and any bounds.                                                              *)
EXTENDS AgentManager, FiniteSetTheorems, TLAPS

\* A running Run is the current and the last one of its Agent, an execution is of
\* the last one, and an Agent that was not made has neither.
RunsAreTheLast ==
  \A a \in Agents :
    /\ \A r \in Running : r[1] = a => r[2] = agent[a].last /\ r[2] = agent[a].cur
    /\ a \in Handles => child[a].n = agent[a].last /\ agent[a].last # 0
    /\ agent[a].status = "absent" => agent[a].cur = 0 /\ agent[a].last = 0

\* What spawn and followup have checked still holds when they append: nothing else
\* starts a Run or registers a handle meanwhile.
StartsAreClear ==
  /\ call["main"].at = "launch" => Starting
  /\ Starting => /\ call["main"].id \in CallIds
                 /\ \A a, b \in call["main"].target : a = b
  /\ Starting /\ call["main"].at = "append"
       => /\ ~Replayed(call["main"].id)
          /\ \A a \in call["main"].target :
               agent[a].cur = 0 /\ a \notin Handles /\ agent[a].last < MaxChildRuns
  /\ Starting /\ call["main"].at = "launch"
       => \A a \in call["main"].target : agent[a].last # 0

\* Orchestration calls, and the consumption of a batch, are made inside a Main Run.
CallsNeedTheRun ==
  /\ main.live => main.no # 0
  /\ ~main.live => call["main"] = NoCall
  /\ delivery.at = "begin" => ~main.live /\ main.no < MaxMains
  /\ delivery.at = "consume" => main.live
  /\ streak <= main.no

\* A batch to begin was neither delivered nor told; one to consume has its Run.
DeliveriesAreFresh ==
  /\ \A r \in told : inbox[r] = "consumed"
  /\ delivery.at = "begin" => \A r \in delivery.batch : origin[r] = {} /\ r \notin told
  /\ delivery.at = "consume" => \A r \in delivery.batch : origin[r] # {}

\* A stop begun after the recoveries stays after them; one that found no agents.jsonl
\* leaves the Session as it is.
StopsAreKnown ==
  /\ halted => TreeExists
  /\ quiet => recovered /\ booted /\ stopper.at = None
  /\ stopper.at # None /\ stopper.calm => recovered /\ booted
  /\ stopper.bare => ~halted /\ stopper.at \in {"settle", "read", "consume"}

\* An execution that has found the Session running, and whose end is not yet
\* written, leaves a notification; a stop waits for every one there is.
ReadBefore(a) == child[a].at = "append" /\ ~child[a].halted
StopQuietens ==
  /\ stopper.at = "settle" /\ halted
       => \A a \in Agents : ReadBefore(a) => RunOf(a) \in stopper.waits
  /\ stopper.at \in {"read", "consume"} /\ halted => \A a \in Agents : ~ReadBefore(a)
  /\ stopper.at = "consume" /\ halted /\ stopper.calm => Pending \subseteq stopper.waits
  /\ quiet /\ halted => Pending = {} /\ \A a \in Agents : ~ReadBefore(a)

AgentIInv ==
  /\ TypeOK /\ RunsAreTheLast /\ StartsAreClear /\ CallsNeedTheRun
  /\ DeliveriesAreFresh /\ StopsAreKnown /\ StopQuietens

-------------------------------------------------------------------------------
(* What each part of the invariant looks at *)

\* A part of the invariant stays while the variables it looks at do.
LEMMA Frames ==
  ASSUME AgentIInv
  PROVE  /\ UNCHANGED <<agent, runStatus, child>> => RunsAreTheLast'
         /\ UNCHANGED <<call, operations, main, agent, child>> => StartsAreClear'
         /\ UNCHANGED <<main, call, delivery, streak>> => CallsNeedTheRun'
         /\ UNCHANGED <<told, inbox, delivery, origin>> => DeliveriesAreFresh'
         /\ UNCHANGED <<halted, agent, quiet, local, stopper>> => StopsAreKnown'
         /\ UNCHANGED <<stopper, halted, child, inbox, quiet>> => StopQuietens'
<1>1. UNCHANGED <<agent, runStatus, child>> => RunsAreTheLast'
  BY DEF AgentIInv, RunsAreTheLast, Running, Handles
<1>2. UNCHANGED <<call, operations, main, agent, child>> => StartsAreClear'
  BY DEF AgentIInv, StartsAreClear, Starting, Replayed, Handles
<1>3. UNCHANGED <<main, call, delivery, streak>> => CallsNeedTheRun'
  BY DEF AgentIInv, CallsNeedTheRun
<1>4. UNCHANGED <<told, inbox, delivery, origin>> => DeliveriesAreFresh'
  BY DEF AgentIInv, DeliveriesAreFresh
<1>5. UNCHANGED <<halted, agent, quiet, local, stopper>> => StopsAreKnown'
  BY DEF AgentIInv, StopsAreKnown, TreeExists, local
<1>6. UNCHANGED <<stopper, halted, child, inbox, quiet>> => StopQuietens'
  BY DEF AgentIInv, StopQuietens, ReadBefore, RunOf, Pending
<1> QED BY <1>1, <1>2, <1>3, <1>4, <1>5, <1>6

\* A step of a caller that changes only its own call.
LEMMA CallSteps ==
  ASSUME AgentIInv,
         UNCHANGED <<journal, ledger, child, local, main, delivery, stopper, history>>,
         call' \in [Callers -> OrchestrationCalls], budget' \in 0 .. MaxDisruptions,
         StartsAreClear', call'["main"] = NoCall \/ main.live
  PROVE  AgentIInv'
<1>1. UNCHANGED <<agent, runStatus, inbox, operations, halted, origin, streak, recovered, booted,
                 told, dropped, quiet, astray>>
  BY DEF journal, ledger, local, history
<1>2. TypeOK'
  BY <1>1 DEF AgentIInv, TypeOK
<1>3. CallsNeedTheRun'
  BY <1>1 DEF AgentIInv, CallsNeedTheRun
<1> QED BY <1>1, <1>2, <1>3, Frames DEF AgentIInv


\* A call of the Main Run is made while it lives.
LEMMA CallerLives == ASSUME AgentIInv, call["main"].at # None PROVE main.live
BY DEF AgentIInv, CallsNeedTheRun, NoCall

\* The places a call of one caller moves to.
LEMMA CallMoves ==
  ASSUME AgentIInv, NEW c \in Callers,
         NEW at \in {None, "preflight", "check", "append", "launch", "collect", "consume", "abort"},
         NEW T \in SUBSET Agents, NEW R \in SUBSET ChildRuns
  PROVE  /\ [call EXCEPT ![c] = NoCall] \in [Callers -> OrchestrationCalls]
         /\ [call EXCEPT ![c].at = at] \in [Callers -> OrchestrationCalls]
         /\ [call EXCEPT ![c].at = at, ![c].target = T] \in [Callers -> OrchestrationCalls]
         /\ [call EXCEPT ![c].at = at, ![c].runs = R] \in [Callers -> OrchestrationCalls]
         /\ \A x \in Callers : call[x] \in OrchestrationCalls
<1>1. call \in [Callers -> OrchestrationCalls]
  BY DEF AgentIInv, TypeOK
<1>2. NoCall \in OrchestrationCalls
  BY DEF NoCall, OrchestrationCalls
<1>3. ASSUME NEW rec \in OrchestrationCalls
      PROVE  /\ [rec EXCEPT !.at = at] \in OrchestrationCalls
             /\ [rec EXCEPT !.at = at, !.target = T] \in OrchestrationCalls
             /\ [rec EXCEPT !.at = at, !.runs = R] \in OrchestrationCalls
  BY <1>3 DEF OrchestrationCalls
<1>4. call[c] \in OrchestrationCalls
  BY <1>1
<1>5. [call EXCEPT ![c].at = at, ![c].target = T]
        = [call EXCEPT ![c] = [call[c] EXCEPT !.at = at, !.target = T]]
  BY <1>1
<1>6. [call EXCEPT ![c].at = at, ![c].runs = R]
        = [call EXCEPT ![c] = [call[c] EXCEPT !.at = at, !.runs = R]]
  BY <1>1
<1> QED BY <1>1, <1>2, <1>3, <1>4, <1>5, <1>6

LEMMA BeginStep ==
  ASSUME AgentIInv, NEW c \in Callers, NEW op \in {"spawn", "followup", "wait", "stop"},
         NEW id \in CallIds, NEW T \in SUBSET Agents, NEW w \in BOOLEAN,
         op \in {"spawn", "followup"} => \A a, b \in T : a = b,
         Begin(c, op, id, T, w)
  PROVE  AgentIInv'
<1> DEFINE new == [op |-> op, at |-> "preflight", id |-> id, target |-> T, writer |-> w, runs |-> {}]
<1>1. call \in [Callers -> OrchestrationCalls] /\ budget \in 0 .. MaxDisruptions
  BY DEF AgentIInv, TypeOK
<1>2. new \in OrchestrationCalls
  BY DEF OrchestrationCalls
<1>3. call' = [call EXCEPT ![c] = new]
  BY DEF Begin
<1>4. call' \in [Callers -> OrchestrationCalls]
  BY <1>1, <1>2, <1>3
<1>5. budget' \in 0 .. MaxDisruptions
  BY <1>1, AgentAssumption DEF Begin
<1>6. StartsAreClear'
  <2>1. CASE c = "main"
    <3>1. call'["main"] = new
      BY <1>1, <1>3, <2>1 DEF Callers
    <3> QED BY <3>1 DEF StartsAreClear, Starting
  <2>2. CASE c # "main"
    <3>1. call'["main"] = call["main"]
      BY <1>1, <1>3, <2>2 DEF Callers
    <3>2. UNCHANGED <<operations, main, agent, child>>
      BY DEF Begin, journal
    <3> QED BY <3>1, <3>2 DEF AgentIInv, StartsAreClear, Starting, Replayed, Handles
  <2> QED BY <2>1, <2>2
<1>7. call'["main"] = NoCall \/ main.live
  BY <1>1, <1>3 DEF Begin, Callers, AgentIInv, CallsNeedTheRun
<1>8. UNCHANGED <<journal, ledger, child, local, main, delivery, stopper, history>>
  BY DEF Begin
<1> QED BY <1>4, <1>5, <1>6, <1>7, <1>8, CallSteps

\* The replay table and the Agents are looked at, and nothing is written.
LEMMA SpawnCheckStep == ASSUME AgentIInv, SpawnCheck PROVE AgentIInv'
<1>1. call \in [Callers -> OrchestrationCalls] /\ "main" \in Callers /\ main.live
  BY CallerLives DEF AgentIInv, TypeOK, SpawnCheck, At, Callers, None
<1>2. UNCHANGED <<journal, ledger, child, local, main, delivery, stopper, history, budget>>
  BY DEF SpawnCheck
<1>3. CASE Return("main")
  <2>1. StartsAreClear'
    BY <1>1, <1>3 DEF Return, StartsAreClear, Starting, NoCall, None
  <2> QED BY <1>1, <1>2, <1>3, <2>1, CallMoves, CallSteps DEF Return, AgentIInv, TypeOK
<1>4. CASE ~Return("main")
  <2>1. ~Replayed(call["main"].id)
    BY <1>4 DEF SpawnCheck
  <2>2. PICK a \in Agents :
          /\ agent[a].status = "absent"
          /\ call' = [call EXCEPT !["main"].at = "append", !["main"].target = {a}]
    BY <1>4 DEF SpawnCheck
  <2>3. /\ call'["main"].op = "spawn" /\ call'["main"].at = "append"
        /\ call'["main"].id = call["main"].id /\ call'["main"].target = {a}
    BY <1>1, <2>2 DEF SpawnCheck, At, OrchestrationCalls
  <2>4. agent[a].cur = 0 /\ a \notin Handles /\ agent[a].last < MaxChildRuns
    BY <2>2, AgentAssumption DEF AgentIInv, RunsAreTheLast
  <2>5. call["main"].id \in CallIds
    BY DEF SpawnCheck, At, AgentIInv, StartsAreClear, Starting
  <2>6. StartsAreClear'
    BY <1>2, <2>1, <2>3, <2>4, <2>5 DEF StartsAreClear, Starting, journal, Replayed, Handles
  <2>7. call' \in [Callers -> OrchestrationCalls]
    <3>1. {a} \in SUBSET Agents
      OBVIOUS
    <3> QED BY <1>1, <2>2, <3>1, CallMoves
  <2> QED BY <1>1, <1>2, <2>6, <2>7, CallSteps DEF AgentIInv, TypeOK
<1> QED BY <1>3, <1>4

LEMMA FollowupCheckStep == ASSUME AgentIInv, NEW a \in Agents, FollowupCheck(a) PROVE AgentIInv'
<1>1. call \in [Callers -> OrchestrationCalls] /\ "main" \in Callers /\ main.live
  BY CallerLives DEF AgentIInv, TypeOK, FollowupCheck, At, Callers, None
<1>2. UNCHANGED <<journal, ledger, child, local, main, delivery, stopper, history, budget>>
  BY DEF FollowupCheck
<1>3. CASE Return("main")
  <2>1. StartsAreClear'
    BY <1>1, <1>3 DEF Return, StartsAreClear, Starting, NoCall, None
  <2> QED BY <1>1, <1>2, <1>3, <2>1, CallMoves, CallSteps DEF Return, AgentIInv, TypeOK
<1>4. CASE ~Return("main")
  <2>1. /\ ~Replayed(call["main"].id) /\ agent[a].cur = 0 /\ a \notin Handles
        /\ agent[a].last # MaxChildRuns /\ agent[a].last \in 0 .. MaxChildRuns
    BY <1>4 DEF FollowupCheck, AgentIInv, TypeOK, AgentRecords
  <2>2. call' = [call EXCEPT !["main"].at = "append"]
    BY <1>4 DEF FollowupCheck, Goto
  <2>3. /\ call'["main"].op = "followup" /\ call'["main"].at = "append"
        /\ call'["main"].id = call["main"].id /\ call'["main"].target = call["main"].target
    BY <1>1, <2>2 DEF FollowupCheck, At, OrchestrationCalls
  <2>4. call["main"].id \in CallIds /\ a \in call["main"].target /\ \A x \in call["main"].target : x = a
    BY DEF FollowupCheck, At, AgentIInv, StartsAreClear, Starting
  <2>5. StartsAreClear'
    BY <1>2, <2>1, <2>3, <2>4, AgentAssumption DEF StartsAreClear, Starting, journal, Replayed, Handles
  <2>6. call' \in [Callers -> OrchestrationCalls]
    BY <1>1, <2>2, CallMoves
  <2> QED BY <1>1, <1>2, <2>5, <2>6, CallSteps DEF AgentIInv, TypeOK
<1> QED BY <1>3, <1>4

\* A step that leaves the call of the Main Run alone, or makes it no start, keeps StartsAreClear.
LEMMA OtherCalls ==
  ASSUME AgentIInv, call' \in [Callers -> OrchestrationCalls],
         UNCHANGED <<operations, main, agent, child>>,
         \/ call'["main"] = call["main"]
         \/ call'["main"].op \notin {"spawn", "followup"} /\ call'["main"].at # "launch"
  PROVE  StartsAreClear'
BY DEF AgentIInv, StartsAreClear, Starting, Replayed, Handles

\* An execution is of a Run of its Agent.
LEMMA ExecutionsAreRuns ==
  ASSUME AgentIInv, NEW a \in Handles
  PROVE  a \in Agents /\ RunOf(a) \in ChildRuns /\ RunOf(a)[1] = a /\ RunOf(a)[2] = agent[a].last
<1>1. a \in Agents /\ child[a].n = agent[a].last /\ agent[a].last # 0
  BY DEF Handles, AgentIInv, RunsAreTheLast
<1>2. agent[a] \in AgentRecords
  BY <1>1 DEF AgentIInv, TypeOK
<1>3. agent[a].last \in 1 .. MaxChildRuns
  BY <1>1, <1>2, AgentAssumption DEF AgentRecords
<1> QED BY <1>1, <1>3 DEF RunOf, ChildRuns

LEMMA StopCheckStep ==
  ASSUME AgentIInv, NEW c \in Callers, NEW a \in Agents, StopCheck(c, a) PROVE AgentIInv'
<1>1. call \in [Callers -> OrchestrationCalls] /\ child \in [Agents -> Executions]
  BY DEF AgentIInv, TypeOK
<1>2. UNCHANGED <<journal, ledger, child, local, main, delivery, stopper, history, budget>>
  BY DEF StopCheck
<1>3. a \in Handles => RunOf(a) \in ChildRuns
  BY ExecutionsAreRuns
<1>4. call' \in [Callers -> OrchestrationCalls]
  <2>1. CASE Return(c)
    BY <2>1, CallMoves DEF Return
  <2>2. CASE ~Return(c)
    <3>1. {RunOf(a)} \in SUBSET ChildRuns
      BY <1>3, <2>2 DEF StopCheck
    <3>2. call' = [call EXCEPT ![c].at = "append", ![c].runs = {RunOf(a)}]
      BY <2>2 DEF StopCheck
    <3> QED BY <3>1, <3>2, CallMoves
  <2> QED BY <2>1, <2>2
<1>5. call[c].op = "stop"
  BY DEF StopCheck, At
<1>6. call'[c].op \in {"stop", None} /\ call'[c].at # "launch"
  <2>1. CASE Return(c)
    BY <1>1, <2>1 DEF Return, NoCall, None
  <2>2. CASE ~Return(c)
    BY <1>1, <1>5, <2>2 DEF StopCheck, OrchestrationCalls
  <2> QED BY <2>1, <2>2
<1>7. call'["main"] = call["main"] \/ c = "main"
  BY <1>1 DEF StopCheck, Return, Callers
<1>8. StartsAreClear'
  BY <1>2, <1>4, <1>6, <1>7, OtherCalls DEF journal, None
<1>9. call'["main"] = NoCall \/ main.live
  BY <1>7, CallerLives DEF StopCheck, At, None, AgentIInv, CallsNeedTheRun
<1> QED BY <1>2, <1>4, <1>8, <1>9, CallSteps DEF AgentIInv, TypeOK

\* A wait that only reads.
LEMMA WaitChecks == ASSUME AgentIInv, WaitCheck \/ WaitCollect PROVE AgentIInv'
<1>1. call \in [Callers -> OrchestrationCalls] /\ "main" \in Callers /\ main.live
  BY CallerLives DEF AgentIInv, TypeOK, WaitCheck, WaitCollect, At, Callers, None
<1>2. UNCHANGED <<journal, ledger, child, local, main, delivery, stopper, history, budget>>
  BY DEF WaitCheck, WaitCollect
<1>3. \/ Return("main")
      \/ \E R \in SUBSET ChildRuns : call' = [call EXCEPT !["main"].at = "collect", !["main"].runs = R]
      \/ \E R \in SUBSET ChildRuns : call' = [call EXCEPT !["main"].at = "consume", !["main"].runs = R]
  <2>1. CASE WaitCheck /\ ~Return("main")
    <3> DEFINE R == {<<a, IF agent[a].cur # 0 THEN agent[a].cur ELSE agent[a].last>> :
                       a \in call["main"].target}
    <3>1. \A a \in call["main"].target : a \in Agents /\ agent[a].last # 0
      BY <1>1, <2>1 DEF WaitCheck, OrchestrationCalls
    <3>2. \A a \in Agents : agent[a].cur \in 0 .. MaxChildRuns /\ agent[a].last \in 0 .. MaxChildRuns
      BY DEF AgentIInv, TypeOK, AgentRecords
    <3>3. R \in SUBSET ChildRuns
      BY <3>1, <3>2, AgentAssumption DEF ChildRuns
    <3> QED BY <2>1, <3>3 DEF WaitCheck
  <2>2. CASE WaitCollect /\ ~Return("main")
    <3> DEFINE R == {r \in call["main"].runs \cap Pending : runStatus[r] \in Terminal}
    <3>1. R \in SUBSET ChildRuns
      BY DEF Pending
    <3> QED BY <2>2, <3>1 DEF WaitCollect
  <2> QED BY <2>1, <2>2
<1>4. call["main"].op = "wait"
  BY DEF WaitCheck, WaitCollect, At
<1>5. /\ call' \in [Callers -> OrchestrationCalls]
      /\ call'["main"].op \in {"wait", None} /\ call'["main"].at # "launch"
  <2>1. CASE Return("main")
    BY <1>1, <2>1, CallMoves DEF Return, NoCall, None
  <2>2. ASSUME NEW at \in {"collect", "consume"}, NEW R \in SUBSET ChildRuns,
               call' = [call EXCEPT !["main"].at = at, !["main"].runs = R]
        PROVE  /\ call' \in [Callers -> OrchestrationCalls]
               /\ call'["main"].op \in {"wait", None} /\ call'["main"].at # "launch"
    <3>1. call' \in [Callers -> OrchestrationCalls]
      BY <1>1, <2>2, CallMoves
    <3>2. call'["main"].op = "wait" /\ call'["main"].at = at
      BY <1>1, <1>4, <2>2 DEF OrchestrationCalls
    <3> QED BY <3>1, <3>2
  <2> QED BY <1>3, <2>1, <2>2
<1>6. StartsAreClear'
  BY <1>2, <1>5, OtherCalls DEF journal, None
<1> QED BY <1>1, <1>2, <1>5, <1>6, CallSteps DEF AgentIInv, TypeOK

-------------------------------------------------------------------------------
(* The commits of the Agent store *)

\* What a recovery writes: nothing runs afterwards, and nothing is made or lost.
LEMMA Recovering ==
  ASSUME AgentIInv, RecoveryCommit \/ UNCHANGED journal
  PROVE  /\ agent' \in [Agents -> AgentRecords]
         /\ runStatus' \in [ChildRuns -> {None, "running"} \cup Terminal]
         /\ inbox' \in [ChildRuns -> {None, "pending", "consumed"}]
         /\ UNCHANGED <<operations, halted>>
         /\ \A a \in Agents : /\ agent'[a].last = agent[a].last
                              /\ agent'[a].status = "absent" <=> agent[a].status = "absent"
                              /\ agent'[a].cur \in {0, agent[a].cur}
         /\ \A r \in ChildRuns : inbox[r] = "consumed" => inbox'[r] = "consumed"
         /\ RunsAreTheLast' \/ child' # child
<1>1. CASE UNCHANGED journal
  BY <1>1, Frames DEF AgentIInv, TypeOK, journal
<1>2. CASE RecoveryCommit
  <2>1. /\ agent \in [Agents -> AgentRecords]
        /\ runStatus \in [ChildRuns -> {None, "running"} \cup Terminal]
        /\ inbox \in [ChildRuns -> {None, "pending", "consumed"}]
    BY DEF AgentIInv, TypeOK
  <2>2. ASSUME NEW a \in Agents
        PROVE  LET rec == Idle(agent[a], <<a, agent[a].last>>) IN
               /\ rec \in AgentRecords /\ rec.last = agent[a].last /\ rec.cur = 0 /\ rec.status = "idle"
    <3>1. PICK rec : rec = agent[a]
      OBVIOUS
    <3>2. rec \in AgentRecords
      BY <2>1, <3>1
    <3>3. Idle(rec, <<a, rec.last>>) = [rec EXCEPT !.status = "idle", !.cur = 0, !.last = rec.last]
      BY DEF Idle
    <3>4. 0 \in 0 .. MaxChildRuns
      BY AgentAssumption
    <3> QED BY <3>1, <3>2, <3>3, <3>4 DEF AgentRecords
  <2>3. \A a \in Agents :
          agent'[a] = IF \E r \in Running : r[1] = a THEN Idle(agent[a], <<a, agent[a].last>>) ELSE agent[a]
    BY <1>2 DEF RecoveryCommit
  <2>4. \A a \in Agents : \A r \in Running : r[1] = a => agent[a].last # 0
    BY DEF AgentIInv, RunsAreTheLast, Running, ChildRuns
  <2>5. \A a \in Agents : /\ agent'[a] \in AgentRecords /\ agent'[a].last = agent[a].last
                          /\ agent'[a].status = "absent" <=> agent[a].status = "absent"
                          /\ agent'[a].cur \in {0, agent[a].cur}
    <3> SUFFICES ASSUME NEW a \in Agents
                 PROVE  /\ agent'[a] \in AgentRecords /\ agent'[a].last = agent[a].last
                        /\ agent'[a].status = "absent" <=> agent[a].status = "absent"
                        /\ agent'[a].cur \in {0, agent[a].cur}
      OBVIOUS
    <3>1. CASE \E r \in Running : r[1] = a
      <4>1. agent[a].last # 0
        BY <2>4, <3>1
      <4>2. agent[a].status # "absent"
        BY <4>1 DEF AgentIInv, RunsAreTheLast
      <4> QED BY <2>2, <2>3, <3>1, <4>2
    <3>2. CASE ~\E r \in Running : r[1] = a
      BY <2>1, <2>3, <3>2
    <3> QED BY <3>1, <3>2
  <2>6. runStatus' \in [ChildRuns -> {None, "running"} \cup Terminal]
    BY <1>2, <2>1 DEF RecoveryCommit, Terminal
  <2>7. Running' = {}
    BY <1>2 DEF RecoveryCommit, Running
  <2>8. inbox' \in [ChildRuns -> {None, "pending", "consumed"}]
        /\ \A r \in ChildRuns : inbox[r] = "consumed" => inbox'[r] = "consumed"
    BY <1>2, <2>1 DEF RecoveryCommit, None
  <2>9. agent' = [a \in Agents |-> agent'[a]]
    BY <1>2 DEF RecoveryCommit
  <2>10. agent' \in [Agents -> AgentRecords]
    BY <2>5, <2>9
  <2>11. UNCHANGED child => RunsAreTheLast'
    <3>1. \A a \in Agents : agent[a].cur = 0 => agent'[a].cur = 0
      BY <2>5
    <3> QED BY <2>5, <2>7, <3>1 DEF RunsAreTheLast, Handles, AgentIInv
  <2> QED BY <1>2, <2>5, <2>6, <2>8, <2>10, <2>11 DEF RecoveryCommit
<1> QED BY <1>1, <1>2

\* The step of a recovery, for whatever finds the Session unrecovered.
LEMMA RecoverySteps ==
  ASSUME AgentIInv, RecoveryCommit \/ UNCHANGED journal,
         recovered /\ booted => UNCHANGED journal,
         recovered' \in BOOLEAN, booted' \in BOOLEAN, recovered => recovered', booted => booted',
         UNCHANGED <<ledger, child, main, delivery, stopper, history, budget>>,
         call' \in [Callers -> OrchestrationCalls], StartsAreClear',
         call'["main"] = NoCall \/ main.live
  PROVE  AgentIInv'
<1>1. /\ UNCHANGED <<operations, halted, origin, streak, told, dropped, quiet, child, main>>
      /\ UNCHANGED <<delivery, stopper, astray, budget>>
  BY Recovering DEF ledger, history
<1>2. TypeOK'
  BY <1>1, Recovering DEF AgentIInv, TypeOK
<1>3. RunsAreTheLast'
  BY <1>1, Recovering
<1>4. CallsNeedTheRun'
  BY <1>1 DEF AgentIInv, CallsNeedTheRun
<1>5. DeliveriesAreFresh'
  <2>1. told \subseteq ChildRuns
    BY DEF AgentIInv, TypeOK
  <2> QED BY <1>1, <2>1, Recovering DEF AgentIInv, DeliveriesAreFresh
<1>6. StopsAreKnown'
  BY <1>1, Recovering DEF AgentIInv, StopsAreKnown, TreeExists
<1>7. StopQuietens'
  <2>1. CASE UNCHANGED journal
    BY <1>1, <2>1, Frames DEF journal
  <2>2. CASE ~(recovered /\ booted)
    <3>1. ~quiet /\ ~(stopper.at # None /\ stopper.calm)
      BY <2>2 DEF AgentIInv, StopsAreKnown
    <3> QED BY <1>1, <3>1 DEF AgentIInv, StopQuietens, ReadBefore, RunOf, None
  <2> QED BY <2>1, <2>2
<1> QED BY <1>2, <1>3, <1>4, <1>5, <1>6, <1>7, StartsAreClear' DEF AgentIInv

\* A recovery starts nothing, so what a start has checked stays.
LEMMA StartsSurvive ==
  ASSUME AgentIInv, RecoveryCommit \/ UNCHANGED journal, UNCHANGED <<main, child>>,
         call'["main"] = call["main"]
  PROVE  StartsAreClear'
<1>1. UNCHANGED operations /\ \A a \in Agents : /\ agent'[a].last = agent[a].last
                                                /\ agent[a].cur = 0 => agent'[a].cur = 0
  BY Recovering
<1>2. call["main"].target \in SUBSET Agents
  BY DEF AgentIInv, TypeOK, OrchestrationCalls, Callers
<1> QED BY <1>1, <1>2 DEF AgentIInv, StartsAreClear, Starting, Replayed, Handles

LEMMA BootStep == ASSUME AgentIInv, Boot \/ List PROVE AgentIInv'
<1>1. /\ RecoveryCommit \/ UNCHANGED journal
      /\ UNCHANGED <<ledger, child, main, call, delivery, stopper, history, budget>>
      /\ recovered /\ booted => UNCHANGED journal
      /\ recovered => recovered'
      /\ booted => booted'
  BY DEF Boot, List
<1>2. recovered' \in BOOLEAN /\ booted' \in BOOLEAN
  BY DEF Boot, List, AgentIInv, TypeOK
<1>3. StartsAreClear'
  BY <1>1, StartsSurvive
<1>4. call' \in [Callers -> OrchestrationCalls] /\ (call'["main"] = NoCall \/ main.live)
  BY <1>1 DEF AgentIInv, TypeOK, CallsNeedTheRun
<1> QED BY <1>1, <1>2, <1>3, <1>4, RecoverySteps

LEMMA PreflightStep == ASSUME AgentIInv, NEW c \in Callers, Preflight(c) PROVE AgentIInv'
<1>1. /\ RecoveryCommit \/ UNCHANGED journal
      /\ UNCHANGED <<ledger, child, main, delivery, stopper, history, budget>>
      /\ recovered /\ booted => UNCHANGED journal
      /\ recovered' = TRUE /\ booted' = booted
      /\ Return(c) \/ Goto(c, "check")
  BY DEF Preflight, Recovers
<1>2. booted' \in BOOLEAN /\ call \in [Callers -> OrchestrationCalls]
  BY <1>1 DEF AgentIInv, TypeOK
<1>3. call' \in [Callers -> OrchestrationCalls]
  <2>1. {} \in SUBSET Agents /\ {} \in SUBSET ChildRuns
    OBVIOUS
  <2>2. CASE Return(c)
    BY <2>1, <2>2, CallMoves DEF Return
  <2>3. CASE Goto(c, "check")
    BY <2>1, <2>3, CallMoves DEF Goto
  <2> QED BY <1>1, <2>2, <2>3
<1>4. call'["main"] = NoCall \/ main.live
  <2>1. CASE c = "main"
    BY <2>1, CallerLives DEF Preflight, None
  <2>2. CASE c # "main"
    BY <1>1, <1>2, <2>2 DEF Return, Goto, Callers, AgentIInv, CallsNeedTheRun
  <2> QED BY <2>1, <2>2
<1>5. StartsAreClear'
  <2>1. CASE c = "main" /\ Return(c)
    BY <1>2, <2>1 DEF Return, NoCall, None, StartsAreClear, Starting
  <2>2. CASE c = "main" /\ Goto(c, "check")
    <3>1. /\ call'["main"].at = "check" /\ call'["main"].op = call["main"].op
          /\ call'["main"].id = call["main"].id /\ call'["main"].target = call["main"].target
      BY <1>2, <2>2 DEF Goto, OrchestrationCalls, Callers
    <3> QED BY <3>1 DEF StartsAreClear, Starting, AgentIInv
  <2>3. CASE c # "main"
    <3>1. call'["main"] = call["main"]
      BY <1>1, <1>2, <2>3 DEF Return, Goto, Callers
    <3> QED BY <1>1, <3>1, StartsSurvive
  <2> QED BY <1>1, <2>1, <2>2, <2>3
<1> QED BY <1>1, <1>2, <1>3, <1>4, <1>5, RecoverySteps

\* What a start has checked is what its commit needs: no Run of the Agent is under way,
\* and no operation is replaced.
LEMMA AppendRunStep == ASSUME AgentIInv, NEW a \in Agents, AppendRun(a) PROVE AgentIInv'
<1> DEFINE n == agent[a].last + 1
           id == call["main"].id
           rec == IF agent[a].status = "absent"
                  THEN [status |-> "running", cur |-> n, last |-> n,
                        writer |-> call["main"].writer, by |-> main.no]
                  ELSE [agent[a] EXCEPT !.status = "running", !.cur = n, !.last = n]
<1>1. /\ call \in [Callers -> OrchestrationCalls] /\ agent \in [Agents -> AgentRecords]
      /\ runStatus \in [ChildRuns -> {None, "running"} \cup Terminal]
      /\ operations \in SUBSET (Mains \X CallIds \X ChildRuns)
      /\ main \in [no : 0 .. MaxMains, live : BOOLEAN, stopping : BOOLEAN]
  BY DEF AgentIInv, TypeOK
<1>2. /\ Starting /\ call["main"].at = "append" /\ a \in call["main"].target
      /\ "main" \in Callers
  BY DEF AppendRun, At, Starting, Callers
<1>3. /\ id \in CallIds /\ ~Replayed(id) /\ main.live
      /\ agent[a].cur = 0 /\ a \notin Handles /\ agent[a].last < MaxChildRuns
      /\ \A b \in call["main"].target : b = a
  BY <1>2, CallerLives DEF AgentIInv, StartsAreClear, None
<1>4. n \in 1 .. MaxChildRuns /\ <<a, n>> \in ChildRuns
  BY <1>1, <1>3, AgentAssumption DEF AgentRecords, ChildRuns
<1>5. main.no \in Mains
  BY <1>1, <1>3, AgentAssumption DEF AgentIInv, CallsNeedTheRun, Mains
<1>6. /\ agent' = [agent EXCEPT ![a] = rec]
      /\ runStatus' = [runStatus EXCEPT ![<<a, n>>] = "running"]
      /\ operations' = {o \in operations : <<o[1], o[2]>> # <<main.no, id>>}
                         \cup {<<main.no, id, <<a, n>> >>}
      /\ UNCHANGED <<inbox, halted>> /\ call' = [call EXCEPT !["main"].at = "launch"]
      /\ UNCHANGED <<ledger, child, local, main, delivery, stopper, history, budget>>
  BY DEF AppendRun, Started, Goto
<1>7. rec \in AgentRecords /\ rec.last = n /\ rec.cur = n /\ rec.status = "running"
  <2>1. n \in 0 .. MaxChildRuns /\ main.no \in 0 .. MaxMains /\ call["main"].writer \in BOOLEAN
    BY <1>1, <1>2, <1>4, <1>5, AgentAssumption DEF OrchestrationCalls
  <2>2. agent[a] \in AgentRecords
    BY <1>1
  <2>3. CASE agent[a].status = "absent"
    BY <2>1, <2>3 DEF AgentRecords
  <2>4. CASE agent[a].status # "absent"
    BY <2>1, <2>2, <2>4 DEF AgentRecords
  <2> QED BY <2>3, <2>4
<1> HIDE DEF rec
<1>8. agent' \in [Agents -> AgentRecords] /\ agent'[a] = rec
      /\ \A b \in Agents \ {a} : agent'[b] = agent[b]
  BY <1>1, <1>6, <1>7
<1>9. /\ call' \in [Callers -> OrchestrationCalls] /\ call'["main"].at = "launch"
      /\ call'["main"].op = call["main"].op /\ call'["main"].id = id
      /\ call'["main"].target = call["main"].target
  <2>1. {} \in SUBSET Agents /\ {} \in SUBSET ChildRuns
    OBVIOUS
  <2>2. call' \in [Callers -> OrchestrationCalls]
    BY <1>2, <1>6, <2>1, CallMoves
  <2> QED BY <1>1, <1>2, <1>6, <2>2 DEF OrchestrationCalls
<1>10. runStatus' \in [ChildRuns -> {None, "running"} \cup Terminal]
       /\ Running' = Running \cup {<<a, n>>}
  BY <1>1, <1>4, <1>6 DEF Running
<1>11. TypeOK'
  <2>1. operations' \in SUBSET (Mains \X CallIds \X ChildRuns)
    BY <1>1, <1>3, <1>4, <1>5, <1>6
  <2> QED BY <1>6, <1>8, <1>9, <1>10, <2>1 DEF AgentIInv, TypeOK, ledger, local, history
<1>12. RunsAreTheLast'
  <2>1. ASSUME NEW b \in Agents
        PROVE  /\ \A r \in Running' : r[1] = b => r[2] = agent'[b].last /\ r[2] = agent'[b].cur
               /\ b \in Handles' => child'[b].n = agent'[b].last /\ agent'[b].last # 0
               /\ agent'[b].status = "absent" => agent'[b].cur = 0 /\ agent'[b].last = 0
    <3>1. CASE b = a
      <4>1. \A r \in Running : r[1] # a
        BY <1>3, <1>4 DEF AgentIInv, RunsAreTheLast, Running, ChildRuns
      <4>2. a \notin Handles'
        BY <1>3, <1>6 DEF Handles
      <4> QED BY <1>7, <1>8, <1>10, <3>1, <4>1, <4>2
    <3>2. CASE b # a
      BY <1>6, <1>8, <1>10, <3>2 DEF AgentIInv, RunsAreTheLast, Handles
    <3> QED BY <3>1, <3>2
  <2> QED BY <2>1 DEF RunsAreTheLast
<1>13. StartsAreClear'
  <2>1. \A b \in call'["main"].target : agent'[b].last # 0
    BY <1>3, <1>4, <1>7, <1>8, <1>9
  <2> QED BY <1>2, <1>3, <1>9, <2>1 DEF StartsAreClear, Starting
<1>14. CallsNeedTheRun' /\ DeliveriesAreFresh' /\ StopQuietens'
  BY <1>3, <1>6, Frames DEF AgentIInv, CallsNeedTheRun, ledger, history
<1>15. StopsAreKnown'
  <2>1. TreeExists'
    BY <1>7, <1>8 DEF TreeExists
  <2> QED BY <1>6, <2>1 DEF AgentIInv, StopsAreKnown, history, local
<1> QED BY <1>11, <1>12, <1>13, <1>14, <1>15 DEF AgentIInv

\* The execution of the Run just appended.
LEMMA LaunchStep == ASSUME AgentIInv, NEW a \in Agents, Launch(a) PROVE AgentIInv'
<1> DEFINE rec == [NoChild EXCEPT !.at = "run", !.n = agent[a].last]
<1>1. /\ call \in [Callers -> OrchestrationCalls] /\ child \in [Agents -> Executions]
      /\ agent \in [Agents -> AgentRecords] /\ "main" \in Callers
  BY DEF AgentIInv, TypeOK, Callers
<1>2. agent[a].last # 0 /\ agent[a].last \in 0 .. MaxChildRuns
  BY <1>1 DEF Launch, AgentIInv, StartsAreClear, AgentRecords
<1>3. /\ child' = [child EXCEPT ![a] = rec] /\ call' = [call EXCEPT !["main"] = NoCall]
      /\ UNCHANGED <<journal, ledger, local, main, delivery, stopper, history, budget>>
  BY DEF Launch, Return
<1>4. rec \in Executions /\ rec.at = "run" /\ rec.n = agent[a].last
  BY <1>2 DEF NoChild, Executions
<1> HIDE DEF rec
<1>5. child' \in [Agents -> Executions] /\ child'[a] = rec
      /\ \A b \in Agents \ {a} : child'[b] = child[b]
  BY <1>1, <1>3, <1>4
<1>6. call' \in [Callers -> OrchestrationCalls] /\ call'["main"] = NoCall
  <2>1. NoCall \in OrchestrationCalls
    BY DEF NoCall, OrchestrationCalls
  <2> QED BY <1>1, <1>3, <2>1
<1>7. TypeOK'
  BY <1>3, <1>5, <1>6 DEF AgentIInv, TypeOK, journal, ledger, local, history
<1>8. RunsAreTheLast'
  BY <1>2, <1>3, <1>4, <1>5 DEF AgentIInv, RunsAreTheLast, Running, Handles, journal
<1>9. StartsAreClear' /\ CallsNeedTheRun'
  BY <1>3, <1>6 DEF AgentIInv, StartsAreClear, Starting, CallsNeedTheRun, NoCall, None, ledger
<1>10. DeliveriesAreFresh' /\ StopsAreKnown'
  BY <1>3, Frames DEF journal, ledger, history
<1>11. StopQuietens'
  BY <1>3, <1>4, <1>5
     DEF AgentIInv, StopQuietens, ReadBefore, RunOf, Pending, journal, history
<1> QED BY <1>7, <1>8, <1>9, <1>10, <1>11 DEF AgentIInv

\* The status "stopping" is for the page: nothing here depends on it.
LEMMA StopAppendStep ==
  ASSUME AgentIInv, NEW c \in Callers, NEW a \in Agents, StopAppend(c, a) PROVE AgentIInv'
<1>1. /\ call \in [Callers -> OrchestrationCalls] /\ agent \in [Agents -> AgentRecords]
      /\ "main" \in Callers
  BY DEF AgentIInv, TypeOK, Callers
<1>2. /\ agent' = [agent EXCEPT ![a].status = "stopping"] /\ call' = [call EXCEPT ![c].at = "abort"]
      /\ UNCHANGED <<runStatus, inbox, operations, halted, ledger, child, local, main, delivery, stopper>>
      /\ UNCHANGED <<history, budget>>
  BY DEF StopAppend, Goto
<1>3. /\ agent' \in [Agents -> AgentRecords]
      /\ \A b \in Agents : /\ agent'[b].cur = agent[b].cur /\ agent'[b].last = agent[b].last
                           /\ agent'[b].status = "absent" => agent[b].status = "absent"
                           /\ agent[b].status # "absent" => agent'[b].status # "absent"
  BY <1>1, <1>2 DEF AgentRecords
<1>4. call' \in [Callers -> OrchestrationCalls]
  <2>1. {} \in SUBSET Agents /\ {} \in SUBSET ChildRuns
    OBVIOUS
  <2> QED BY <1>2, <2>1, CallMoves
<1>5. call'["main"] = call["main"] \/ (call'["main"].at = "abort" /\ call'["main"].op = "stop" /\ main.live)
  BY <1>1, <1>2, CallerLives DEF StopAppend, At, OrchestrationCalls, None
<1>6. TypeOK'
  BY <1>2, <1>3, <1>4 DEF AgentIInv, TypeOK, ledger, local, history
<1>7. RunsAreTheLast'
  BY <1>2, <1>3 DEF AgentIInv, RunsAreTheLast, Running, Handles
<1>8. StartsAreClear'
  <2>1. call["main"].target \in SUBSET Agents
    BY <1>1 DEF OrchestrationCalls
  <2> QED BY <1>2, <1>3, <1>5, <2>1 DEF AgentIInv, StartsAreClear, Starting, Replayed, Handles
<1>9. CallsNeedTheRun'
  BY <1>2, <1>5 DEF AgentIInv, CallsNeedTheRun, ledger
<1>10. DeliveriesAreFresh' /\ StopQuietens'
  BY <1>2, Frames DEF ledger, history
<1>11. StopsAreKnown'
  BY <1>2, <1>3 DEF AgentIInv, StopsAreKnown, TreeExists, history, local
<1> QED BY <1>6, <1>7, <1>8, <1>9, <1>10, <1>11 DEF AgentIInv

LEMMA StopAbortsStep ==
  ASSUME AgentIInv, NEW c \in Callers, NEW a \in Agents, StopAborts(c, a) PROVE AgentIInv'
<1> DEFINE cut == child[a].aborted \/ (child[a].at # "off" /\ RunOf(a) \in call[c].runs)
<1>1. /\ call \in [Callers -> OrchestrationCalls] /\ child \in [Agents -> Executions]
      /\ "main" \in Callers
  BY DEF AgentIInv, TypeOK, Callers
<1>2. /\ child' = [child EXCEPT ![a].aborted = cut] /\ call' = [call EXCEPT ![c] = NoCall]
      /\ UNCHANGED <<journal, ledger, local, main, delivery, stopper, history, budget>>
  BY <1>1 DEF StopAborts, Return
<1>3. cut \in BOOLEAN
  BY <1>1 DEF Executions
<1> HIDE DEF cut
<1>4. /\ child' \in [Agents -> Executions]
      /\ \A b \in Agents : /\ child'[b].at = child[b].at /\ child'[b].n = child[b].n
                           /\ child'[b].halted = child[b].halted
  BY <1>1, <1>2, <1>3 DEF Executions
<1>5. call' \in [Callers -> OrchestrationCalls] /\ call'["main"] \in {call["main"], NoCall}
  <2>1. NoCall \in OrchestrationCalls
    BY DEF NoCall, OrchestrationCalls
  <2> QED BY <1>1, <1>2, <2>1
<1>6. TypeOK'
  BY <1>2, <1>4, <1>5 DEF AgentIInv, TypeOK, journal, ledger, local, history
<1>7. RunsAreTheLast'
  BY <1>2, <1>4 DEF AgentIInv, RunsAreTheLast, Running, Handles, journal
<1>8. StartsAreClear'
  <2>1. call["main"].target \in SUBSET Agents
    BY <1>1 DEF OrchestrationCalls
  <2> QED BY <1>2, <1>4, <1>5, <2>1
          DEF AgentIInv, StartsAreClear, Starting, Replayed, Handles, journal, NoCall, None
<1>9. CallsNeedTheRun'
  BY <1>2, <1>5 DEF AgentIInv, CallsNeedTheRun, ledger
<1>10. DeliveriesAreFresh' /\ StopsAreKnown'
  BY <1>2, Frames DEF journal, ledger, history
<1>11. StopQuietens'
  BY <1>2, <1>4 DEF AgentIInv, StopQuietens, ReadBefore, RunOf, Pending, journal, history
<1> QED BY <1>6, <1>7, <1>8, <1>9, <1>10, <1>11 DEF AgentIInv

\* What agent_completion_consumed writes.
LEMMA Consuming ==
  ASSUME AgentIInv, NEW rs, Consumed(rs)
  PROVE  /\ inbox' \in [ChildRuns -> {None, "pending", "consumed"}]
         /\ Pending' = Pending \ rs
         /\ \A r \in ChildRuns : /\ inbox[r] = "consumed" => inbox'[r] = "consumed"
                                 /\ r \in rs \cap Pending => inbox'[r] = "consumed"
                                 /\ inbox'[r] = "consumed" => inbox[r] = "consumed" \/ r \in rs \cap Pending
         /\ UNCHANGED <<agent, runStatus, operations, halted>>
<1>1. inbox \in [ChildRuns -> {None, "pending", "consumed"}]
  BY DEF AgentIInv, TypeOK
<1> QED BY <1>1 DEF Consumed, Pending, None

\* Emptying the inbox disturbs nothing but what is known of it.
LEMMA ConsumingKeeps ==
  ASSUME AgentIInv, NEW rs, Consumed(rs), UNCHANGED <<child, delivery, origin, told>>
  PROVE  /\ RunsAreTheLast' /\ DeliveriesAreFresh'
         /\ UNCHANGED <<call, main>> => StartsAreClear'
         /\ UNCHANGED <<stopper, quiet>> => StopQuietens'
         /\ UNCHANGED <<stopper, quiet, local>> => StopsAreKnown'
<1>1. RunsAreTheLast' /\ (UNCHANGED <<call, main>> => StartsAreClear')
      /\ (UNCHANGED <<stopper, quiet, local>> => StopsAreKnown')
  BY Frames DEF Consumed
<1>2. DeliveriesAreFresh'
  <2>1. told \subseteq ChildRuns
    BY DEF AgentIInv, TypeOK
  <2> QED BY <2>1, Consuming DEF AgentIInv, DeliveriesAreFresh
<1>3. UNCHANGED <<stopper, quiet>> => StopQuietens'
  BY Consuming DEF AgentIInv, StopQuietens, ReadBefore, RunOf
<1> QED BY <1>1, <1>2, <1>3

LEMMA WaitConsumeStep == ASSUME AgentIInv, WaitConsume PROVE AgentIInv'
<1> DEFINE rs == call["main"].runs
<1>1. /\ call \in [Callers -> OrchestrationCalls] /\ "main" \in Callers /\ main.live
      /\ rs \in SUBSET ChildRuns
  BY CallerLives DEF AgentIInv, TypeOK, WaitConsume, At, Callers, None, OrchestrationCalls
<1>2. /\ Consumed(rs) /\ told' = told \cup (rs \cap Pending) /\ call' = [call EXCEPT !["main"] = NoCall]
      /\ UNCHANGED <<ledger, child, local, main, delivery, stopper, dropped, quiet, astray, budget>>
  BY DEF WaitConsume, Return
<1>3. call' \in [Callers -> OrchestrationCalls] /\ call'["main"] = NoCall
  <2>1. NoCall \in OrchestrationCalls
    BY DEF NoCall, OrchestrationCalls
  <2> QED BY <1>1, <1>2, <2>1
<1>4. TypeOK'
  BY <1>1, <1>2, <1>3, Consuming DEF AgentIInv, TypeOK, ledger, local
<1>5. RunsAreTheLast' /\ StopQuietens' /\ StopsAreKnown'
  <2>1. UNCHANGED <<agent, runStatus, child, halted, quiet, local, stopper>>
    BY <1>2, Consuming
  <2>2. StopQuietens'
    BY <1>2, <2>1, Consuming DEF AgentIInv, StopQuietens, ReadBefore, RunOf
  <2> QED BY <2>1, <2>2, Frames
<1>6. StartsAreClear' /\ CallsNeedTheRun'
  BY <1>1, <1>2, <1>3 DEF AgentIInv, StartsAreClear, Starting, CallsNeedTheRun, NoCall, None, ledger
<1>7. DeliveriesAreFresh'
  <2>1. delivery.at # "begin"
    BY <1>1 DEF AgentIInv, CallsNeedTheRun
  <2>2. told \subseteq ChildRuns
    BY DEF AgentIInv, TypeOK
  <2> QED BY <1>1, <1>2, <2>1, <2>2, Consuming DEF AgentIInv, DeliveriesAreFresh, ledger
<1> QED BY <1>4, <1>5, <1>6, <1>7 DEF AgentIInv

-------------------------------------------------------------------------------
(* The executions *)

\* Before its end is written an execution only moves on; what it reads of the
\* Session is what it leaves in the inbox.
LEMMA ChildMoves ==
  ASSUME AgentIInv, NEW a \in Agents, ChildEnds(a) \/ ChildReads(a) PROVE AgentIInv'
<1>1. child \in [Agents -> Executions] /\ halted \in BOOLEAN
  BY DEF AgentIInv, TypeOK
<1>2. UNCHANGED <<journal, ledger, local, main, call, delivery, stopper, history, budget>>
  BY DEF ChildEnds, ChildReads
<1>3. /\ child' \in [Agents -> Executions]
      /\ \A b \in Agents : /\ child'[b].n = child[b].n
                           /\ child'[b].at = "off" <=> child[b].at = "off"
                           /\ ReadBefore(b)' => ReadBefore(b) \/ ~halted
  BY <1>1 DEF ChildEnds, ChildReads, Executions, ReadBefore
<1>4. TypeOK'
  BY <1>2, <1>3 DEF AgentIInv, TypeOK, journal, ledger, local, history
<1>5. RunsAreTheLast' /\ StartsAreClear'
  <2>1. Handles' = Handles
    BY <1>3 DEF Handles
  <2>2. call["main"].target \in SUBSET Agents
    BY DEF AgentIInv, TypeOK, OrchestrationCalls, Callers
  <2>3. RunsAreTheLast'
    BY <1>2, <1>3, <2>1 DEF AgentIInv, RunsAreTheLast, Running, journal
  <2>4. StartsAreClear'
    BY <1>2, <2>1, <2>2 DEF AgentIInv, StartsAreClear, Starting, Replayed, journal
  <2> QED BY <2>3, <2>4
<1>6. CallsNeedTheRun' /\ DeliveriesAreFresh' /\ StopsAreKnown'
  BY <1>2, Frames DEF journal, ledger, history
<1>7. StopQuietens'
  BY <1>2, <1>3 DEF AgentIInv, StopQuietens, RunOf, Pending, journal, history
<1> QED BY <1>4, <1>5, <1>6, <1>7 DEF AgentIInv

\* The end of a Run and its notification are one commit.
LEMMA ChildCommitsStep == ASSUME AgentIInv, NEW a \in Agents, ChildCommits(a) PROVE AgentIInv'
<1> DEFINE r == RunOf(a)
           note == IF ~child[a].halted /\ inbox[r] = None THEN "pending" ELSE inbox[r]
           end == IF child[a].aborted THEN "interrupted" ELSE "done"
           rec == Idle(agent[a], r)
<1>1. /\ child \in [Agents -> Executions] /\ agent \in [Agents -> AgentRecords]
      /\ runStatus \in [ChildRuns -> {None, "running"} \cup Terminal]
      /\ inbox \in [ChildRuns -> {None, "pending", "consumed"}]
  BY DEF AgentIInv, TypeOK
<1>2. r \in ChildRuns /\ r[1] = a /\ r[2] = agent[a].last /\ child[a].at = "append"
  <2>1. a \in Handles
    BY DEF ChildCommits, Handles
  <2> QED BY <2>1, ExecutionsAreRuns DEF ChildCommits
<1>3. /\ agent' = [agent EXCEPT ![a] = rec] /\ runStatus' = [runStatus EXCEPT ![r] = end]
      /\ inbox' = [inbox EXCEPT ![r] = note] /\ child' = [child EXCEPT ![a] = NoChild]
      /\ UNCHANGED <<operations, halted, ledger, local, main, call, delivery, stopper, history, budget>>
  BY <1>1, <1>2 DEF ChildCommits
<1>4. rec \in AgentRecords /\ rec.last = agent[a].last /\ rec.cur = 0 /\ rec.status = "idle"
  <2>1. PICK old \in AgentRecords : old = agent[a]
    BY <1>1
  <2>2. rec = [old EXCEPT !.status = "idle", !.cur = 0, !.last = old.last]
    BY <1>2, <2>1 DEF Idle
  <2>3. 0 \in 0 .. MaxChildRuns
    BY AgentAssumption
  <2> HIDE DEF rec
  <2> QED BY <2>1, <2>2, <2>3 DEF AgentRecords
<1>5. note \in {None, "pending", "consumed"} /\ (note = "pending" => inbox[r] = "pending" \/ ~child[a].halted)
      /\ (inbox[r] = "consumed" => note = "consumed") /\ end \in Terminal
  BY <1>1, <1>2 DEF None, Terminal
<1> HIDE DEF rec, note, end, r
<1>6. /\ agent' \in [Agents -> AgentRecords] /\ agent'[a] = rec
      /\ \A b \in Agents \ {a} : agent'[b] = agent[b]
  BY <1>1, <1>3, <1>4
<1>7. /\ child' \in [Agents -> Executions] /\ child'[a] = NoChild
      /\ \A b \in Agents \ {a} : child'[b] = child[b]
  <2>1. NoChild \in Executions
    BY AgentAssumption DEF NoChild, Executions
  <2> QED BY <1>1, <1>3, <2>1
<1>8. runStatus' \in [ChildRuns -> {None, "running"} \cup Terminal] /\ Running' = Running \ {r}
  BY <1>1, <1>2, <1>3, <1>5 DEF Running, Terminal
<1>9. /\ inbox' \in [ChildRuns -> {None, "pending", "consumed"}]
      /\ Pending' \subseteq Pending \cup {x \in {r} : ~child[a].halted}
      /\ \A x \in ChildRuns : inbox[x] = "consumed" => inbox'[x] = "consumed"
  BY <1>1, <1>2, <1>3, <1>5 DEF Pending
<1>10. TypeOK'
  BY <1>3, <1>6, <1>7, <1>8, <1>9 DEF AgentIInv, TypeOK, ledger, local, history
<1>11. NoChild.at = "off"
  BY DEF NoChild
<1>12. RunsAreTheLast'
  <2>1. \A x \in Running : x[1] = a => x = r
    BY <1>2 DEF AgentIInv, RunsAreTheLast, Running, ChildRuns
  <2> QED BY <1>3, <1>4, <1>6, <1>7, <1>8, <1>11, <2>1 DEF AgentIInv, RunsAreTheLast, Handles
<1>13. StartsAreClear'
  <2>1. call["main"].target \in SUBSET Agents
    BY DEF AgentIInv, TypeOK, OrchestrationCalls, Callers
  <2> QED BY <1>3, <1>4, <1>6, <1>7, <1>11, <2>1
          DEF AgentIInv, StartsAreClear, Starting, Replayed, Handles
<1>14. CallsNeedTheRun'
  BY <1>3, Frames DEF ledger
<1>15. DeliveriesAreFresh'
  <2>1. told \subseteq ChildRuns
    BY DEF AgentIInv, TypeOK
  <2> QED BY <1>3, <1>9, <2>1 DEF AgentIInv, DeliveriesAreFresh, ledger, history
<1>16. StopsAreKnown'
  <2>1. TreeExists => TreeExists'
    BY <1>4, <1>6 DEF TreeExists
  <2> QED BY <1>3, <2>1 DEF AgentIInv, StopsAreKnown, history, local
<1>17. StopQuietens'
  <2>1. \A b \in Agents : /\ ReadBefore(b)' => ReadBefore(b)
                          /\ ReadBefore(b)' => RunOf(b)' = RunOf(b)
    BY <1>7, <1>11 DEF ReadBefore, RunOf
  <2>2. ReadBefore(a) \/ Pending' \subseteq Pending
    BY <1>1, <1>2, <1>9 DEF ReadBefore, Executions
  <2> QED BY <1>3, <2>1, <2>2 DEF AgentIInv, StopQuietens, history
<1> QED BY <1>10, <1>12, <1>13, <1>14, <1>15, <1>16, <1>17 DEF AgentIInv

-------------------------------------------------------------------------------
(* Main Runs and deliveries *)

\* What the start of a Run does to what is known of the stops.
LEMMA StartsKeep ==
  ASSUME AgentIInv, StartsAfterStop, UNCHANGED <<journal, local, child>>
  PROVE  /\ stopper' \in [at : {None, "halt", "main", "collect", "settle", "read", "consume"},
                          waits : SUBSET ChildRuns, calm : BOOLEAN, bare : BOOLEAN]
         /\ quiet' \in BOOLEAN /\ StopsAreKnown' /\ StopQuietens'
<1>1. /\ stopper \in [at : {None, "halt", "main", "collect", "settle", "read", "consume"},
                      waits : SUBSET ChildRuns, calm : BOOLEAN, bare : BOOLEAN]
      /\ stopper' = [stopper EXCEPT !.bare = FALSE] /\ quiet' = (quiet /\ halted)
  BY DEF AgentIInv, TypeOK, StartsAfterStop
<1>2. /\ stopper' \in [at : {None, "halt", "main", "collect", "settle", "read", "consume"},
                       waits : SUBSET ChildRuns, calm : BOOLEAN, bare : BOOLEAN]
      /\ stopper'.at = stopper.at /\ stopper'.waits = stopper.waits /\ stopper'.calm = stopper.calm
      /\ ~stopper'.bare
  BY <1>1
<1>3. quiet' \in BOOLEAN /\ (quiet' => quiet)
  BY <1>1
<1>4. StopsAreKnown'
  BY <1>2, <1>3 DEF AgentIInv, StopsAreKnown, TreeExists, journal, local
<1>5. StopQuietens'
  BY <1>2, <1>3 DEF AgentIInv, StopQuietens, ReadBefore, RunOf, Pending, journal
<1> QED BY <1>2, <1>3, <1>4, <1>5

\* A step of the Main Run while no orchestration call is made.
LEMMA MainSteps ==
  ASSUME AgentIInv, UserResumes \/ StartUserRun \/ MainEnds PROVE AgentIInv'
<1>1. main \in [no : 0 .. MaxMains, live : BOOLEAN, stopping : BOOLEAN]
      /\ delivery.at = None /\ call["main"] = NoCall
  BY DEF AgentIInv, TypeOK, UserResumes, StartUserRun, MainEnds, Free, CallsNeedTheRun
<1>2. /\ UNCHANGED <<agent, runStatus, inbox, operations, origin, child, local, call, delivery>>
      /\ UNCHANGED <<told, dropped, astray, budget>>
  BY DEF UserResumes, StartUserRun, MainEnds, journal, ledger, history
<1>3. \/ UNCHANGED <<halted, quiet, stopper>>
      \/ ~halted' /\ ~quiet' /\ halted' \in BOOLEAN /\ quiet' \in BOOLEAN /\ UNCHANGED stopper
      \/ UNCHANGED journal /\ StartsAfterStop
  BY DEF UserResumes, StartUserRun, MainEnds, history, journal
<1>4. /\ main' \in [no : 0 .. MaxMains, live : BOOLEAN, stopping : BOOLEAN]
      /\ main'.live => main'.no # 0
      /\ streak' \in 0 .. MaxMains /\ streak' <= main'.no
  <2>1. streak \in 0 .. MaxMains /\ streak <= main.no /\ (main.live => main.no # 0)
    BY DEF AgentIInv, TypeOK, CallsNeedTheRun
  <2>2. CASE UserResumes
    BY <1>1, <2>1, <2>2 DEF UserResumes, ledger
  <2>3. CASE StartUserRun
    BY <1>1, <2>1, <2>3, AgentAssumption DEF StartUserRun, Free
  <2>4. CASE MainEnds
    BY <1>1, <2>1, <2>4 DEF MainEnds, ledger
  <2> QED BY <2>2, <2>3, <2>4
<1>5. TypeOK'
  BY <1>2, <1>3, <1>4, StartsKeep DEF AgentIInv, TypeOK, local, journal
<1>6. RunsAreTheLast' /\ DeliveriesAreFresh'
  BY <1>2, Frames
<1>7. StartsAreClear' /\ CallsNeedTheRun'
  BY <1>1, <1>2, <1>4 DEF StartsAreClear, Starting, CallsNeedTheRun, NoCall, None
<1>8. StopsAreKnown' /\ StopQuietens'
  <2>1. CASE UNCHANGED <<halted, quiet, stopper>>
    BY <1>2, <2>1, Frames DEF local
  <2>2. CASE ~halted' /\ ~quiet' /\ UNCHANGED stopper
    BY <1>2, <2>2 DEF AgentIInv, StopsAreKnown, StopQuietens, local
  <2>3. CASE UNCHANGED journal /\ StartsAfterStop
    BY <1>2, <2>3, StartsKeep
  <2> QED BY <1>3, <2>1, <2>2, <2>3
<1> QED BY <1>5, <1>6, <1>7, <1>8 DEF AgentIInv

\* A delivery that consumes: a second one, after a restart, or the first.
LEMMA DeliveryConsumes == ASSUME AgentIInv, DeliverAgain \/ DeliverConsume PROVE AgentIInv'
<1>1. PICK rs : Consumed(rs)
  BY DEF DeliverAgain, DeliverConsume
<1>2. /\ UNCHANGED <<origin, streak, child, local, main, call, stopper, told, dropped, quiet, astray, budget>>
      /\ delivery' \in {delivery, NoDelivery}
  BY DEF DeliverAgain, DeliverConsume, ledger, history
<1>3. TypeOK'
  <2>1. NoDelivery \in [at : {None, "begin", "consume"}, batch : SUBSET ChildRuns]
    BY DEF NoDelivery
  <2>2. delivery' \in [at : {None, "begin", "consume"}, batch : SUBSET ChildRuns]
    BY <1>2, <2>1 DEF AgentIInv, TypeOK
  <2> QED BY <1>1, <1>2, <2>2, Consuming DEF AgentIInv, TypeOK, local
<1>4. RunsAreTheLast' /\ StartsAreClear' /\ StopsAreKnown'
  BY <1>1, <1>2, Consuming, Frames
<1>5. CallsNeedTheRun'
  BY <1>2 DEF AgentIInv, CallsNeedTheRun, NoDelivery, None
<1>6. DeliveriesAreFresh'
  <2>1. told \subseteq ChildRuns
    BY DEF AgentIInv, TypeOK
  <2> QED BY <1>1, <1>2, <2>1, Consuming DEF AgentIInv, DeliveriesAreFresh, NoDelivery, None
<1>7. StopQuietens'
  BY <1>1, <1>2, Consuming DEF AgentIInv, StopQuietens, ReadBefore, RunOf
<1> QED BY <1>3, <1>4, <1>5, <1>6, <1>7 DEF AgentIInv

\* What pendingAgentBatch takes has no origin and was told to nobody.
LEMMA DeliverLookStep == ASSUME AgentIInv, DeliverLook PROVE AgentIInv'
<1>1. PICK batch \in SUBSET Pending : delivery' = [at |-> "begin", batch |-> batch]
  BY DEF DeliverLook
<1>2. /\ UNCHANGED <<journal, ledger, child, local, main, call, stopper, history, budget>>
      /\ ~main.live /\ main.no < MaxMains /\ Delivered = {}
  BY DEF DeliverLook, Free
<1>3. \A r \in batch : r \in ChildRuns /\ origin[r] = {} /\ r \notin told
  BY <1>2 DEF Delivered, Pending, AgentIInv, DeliveriesAreFresh
<1>4. TypeOK'
  BY <1>1, <1>2, <1>3 DEF AgentIInv, TypeOK, journal, ledger, local, history
<1>5. RunsAreTheLast' /\ StartsAreClear' /\ StopsAreKnown' /\ StopQuietens'
  BY <1>2, Frames DEF journal, history
<1>6. CallsNeedTheRun' /\ DeliveriesAreFresh'
  BY <1>1, <1>2, <1>3
     DEF AgentIInv, CallsNeedTheRun, DeliveriesAreFresh, journal, ledger, history, None
<1> QED BY <1>4, <1>5, <1>6 DEF AgentIInv

LEMMA DeliverBeginStep == ASSUME AgentIInv, DeliverBegin PROVE AgentIInv'
<1>1. /\ main \in [no : 0 .. MaxMains, live : BOOLEAN, stopping : BOOLEAN]
      /\ delivery \in [at : {None, "begin", "consume"}, batch : SUBSET ChildRuns]
      /\ origin \in [ChildRuns -> SUBSET Mains] /\ streak \in 0 .. MaxMains
  BY DEF AgentIInv, TypeOK
<1>2. /\ delivery.at = "begin" /\ ~main.live /\ main.no < MaxMains /\ streak <= main.no
      /\ call["main"] = NoCall
  BY DEF DeliverBegin, AgentIInv, CallsNeedTheRun
<1>3. /\ main' = [no |-> main.no + 1, live |-> TRUE, stopping |-> main.stopping]
      /\ origin' = [r \in ChildRuns |-> IF r \in delivery.batch THEN origin[r] \cup {main.no + 1} ELSE origin[r]]
      /\ streak' = streak + 1
      /\ delivery' = [delivery EXCEPT !.at = "consume"]
      /\ UNCHANGED <<journal, child, local, call, told, dropped, astray, budget>> /\ StartsAfterStop
  BY DEF DeliverBegin
<1>4. /\ main' \in [no : 0 .. MaxMains, live : BOOLEAN, stopping : BOOLEAN]
      /\ main'.live /\ main'.no = main.no + 1 /\ main'.no \in Mains
  BY <1>1, <1>2, <1>3, AgentAssumption DEF Mains
<1>5. /\ delivery' \in [at : {None, "begin", "consume"}, batch : SUBSET ChildRuns]
      /\ delivery'.at = "consume" /\ delivery'.batch = delivery.batch
  BY <1>1, <1>3
<1>6. streak' \in 0 .. MaxMains /\ streak' <= main'.no
  BY <1>1, <1>2, <1>3, <1>4, AgentAssumption
<1>7. origin' \in [ChildRuns -> SUBSET Mains] /\ \A r \in delivery.batch : origin'[r] # {}
  BY <1>1, <1>3, <1>4
<1>8. TypeOK'
  BY <1>3, <1>4, <1>5, <1>6, <1>7, StartsKeep DEF AgentIInv, TypeOK, journal, local
<1>9. RunsAreTheLast' /\ StopsAreKnown' /\ StopQuietens'
  BY <1>3, StartsKeep, Frames DEF journal
<1>10. StartsAreClear'
  BY <1>2, <1>3 DEF StartsAreClear, Starting, NoCall, None
<1>11. CallsNeedTheRun'
  BY <1>1, <1>4, <1>5, <1>6 DEF CallsNeedTheRun
<1>12. DeliveriesAreFresh'
  BY <1>3, <1>5, <1>7 DEF AgentIInv, DeliveriesAreFresh, journal
<1> QED BY <1>8, <1>9, <1>10, <1>11, <1>12 DEF AgentIInv

-------------------------------------------------------------------------------
(* stop_all and the process *)

\* The steps of a stop that change nothing but the stop itself, or the Main Run.
LEMMA StopMoves ==
  ASSUME AgentIInv, StopAll \/ StopMain \/ StopSettles \/ StopReads PROVE AgentIInv'
<1>1. /\ main \in [no : 0 .. MaxMains, live : BOOLEAN, stopping : BOOLEAN]
      /\ stopper \in [at : {None, "halt", "main", "collect", "settle", "read", "consume"},
                      waits : SUBSET ChildRuns, calm : BOOLEAN, bare : BOOLEAN]
      /\ budget \in 0 .. MaxDisruptions
  BY DEF AgentIInv, TypeOK
<1>2. /\ UNCHANGED <<journal, ledger, child, local, call, delivery, told, dropped, astray>>
      /\ quiet' \in BOOLEAN /\ (quiet' => quiet)
  <2>1. CASE StopAll
    BY <2>1 DEF StopAll
  <2>2. CASE ~StopAll
    BY <2>2 DEF StopMain, StopSettles, StopReads, history, AgentIInv, TypeOK
  <2> QED BY <2>1, <2>2
<1>3. /\ main' \in [no : 0 .. MaxMains, live : BOOLEAN, stopping : BOOLEAN]
      /\ main'.live = main.live /\ main'.no = main.no
  BY <1>1 DEF StopAll, StopMain, StopSettles, StopReads
<1>4. budget' \in 0 .. MaxDisruptions
  BY <1>1, AgentAssumption DEF StopAll, StopMain, StopSettles, StopReads
<1>5. /\ stopper' \in [at : {None, "halt", "main", "collect", "settle", "read", "consume"},
                       waits : SUBSET ChildRuns, calm : BOOLEAN, bare : BOOLEAN]
      /\ stopper'.calm => (stopper.at # None /\ stopper.calm) \/ (recovered /\ booted)
      /\ stopper'.at \in {"settle", "read", "consume"} => StopSettles \/ StopReads
      /\ stopper'.bare => stopper.bare /\ (StopSettles \/ StopReads)
      /\ StopSettles => stopper'.at = "read"
      /\ StopReads => stopper'.at = "consume"
      /\ stopper.at # None \/ ~quiet'
  <2>1. CASE StopAll
    <3>1. PICK calm \in BOOLEAN : calm = (recovered /\ booted)
      OBVIOUS
    <3>2. stopper' = [at |-> "halt", waits |-> {}, calm |-> calm, bare |-> FALSE]
      BY <2>1, <3>1 DEF StopAll, NoStop
    <3>3. ~StopSettles /\ ~StopReads
      BY <2>1 DEF StopAll, StopSettles, StopReads, None
    <3>4. ~quiet'
      BY <2>1 DEF StopAll
    <3> QED BY <2>1, <3>1, <3>2, <3>3, <3>4 DEF None
  <2>2. CASE StopMain
    <3>1. stopper' = [stopper EXCEPT !.at = "collect"] /\ stopper.at = "main"
      BY <2>2 DEF StopMain
    <3>2. ~StopSettles /\ ~StopReads /\ ~stopper.bare
      BY <2>2 DEF StopMain, StopSettles, StopReads, AgentIInv, StopsAreKnown
    <3> QED BY <1>1, <3>1, <3>2 DEF None
  <2>3. CASE StopSettles
    <3>1. stopper' = [stopper EXCEPT !.at = "read"] /\ stopper.at = "settle"
      BY <2>3 DEF StopSettles
    <3>2. ~StopReads
      BY <3>1 DEF StopReads
    <3> QED BY <1>1, <2>3, <3>1, <3>2 DEF None
  <2>4. CASE StopReads
    <3>1. stopper' = [stopper EXCEPT !.at = "consume", !.waits = Pending] /\ stopper.at = "read"
      BY <2>4 DEF StopReads
    <3>2. Pending \in SUBSET ChildRuns
      BY DEF Pending
    <3>3. ~StopSettles
      BY <3>1 DEF StopSettles
    <3> QED BY <1>1, <2>4, <3>1, <3>2, <3>3 DEF None
  <2> QED BY <2>1, <2>2, <2>3, <2>4
<1>6. TypeOK'
  BY <1>2, <1>3, <1>4, <1>5 DEF AgentIInv, TypeOK, journal, ledger, local
<1>7. RunsAreTheLast' /\ DeliveriesAreFresh'
  BY <1>2, Frames DEF journal, ledger
<1>8. StartsAreClear' /\ CallsNeedTheRun'
  BY <1>2, <1>3
     DEF AgentIInv, StartsAreClear, Starting, Replayed, Handles, CallsNeedTheRun, journal, ledger
<1>9. StopsAreKnown'
  BY <1>2, <1>5 DEF AgentIInv, StopsAreKnown, TreeExists, journal, local
<1>10. StopQuietens'
  <2>1. quiet' /\ halted' => Pending' = {} /\ \A a \in Agents : ~ReadBefore(a)'
    BY <1>2 DEF AgentIInv, StopQuietens, Pending, ReadBefore, journal
  <2>2. CASE StopSettles
    <3>1. stopper'.at = "read" /\ stopper.at = "settle"
      BY <1>1, <2>2 DEF StopSettles
    <3>2. \A a \in Agents : ReadBefore(a) => a \in Handles
      BY DEF ReadBefore, Handles
    <3>3. halted => \A a \in Agents : ~ReadBefore(a)
      BY <2>2, <3>1, <3>2 DEF StopSettles, AgentIInv, StopQuietens
    <3> QED BY <1>2, <2>1, <3>1, <3>3 DEF StopQuietens, ReadBefore, journal
  <2>3. CASE StopReads
    <3>1. stopper'.at = "consume" /\ stopper'.waits = Pending /\ stopper.at = "read"
      BY <1>1, <2>3 DEF StopReads
    <3> QED BY <1>2, <2>1, <3>1 DEF AgentIInv, StopQuietens, ReadBefore, Pending, journal
  <2>4. CASE stopper'.at \notin {"settle", "read", "consume"}
    BY <2>1, <2>4 DEF StopQuietens
  <2> QED BY <1>5, <2>2, <2>3, <2>4
<1> QED BY <1>6, <1>7, <1>8, <1>9, <1>10 DEF AgentIInv

\* The second halt collects every execution there is.
LEMMA HaltStep == ASSUME AgentIInv, Halt PROVE AgentIInv'
<1>1. /\ stopper \in [at : {None, "halt", "main", "collect", "settle", "read", "consume"},
                      waits : SUBSET ChildRuns, calm : BOOLEAN, bare : BOOLEAN]
      /\ child \in [Agents -> Executions]
  BY DEF AgentIInv, TypeOK
<1>2. /\ halted' = TreeExists /\ stopper.at \in {"halt", "collect"}
      /\ UNCHANGED <<agent, runStatus, inbox, operations, ledger, local, main, call, delivery>>
      /\ UNCHANGED <<told, dropped, quiet, budget>>
  BY DEF Halt
<1>3. halted' \in BOOLEAN /\ (halted => halted')
  BY <1>2 DEF AgentIInv, StopsAreKnown, TreeExists
<1>4. /\ child' \in [Agents -> Executions]
      /\ \A b \in Agents : /\ child'[b].at = child[b].at /\ child'[b].n = child[b].n
                           /\ child'[b].halted = child[b].halted
  <2>1. CASE stopper.at = "halt"
    BY <1>1, <2>1 DEF Halt
  <2>2. CASE stopper.at # "halt"
    <3>1. child' = [a \in Agents |-> [child[a] EXCEPT !.aborted = child[a].aborted \/ a \in Handles]]
      BY <2>2 DEF Halt
    <3>2. ASSUME NEW a \in Agents
          PROVE  LET new == [child[a] EXCEPT !.aborted = child[a].aborted \/ a \in Handles] IN
                 /\ new \in Executions /\ new.at = child[a].at /\ new.n = child[a].n
                 /\ new.halted = child[a].halted
      <4>1. PICK cut \in BOOLEAN : cut = (child[a].aborted \/ a \in Handles)
        OBVIOUS
      <4>2. child[a] \in Executions
        BY <1>1
      <4> QED BY <4>1, <4>2 DEF Executions
    <3> QED BY <3>1, <3>2
  <2> QED BY <2>1, <2>2
<1>5. /\ stopper' \in [at : {None, "halt", "main", "collect", "settle", "read", "consume"},
                       waits : SUBSET ChildRuns, calm : BOOLEAN, bare : BOOLEAN]
      /\ stopper'.calm = stopper.calm
      /\ \/ stopper'.at = "main" /\ ~stopper'.bare
         \/ /\ stopper'.at = "settle" /\ stopper'.waits = {RunOf(a) : a \in Handles}
            /\ stopper'.bare => ~TreeExists
  <2>1. CASE stopper.at = "halt"
    <3>1. ~stopper.bare
      BY <2>1 DEF AgentIInv, StopsAreKnown
    <3> QED BY <1>1, <2>1, <3>1 DEF Halt
  <2>2. CASE stopper.at # "halt"
    <3> DEFINE bare == ~TreeExists /\ (main.live => main.stopping)
    <3>1. stopper' = [stopper EXCEPT !.at = "settle", !.waits = {RunOf(a) : a \in Handles}, !.bare = bare]
      BY <2>2 DEF Halt
    <3>2. {RunOf(a) : a \in Handles} \in SUBSET ChildRuns
      BY ExecutionsAreRuns
    <3>3. bare \in BOOLEAN /\ (bare => ~TreeExists)
      OBVIOUS
    <3> HIDE DEF bare
    <3> QED BY <1>1, <3>1, <3>2, <3>3
  <2> QED BY <2>1, <2>2
<1>6. TypeOK'
  <2>1. astray' \in (0 .. MaxMains) \X (CallIds \cup {None})
    <3>1. main.no \in 0 .. MaxMains /\ call["main"].id \in CallIds \cup {None}
          /\ 0 \in 0 .. MaxMains /\ astray \in (0 .. MaxMains) \X (CallIds \cup {None})
      BY AgentAssumption DEF AgentIInv, TypeOK, OrchestrationCalls, Callers
    <3> QED BY <3>1 DEF Halt
  <2> QED BY <1>2, <1>3, <1>4, <1>5, <2>1 DEF AgentIInv, TypeOK, ledger, local
<1>7. RunsAreTheLast' /\ StartsAreClear'
  <2>1. Handles' = Handles
    BY <1>4 DEF Handles
  <2>2. RunsAreTheLast'
    BY <1>2, <1>4, <2>1 DEF AgentIInv, RunsAreTheLast, Running
  <2>3. StartsAreClear'
    BY <1>2, <2>1 DEF AgentIInv, StartsAreClear, Starting, Replayed
  <2> QED BY <2>2, <2>3
<1>8. CallsNeedTheRun' /\ DeliveriesAreFresh'
  BY <1>2, Frames DEF ledger
<1>9. StopsAreKnown'
  BY <1>2, <1>3, <1>5 DEF AgentIInv, StopsAreKnown, TreeExists, local, None
<1>10. StopQuietens'
  <2>1. ~quiet'
    BY <1>2 DEF AgentIInv, StopsAreKnown, None
  <2>2. \A a \in Agents : ReadBefore(a)' => a \in Handles /\ RunOf(a)' = RunOf(a)
    BY <1>4 DEF ReadBefore, Handles, RunOf
  <2> QED BY <1>5, <2>1, <2>2 DEF StopQuietens
<1> QED BY <1>6, <1>7, <1>8, <1>9, <1>10 DEF AgentIInv

\* Nothing is left pending, and every execution that was to leave something has ended.
LEMMA StopConsumesStep == ASSUME AgentIInv, StopConsumes PROVE AgentIInv'
<1>1. /\ Consumed(stopper.waits) /\ stopper.at = "consume" /\ stopper' = NoStop
      /\ quiet' = (stopper.calm /\ (halted \/ stopper.bare))
      /\ dropped' = dropped \cup (stopper.waits \cap Pending)
      /\ UNCHANGED <<ledger, child, local, main, call, delivery, told, astray, budget>>
  BY DEF StopConsumes
<1>2. UNCHANGED <<agent, runStatus, operations, halted>> /\ Pending' = Pending \ stopper.waits
  BY <1>1, Consuming
<1>3. NoStop \in [at : {None, "halt", "main", "collect", "settle", "read", "consume"},
                  waits : SUBSET ChildRuns, calm : BOOLEAN, bare : BOOLEAN]
      /\ NoStop.at = None /\ ~NoStop.bare
  BY DEF NoStop
<1>4. TypeOK'
  <2>1. dropped' \subseteq ChildRuns
    BY <1>1 DEF Pending, AgentIInv, TypeOK
  <2>2. quiet' \in BOOLEAN
    BY <1>1
  <2> QED BY <1>1, <1>3, <2>1, <2>2, Consuming DEF AgentIInv, TypeOK, ledger, local
<1>5. RunsAreTheLast' /\ StartsAreClear' /\ CallsNeedTheRun' /\ DeliveriesAreFresh'
  BY <1>1, <1>2, ConsumingKeeps, Frames DEF ledger
<1>6. StopsAreKnown'
  BY <1>1, <1>2, <1>3 DEF AgentIInv, StopsAreKnown, TreeExists, local, None
<1>7. StopQuietens'
  <2>1. quiet' /\ halted => Pending \subseteq stopper.waits /\ \A a \in Agents : ~ReadBefore(a)
    BY <1>1 DEF AgentIInv, StopQuietens
  <2> QED BY <1>1, <1>2, <1>3, <2>1 DEF StopQuietens, ReadBefore, None
<1> QED BY <1>4, <1>5, <1>6, <1>7 DEF AgentIInv

LEMMA CrashStep == ASSUME AgentIInv, Crash PROVE AgentIInv'
<1>1. /\ main \in [no : 0 .. MaxMains, live : BOOLEAN, stopping : BOOLEAN]
      /\ budget \in 0 .. MaxDisruptions
  BY DEF AgentIInv, TypeOK
<1>2. /\ child' = [a \in Agents |-> NoChild] /\ ~recovered' /\ ~booted' /\ ~quiet'
      /\ recovered' \in BOOLEAN /\ booted' \in BOOLEAN /\ quiet' \in BOOLEAN
      /\ call' = [c \in Callers |-> NoCall] /\ delivery' = NoDelivery /\ stopper' = NoStop
      /\ UNCHANGED <<journal, ledger, told, dropped, astray>>
  BY DEF Crash
<1>3. /\ main' \in [no : 0 .. MaxMains, live : BOOLEAN, stopping : BOOLEAN]
      /\ ~main'.live /\ main'.no = main.no
  BY <1>1 DEF Crash
<1>4. budget' \in 0 .. MaxDisruptions
  BY <1>1, AgentAssumption DEF Crash
<1>5. /\ NoChild \in Executions /\ NoChild.at = "off"
      /\ NoCall \in OrchestrationCalls /\ NoCall.op = None /\ NoCall.at = None
  BY AgentAssumption DEF NoChild, Executions, NoCall, OrchestrationCalls
<1>6. /\ NoDelivery \in [at : {None, "begin", "consume"}, batch : SUBSET ChildRuns]
      /\ NoDelivery.at = None /\ NoStop.at = None /\ ~NoStop.bare
      /\ NoStop \in [at : {None, "halt", "main", "collect", "settle", "read", "consume"},
                     waits : SUBSET ChildRuns, calm : BOOLEAN, bare : BOOLEAN]
  BY DEF NoDelivery, NoStop
<1>7. TypeOK'
  BY <1>2, <1>3, <1>4, <1>5, <1>6 DEF AgentIInv, TypeOK, journal, ledger
<1>8. RunsAreTheLast'
  BY <1>2, <1>5 DEF AgentIInv, RunsAreTheLast, Running, Handles, journal
<1>9. call'["main"] = NoCall
  BY <1>2 DEF Callers
<1>10. StartsAreClear' /\ CallsNeedTheRun' /\ DeliveriesAreFresh'
  BY <1>2, <1>3, <1>5, <1>6, <1>9
     DEF AgentIInv, StartsAreClear, Starting, CallsNeedTheRun, DeliveriesAreFresh, journal, ledger, None
<1>11. StopsAreKnown' /\ StopQuietens'
  BY <1>2, <1>5, <1>6 DEF AgentIInv, StopsAreKnown, StopQuietens, TreeExists, journal, None
<1> QED BY <1>7, <1>8, <1>10, <1>11 DEF AgentIInv

-------------------------------------------------------------------------------
(* The invariant of the system *)

LEMMA AgentInit == Init => AgentIInv
<1> SUFFICES ASSUME Init PROVE AgentIInv
  OBVIOUS
<1>1. /\ NoAgent \in AgentRecords /\ NoAgent.cur = 0 /\ NoAgent.last = 0 /\ NoAgent.status = "absent"
      /\ NoChild \in Executions /\ NoChild.at = "off"
      /\ NoCall \in OrchestrationCalls /\ NoCall.op = None /\ NoCall.at = None
  BY AgentAssumption
     DEF NoAgent, AgentRecords, NoChild, Executions, NoCall, OrchestrationCalls
<1>2. /\ NoDelivery \in [at : {None, "begin", "consume"}, batch : SUBSET ChildRuns]
      /\ NoDelivery.at = None /\ NoStop.at = None /\ ~NoStop.bare
      /\ NoStop \in [at : {None, "halt", "main", "collect", "settle", "read", "consume"},
                     waits : SUBSET ChildRuns, calm : BOOLEAN, bare : BOOLEAN]
      /\ NoMain \in [no : 0 .. MaxMains, live : BOOLEAN, stopping : BOOLEAN]
      /\ ~NoMain.live /\ NoMain.no = 0
  BY AgentAssumption DEF NoDelivery, NoStop, NoMain
<1>3. TypeOK
  <2>1. 0 \in 0 .. MaxMains /\ 0 \in 0 .. MaxDisruptions
    BY AgentAssumption
  <2>2. agent \in [Agents -> AgentRecords] /\ child \in [Agents -> Executions]
        /\ call \in [Callers -> OrchestrationCalls]
    BY <1>1 DEF Init
  <2>3. /\ runStatus \in [ChildRuns -> {None, "running"} \cup Terminal]
        /\ inbox \in [ChildRuns -> {None, "pending", "consumed"}]
        /\ origin \in [ChildRuns -> SUBSET Mains]
    BY DEF Init
  <2> QED BY <1>2, <2>1, <2>2, <2>3 DEF Init, TypeOK
<1>4. RunsAreTheLast
  BY <1>1 DEF Init, RunsAreTheLast, Running, Handles, None
<1>5. call["main"] = NoCall
  BY DEF Init, Callers
<1>6. StartsAreClear /\ CallsNeedTheRun /\ DeliveriesAreFresh /\ StopsAreKnown /\ StopQuietens
  BY <1>1, <1>2, <1>5
     DEF Init, StartsAreClear, Starting, CallsNeedTheRun, DeliveriesAreFresh, StopsAreKnown,
         StopQuietens, None
<1> QED BY <1>3, <1>4, <1>6 DEF AgentIInv

\* Every step keeps the invariant.
LEMMA AgentStep == AgentIInv /\ [Next]_vars => AgentIInv'
<1> SUFFICES ASSUME AgentIInv, [Next]_vars PROVE AgentIInv'
  OBVIOUS
<1>1. CASE Calls
  <2>1. ASSUME NEW id \in CallIds, NEW w \in Writing, CallSpawn(id, w) PROVE AgentIInv'
    BY <2>1, BeginStep, AgentAssumption DEF CallSpawn, Callers
  <2>2. ASSUME NEW id \in CallIds, NEW a \in Agents, CallFollowup(id, a) PROVE AgentIInv'
    BY <2>2, BeginStep DEF CallFollowup, Callers
  <2>3. ASSUME NEW id \in CallIds, NEW a \in Agents, NEW c \in Callers, CallStop(c, id, a) PROVE AgentIInv'
    BY <2>3, BeginStep DEF CallStop
  <2>4. ASSUME NEW id \in CallIds, NEW T \in SUBSET Agents \ {{}}, CallWait(id, T) PROVE AgentIInv'
    BY <2>4, BeginStep DEF CallWait, Callers
  <2>5. ASSUME NEW c \in Callers, Preflight(c) PROVE AgentIInv'
    BY <2>5, PreflightStep
  <2>6. ASSUME NEW c \in Callers, NEW a \in Agents, StopCheck(c, a) \/ StopAppend(c, a) \/ StopAborts(c, a)
        PROVE  AgentIInv'
    BY <2>6, StopCheckStep, StopAppendStep, StopAbortsStep
  <2>7. CASE SpawnCheck \/ WaitCheck \/ WaitCollect \/ WaitConsume
    BY <2>7, SpawnCheckStep, WaitChecks, WaitConsumeStep
  <2>8. ASSUME NEW a \in Agents, FollowupCheck(a) \/ AppendRun(a) \/ Launch(a) PROVE AgentIInv'
    BY <2>8, FollowupCheckStep, AppendRunStep, LaunchStep
  <2> QED BY <1>1, <2>1, <2>2, <2>3, <2>4, <2>5, <2>6, <2>7, <2>8 DEF Calls
<1>2. CASE Children
  BY <1>2, ChildMoves, ChildCommitsStep DEF Children
<1>3. CASE MainRuns
  BY <1>3, MainSteps, DeliveryConsumes, DeliverLookStep, DeliverBeginStep DEF MainRuns
<1>4. CASE Stops
  BY <1>4, StopMoves, HaltStep, StopConsumesStep DEF Stops
<1>5. CASE Crash \/ Boot \/ List
  BY <1>5, CrashStep, BootStep
<1>6. CASE UNCHANGED vars
  <2>1. /\ UNCHANGED <<agent, runStatus, inbox, operations, halted, origin, streak, child>>
        /\ UNCHANGED <<recovered, booted, main, call, delivery, stopper, told, dropped, quiet, astray, budget>>
    BY <1>6 DEF vars, journal, ledger, local, history
  <2>2. TypeOK'
    BY <2>1 DEF AgentIInv, TypeOK
  <2> QED BY <2>1, <2>2, Frames DEF AgentIInv, local
<1> QED BY <1>1, <1>2, <1>3, <1>4, <1>5, <1>6 DEF Next

-------------------------------------------------------------------------------
(* What is left to run after a stop_all *)

\* Once recovered, what runs in the journal is executed here or about to be; a Run to
\* launch is the one of the operation in flight, and only Agents have notifications.
DrivenHere ==
  recovered => \A r \in Running : \/ r[1] \in Handles
                                  \/ call["main"].at = "launch" /\ r[1] \in call["main"].target
LaunchesTheOperation ==
  call["main"].at = "launch" =>
    \A a \in call["main"].target : <<main.no, call["main"].id, <<a, agent[a].last>> >> \in operations
NotesHaveAgents == \A r \in ChildRuns : inbox[r] # None => agent[r[1]].status # "absent"
OwnRuns == DrivenHere /\ LaunchesTheOperation /\ NotesHaveAgents

\* From the moment a stop_all has collected the handles until something starts again,
\* nothing but what was in flight then runs on, leaves a notification or is started.
Stilled == quiet \/ /\ stopper.at \in {"settle", "read", "consume"} /\ stopper.calm
                    /\ halted \/ stopper.bare
StillSession ==
  Stilled =>
    /\ ~halted /\ main.live => main.stopping
    /\ Starting /\ (~halted \/ call["main"].at # "preflight") => <<main.no, call["main"].id>> = astray
    /\ \A r \in Running : Astray(r) \/ (stopper.at = "settle" /\ r \in stopper.waits)
    /\ ~halted => /\ \A a \in Handles : Astray(RunOf(a))
                  /\ \A r \in Pending : Astray(r)

StillIInv == AgentIInv /\ OwnRuns /\ StillSession

\* The steps that leave the journal, the executions and the launch to come alone.
LEMMA OwnRunsFrame ==
  ASSUME OwnRuns, UNCHANGED <<agent, runStatus, recovered, operations>>,
         Handles' = Handles, \A r \in ChildRuns : inbox'[r] # None => inbox[r] # None,
         \/ call'["main"] = call["main"] /\ (call["main"].at = "launch" => main'.no = main.no)
         \/ call["main"].at # "launch" /\ call'["main"].at # "launch"
  PROVE  OwnRuns'
<1>1. DrivenHere'
  BY DEF OwnRuns, DrivenHere, Running
<1>2. LaunchesTheOperation'
  BY DEF OwnRuns, LaunchesTheOperation
<1>3. NotesHaveAgents'
  BY DEF OwnRuns, NotesHaveAgents
<1> QED BY <1>1, <1>2, <1>3 DEF OwnRuns

\* A recovery leaves nothing running, and writes notifications of Agents that are there.
LEMMA OwnRunsRecover ==
  ASSUME AgentIInv, OwnRuns, Boot \/ List \/ \E c \in Callers : Preflight(c)
  PROVE  OwnRuns'
<1>1. /\ UNCHANGED <<child, main>> /\ call \in [Callers -> OrchestrationCalls]
      /\ recovered => recovered'
      /\ \/ RecoveryCommit
         \/ UNCHANGED journal /\ (recovered = recovered' \/ Running = {})
      /\ RecoveryCommit \/ UNCHANGED journal
  <2>1. recovered \in BOOLEAN
    BY DEF AgentIInv, TypeOK
  <2>2. CASE Boot \/ List
    BY <2>1, <2>2 DEF Boot, List, Recovers, AgentIInv, TypeOK
  <2>3. ASSUME NEW c \in Callers, Preflight(c)
        PROVE  /\ UNCHANGED <<child, main>> /\ recovered' = TRUE
               /\ RecoveryCommit \/ (UNCHANGED journal /\ (recovered \/ Running = {}))
    BY <2>3 DEF Preflight, Recovers
  <2> QED BY <2>1, <2>2, <2>3 DEF AgentIInv, TypeOK
<1>2. \/ call'["main"] = call["main"]
      \/ call["main"].at # "launch" /\ call'["main"].at # "launch"
  BY <1>1 DEF Boot, List, Preflight, Return, Goto, NoCall, None, Callers, OrchestrationCalls
<1>3. DrivenHere'
  <2>1. CASE RecoveryCommit
    <3>1. Running' = {}
      BY <2>1 DEF RecoveryCommit, Running
    <3> QED BY <3>1 DEF DrivenHere
  <2>2. CASE UNCHANGED journal /\ Running = {}
    <3>1. Running' = {}
      BY <2>2 DEF journal, Running
    <3> QED BY <3>1 DEF DrivenHere
  <2>3. CASE UNCHANGED journal /\ recovered = recovered'
    <3>1. Running' = Running /\ Handles' = Handles
      BY <1>1, <2>3 DEF journal, Running, Handles
    <3>2. \A r \in Running : r[1] \in Handles \/ call["main"].at # "launch" \/ call'["main"] = call["main"]
      BY <1>2
    <3> QED BY <1>2, <2>3, <3>1, <3>2 DEF OwnRuns, DrivenHere
  <2> QED BY <1>1, <2>1, <2>2, <2>3
<1>4. LaunchesTheOperation'
  <2>1. UNCHANGED operations /\ \A a \in Agents : agent'[a].last = agent[a].last
    BY <1>1, Recovering
  <2>2. call["main"].target \in SUBSET Agents
    BY <1>1 DEF OrchestrationCalls, Callers
  <2> QED BY <1>1, <1>2, <2>1, <2>2 DEF OwnRuns, LaunchesTheOperation
<1>5. NotesHaveAgents'
  <2>1. \A a \in Agents : agent'[a].status = "absent" <=> agent[a].status = "absent"
    BY <1>1, Recovering
  <2>2. \A r \in ChildRuns : inbox'[r] # None => inbox[r] # None \/ r \in Running
    BY <1>1 DEF RecoveryCommit, journal
  <2>3. \A r \in Running : r \in ChildRuns /\ r[1] \in Agents /\ agent[r[1]].status # "absent"
    BY DEF AgentIInv, RunsAreTheLast, Running, ChildRuns
  <2> QED BY <2>1, <2>2, <2>3 DEF OwnRuns, NotesHaveAgents, ChildRuns
<1> QED BY <1>3, <1>4, <1>5 DEF OwnRuns

\* A Run is appended as the one of the operation in flight, and launched next.
LEMMA OwnRunsAppend ==
  ASSUME AgentIInv, OwnRuns, NEW a \in Agents, AppendRun(a)
  PROVE  OwnRuns'
<1> DEFINE n == agent[a].last + 1
<1>1. /\ call \in [Callers -> OrchestrationCalls] /\ agent \in [Agents -> AgentRecords]
      /\ runStatus \in [ChildRuns -> {None, "running"} \cup Terminal] /\ "main" \in Callers
  BY DEF AgentIInv, TypeOK, Callers
<1>2. /\ Starting /\ call["main"].at = "append" /\ a \in call["main"].target
      /\ UNCHANGED <<inbox, child, recovered, main>>
      /\ <<main.no, call["main"].id, <<a, n>> >> \in operations'
      /\ runStatus' = [runStatus EXCEPT ![<<a, n>>] = "running"]
      /\ call' = [call EXCEPT !["main"].at = "launch"]
  BY DEF AppendRun, At, Starting, Started, Goto, local
<1>3. /\ agent'[a].last = n /\ agent'[a].status # "absent"
      /\ \A b \in Agents : agent[b].status # "absent" => agent'[b].status # "absent"
  BY <1>1 DEF AppendRun, Started, AgentRecords
<1>4. /\ call'["main"].at = "launch" /\ call'["main"].id = call["main"].id
      /\ call'["main"].target = call["main"].target
  BY <1>1, <1>2 DEF OrchestrationCalls
<1>5. Running' \subseteq Running \cup {<<a, n>>}
  BY <1>1, <1>2 DEF Running
<1>6. DrivenHere'
  <2>1. Handles' = Handles
    BY <1>2 DEF Handles
  <2>2. recovered => \A r \in Running : r[1] \in Handles
    BY <1>2 DEF OwnRuns, DrivenHere
  <2> QED BY <1>2, <1>4, <1>5, <2>1, <2>2 DEF DrivenHere
<1>7. LaunchesTheOperation'
  <2>1. \A b \in call["main"].target : b = a
    BY <1>2 DEF AgentIInv, StartsAreClear
  <2> QED BY <1>2, <1>3, <1>4, <2>1 DEF LaunchesTheOperation
<1>8. NotesHaveAgents'
  BY <1>2, <1>3 DEF OwnRuns, NotesHaveAgents, ChildRuns
<1> QED BY <1>6, <1>7, <1>8 DEF OwnRuns

LEMMA OwnRunsLaunch ==
  ASSUME AgentIInv, OwnRuns, NEW a \in Agents, Launch(a)
  PROVE  OwnRuns'
<1>1. /\ call \in [Callers -> OrchestrationCalls] /\ child \in [Agents -> Executions]
      /\ "main" \in Callers
  BY DEF AgentIInv, TypeOK, Callers
<1>2. /\ call["main"].at = "launch" /\ a \in call["main"].target
      /\ call'["main"].at # "launch"
      /\ UNCHANGED <<agent, runStatus, inbox, operations, recovered>>
  BY <1>1 DEF Launch, Return, NoCall, None, journal, local
<1>3. child'[a].at # "off" /\ \A b \in Agents : b # a => child'[b] = child[b]
  BY <1>1 DEF Launch, NoChild
<1>4. \A b \in call["main"].target : b = a
  BY <1>2 DEF AgentIInv, StartsAreClear
<1>5. DrivenHere'
  <2>1. Running' = Running /\ (recovered' => recovered)
    BY <1>2 DEF Running
  <2>2. \A b \in Agents : b \in Handles \/ b = a => b \in Handles'
    BY <1>3 DEF Handles
  <2>3. recovered => \A r \in Running : r[1] \in Agents /\ (r[1] \in Handles \/ r[1] = a)
    BY <1>4 DEF OwnRuns, DrivenHere, Running, ChildRuns
  <2> QED BY <2>1, <2>2, <2>3 DEF DrivenHere
<1> QED BY <1>2, <1>5 DEF OwnRuns, LaunchesTheOperation, NotesHaveAgents

\* The Run whose end is written is the one of the execution that goes.
LEMMA OwnRunsCommit ==
  ASSUME AgentIInv, OwnRuns, NEW a \in Agents, ChildCommits(a)
  PROVE  OwnRuns'
<1>1. /\ child \in [Agents -> Executions] /\ agent \in [Agents -> AgentRecords]
      /\ runStatus \in [ChildRuns -> {None, "running"} \cup Terminal]
      /\ inbox \in [ChildRuns -> {None, "pending", "consumed"}]
  BY DEF AgentIInv, TypeOK
<1>2. RunOf(a) \in ChildRuns /\ RunOf(a)[1] = a /\ RunOf(a)[2] = agent[a].last /\ agent[a].status # "absent"
  <2>1. a \in Handles
    BY DEF ChildCommits, Handles
  <2> QED BY <2>1, ExecutionsAreRuns DEF AgentIInv, RunsAreTheLast
<1>3. UNCHANGED <<operations, recovered, main, call>>
  BY DEF ChildCommits, local
<1>4. \A b \in Agents : b # a => child'[b] = child[b]
  BY <1>1 DEF ChildCommits
<1>5. \A b \in Agents : agent'[b].last = agent[b].last /\ (agent[b].status # "absent" => agent'[b].status # "absent")
  BY <1>1, <1>2 DEF ChildCommits, Idle, AgentRecords
<1>6. Running' = Running \ {RunOf(a)}
  BY <1>1, <1>2 DEF ChildCommits, Running, Terminal
<1>7. \A r \in ChildRuns : inbox'[r] # None => inbox[r] # None \/ r = RunOf(a)
  BY <1>1 DEF ChildCommits
<1>8. DrivenHere'
  <2>1. \A r \in Running' : r \in Running /\ r[1] # a /\ r[1] \in Agents
    BY <1>2, <1>6 DEF AgentIInv, RunsAreTheLast, Running, ChildRuns
  <2>2. \A b \in Handles : b # a => b \in Handles'
    BY <1>4 DEF Handles
  <2> QED BY <1>3, <2>1, <2>2 DEF OwnRuns, DrivenHere
<1>9. LaunchesTheOperation'
  <2>1. call["main"].target \in SUBSET Agents
    BY DEF AgentIInv, TypeOK, OrchestrationCalls, Callers
  <2> QED BY <1>3, <1>5, <2>1 DEF OwnRuns, LaunchesTheOperation
<1>10. NotesHaveAgents'
  BY <1>2, <1>5, <1>7 DEF OwnRuns, NotesHaveAgents, ChildRuns
<1> QED BY <1>8, <1>9, <1>10 DEF OwnRuns

\* Nothing is consumed that was not there.
LEMMA ConsumedBefore ==
  ASSUME UNCHANGED inbox \/ \E rs : Consumed(rs)
  PROVE  \A r \in ChildRuns : inbox'[r] # None => inbox[r] # None
BY DEF Consumed, None

\* Any other step leaves them alone, but for notifications that are consumed.
LEMMA OwnRunsStep ==
  ASSUME AgentIInv, OwnRuns, [Next]_vars
  PROVE  OwnRuns'
<1>1. /\ call \in [Callers -> OrchestrationCalls] /\ child \in [Agents -> Executions]
      /\ agent \in [Agents -> AgentRecords] /\ "main" \in Callers
  BY DEF AgentIInv, TypeOK, Callers
<1>2. CASE UNCHANGED vars
  BY <1>2, OwnRunsFrame DEF vars, journal, local, Handles
<1>3. CASE Calls
  <2>1. ASSUME NEW c \in Callers, NEW op, NEW id, NEW T, NEW w, Begin(c, op, id, T, w) PROVE OwnRuns'
    <3>1. CASE c = "main"
      <4>1. call["main"].at # "launch" /\ call'["main"].at # "launch"
        BY <1>1, <2>1, <3>1 DEF Begin, NoCall, None
      <4> QED BY <2>1, <4>1, OwnRunsFrame DEF Begin, journal, local, Handles
    <3>2. CASE c # "main"
      <4>1. call'["main"] = call["main"]
        BY <1>1, <2>1, <3>2 DEF Begin
      <4> QED BY <2>1, <4>1, OwnRunsFrame DEF Begin, journal, local, Handles
    <3> QED BY <3>1, <3>2
  <2>2. CASE SpawnCheck \/ WaitCheck \/ WaitCollect \/ \E a \in Agents : FollowupCheck(a)
    <3>1. call["main"].at # "launch" /\ call'["main"].at # "launch"
      BY <1>1, <2>2 DEF SpawnCheck, WaitCheck, WaitCollect, FollowupCheck, At, Return, Goto, NoCall, None,
                        OrchestrationCalls
    <3> QED BY <2>2, <3>1, OwnRunsFrame
            DEF SpawnCheck, WaitCheck, WaitCollect, FollowupCheck, journal, local, Handles
  <2>3. ASSUME NEW c \in Callers, NEW a \in Agents, StopCheck(c, a) \/ StopAborts(c, a) PROVE OwnRuns'
    <3>1. call'["main"] = call["main"] \/ (call["main"].at # "launch" /\ call'["main"].at # "launch")
      <4>1. CASE c = "main"
        <5>1. call["main"].at \in {"check", "abort"}
          BY <2>3, <4>1 DEF StopCheck, StopAborts, At
        <5>2. CASE Return("main")
          BY <1>1, <5>1, <5>2 DEF Return, NoCall, None
        <5>3. CASE ~Return("main")
          <6>1. call' = [call EXCEPT !["main"].at = "append", !["main"].runs = {RunOf(a)}]
            BY <2>3, <4>1, <5>3 DEF StopCheck, StopAborts
          <6>2. call["main"] \in OrchestrationCalls
            BY <1>1
          <6> QED BY <1>1, <5>1, <6>1, <6>2 DEF OrchestrationCalls
        <5> QED BY <5>2, <5>3
      <4>2. CASE c # "main"
        <5>1. CASE Return(c)
          BY <1>1, <4>2, <5>1 DEF Return, Callers
        <5>2. CASE ~Return(c)
          <6>1. call' = [call EXCEPT ![c].at = "append", ![c].runs = {RunOf(a)}]
            BY <2>3, <5>2 DEF StopCheck, StopAborts
          <6> QED BY <1>1, <4>2, <6>1 DEF Callers
        <5> QED BY <5>1, <5>2
      <4> QED BY <4>1, <4>2
    <3>2. \A b \in Agents : child'[b].at = child[b].at
      BY <1>1, <2>3 DEF StopCheck, StopAborts, Executions
    <3>3. Handles' = Handles
      BY <3>2 DEF Handles
    <3> QED BY <2>3, <3>1, <3>3, OwnRunsFrame DEF StopCheck, StopAborts, journal, local
  <2>4. ASSUME NEW c \in Callers, NEW a \in Agents, StopAppend(c, a) PROVE OwnRuns'
    <3>1. call'["main"] = call["main"] \/ (call["main"].at # "launch" /\ call'["main"].at # "launch")
      <4>1. CASE c = "main"
        <5>1. call["main"].at = "append" /\ call' = [call EXCEPT !["main"].at = "abort"]
          BY <2>4, <4>1 DEF StopAppend, At, Goto
        <5>2. call["main"] \in OrchestrationCalls
          BY <1>1
        <5> QED BY <1>1, <5>1, <5>2 DEF OrchestrationCalls
      <4>2. CASE c # "main"
        <5>1. call' = [call EXCEPT ![c].at = "abort"]
          BY <2>4 DEF StopAppend, Goto
        <5> QED BY <1>1, <4>2, <5>1 DEF Callers
      <4> QED BY <4>1, <4>2
    <3>2. \A b \in Agents : agent'[b].last = agent[b].last /\ (agent[b].status # "absent" => agent'[b].status # "absent")
      BY <1>1, <2>4 DEF StopAppend, AgentRecords
    <3>3. UNCHANGED <<runStatus, inbox, operations, child, recovered, main>>
      BY <2>4 DEF StopAppend, local
    <3>4. Running' = Running /\ Handles' = Handles
      BY <3>3 DEF Running, Handles
    <3>5. DrivenHere'
      <4>1. recovered => \A r \in Running : r[1] \in Handles \/ call'["main"] = call["main"]
        BY <3>1 DEF OwnRuns, DrivenHere
      <4> QED BY <3>3, <3>4, <4>1 DEF OwnRuns, DrivenHere
    <3>6. LaunchesTheOperation'
      <4>1. call["main"].target \in SUBSET Agents
        BY <1>1 DEF OrchestrationCalls
      <4> QED BY <3>1, <3>2, <3>3, <4>1 DEF OwnRuns, LaunchesTheOperation
    <3>7. NotesHaveAgents'
      BY <3>2, <3>3 DEF OwnRuns, NotesHaveAgents, ChildRuns
    <3> QED BY <3>5, <3>6, <3>7 DEF OwnRuns
  <2>5. CASE WaitConsume
    <3>1. call["main"].at # "launch" /\ call'["main"].at # "launch"
      BY <1>1, <2>5 DEF WaitConsume, At, Return, NoCall, None
    <3>2. /\ UNCHANGED <<agent, runStatus, operations, child, recovered, main>>
          /\ \A r \in ChildRuns : inbox'[r] # None => inbox[r] # None
      BY <2>5 DEF WaitConsume, Consumed, local, None
    <3> QED BY <3>1, <3>2, OwnRunsFrame DEF Handles
  <2> QED BY <1>3, <2>1, <2>2, <2>3, <2>4, <2>5, OwnRunsRecover, OwnRunsAppend, OwnRunsLaunch
          DEF Calls, CallSpawn, CallFollowup, CallStop, CallWait, Callers
<1>4. CASE Children
  <2>1. ASSUME NEW a \in Agents, ChildEnds(a) \/ ChildReads(a) PROVE OwnRuns'
    <3>1. \A b \in Agents : child'[b].at = "off" <=> child[b].at = "off"
      BY <1>1, <2>1 DEF ChildEnds, ChildReads, Executions
    <3>2. Handles' = Handles
      BY <3>1 DEF Handles
    <3> QED BY <2>1, <3>2, OwnRunsFrame DEF ChildEnds, ChildReads, journal, local
  <2> QED BY <1>4, <2>1, OwnRunsCommit DEF Children
<1>5. CASE MainRuns
  <2>1. UNCHANGED <<agent, runStatus, recovered, operations, child, call>>
        /\ (UNCHANGED inbox \/ \E rs : Consumed(rs))
    BY <1>5 DEF MainRuns, UserResumes, StartUserRun, MainEnds, DeliverAgain, DeliverLook, DeliverBegin,
                DeliverConsume, Consumed, journal, local
  <2>2. call["main"].at = "launch" => main'.no = main.no
    <3>1. call["main"].at = "launch" => main.live
      BY CallerLives DEF None
    <3> QED BY <1>5, <3>1 DEF MainRuns, UserResumes, StartUserRun, MainEnds, DeliverAgain, DeliverLook,
                              DeliverBegin, DeliverConsume, Free, AgentIInv, CallsNeedTheRun, NoCall, None
  <2> QED BY <2>1, <2>2, ConsumedBefore, OwnRunsFrame DEF Handles
<1>6. CASE Stops
  <2>1. UNCHANGED <<agent, runStatus, recovered, operations, call>> /\ main'.no = main.no
        /\ (UNCHANGED inbox \/ \E rs : Consumed(rs))
    BY <1>6 DEF Stops, StopAll, Halt, StopMain, StopSettles, StopReads, StopConsumes, Consumed, journal,
                local, AgentIInv, TypeOK
  <2>2. \A b \in Agents : child'[b].at = child[b].at
    BY <1>1, <1>6 DEF Stops, StopAll, Halt, StopMain, StopSettles, StopReads, StopConsumes, Executions
  <2>3. Handles' = Handles
    BY <2>2 DEF Handles
  <2> QED BY <2>1, <2>3, ConsumedBefore, OwnRunsFrame
<1>7. CASE Crash
  <2>1. ~recovered' /\ call'["main"].at # "launch" /\ UNCHANGED <<agent, inbox>>
    BY <1>7 DEF Crash, NoCall, None, Callers, journal
  <2> QED BY <2>1 DEF OwnRuns, DrivenHere, LaunchesTheOperation, NotesHaveAgents
<1> QED BY <1>2, <1>3, <1>4, <1>5, <1>6, <1>7, OwnRunsRecover DEF Next

\* The steps that write no Run and start nothing, while a stop or its quiet goes on.
LEMMA StillFrame ==
  ASSUME AgentIInv, StillSession, Stilled' => Stilled,
         UNCHANGED <<halted, astray, operations>>,
         main'.no = main.no, main'.live => main.live, main'.stopping = main.stopping \/ ~main'.live,
         \A r \in Running' : r \in Running, \A r \in Pending' : r \in Pending,
         \A a \in Handles' : a \in Handles /\ RunOf(a)' = RunOf(a),
         UNCHANGED <<stopper>> \/ stopper.at # "settle",
         \/ ~Starting'
         \/ /\ Starting /\ call'["main"].id = call["main"].id
            /\ ~halted \/ call["main"].at # "preflight" \/ call'["main"].at = "preflight"
  PROVE  StillSession'
<1> SUFFICES ASSUME Stilled'
             PROVE  /\ ~halted' /\ main'.live => main'.stopping
                    /\ Starting' /\ (~halted' \/ call'["main"].at # "preflight")
                         => <<main'.no, call'["main"].id>> = astray'
                    /\ \A r \in Running' : Astray(r)' \/ (stopper'.at = "settle" /\ r \in stopper'.waits)
                    /\ ~halted' => /\ \A a \in Handles' : Astray(RunOf(a))'
                                   /\ \A r \in Pending' : Astray(r)'
  BY DEF StillSession
<1>1. \A r : Astray(r)' <=> Astray(r)
  BY DEF Astray
<1>2. ~halted' /\ main'.live => main'.stopping
  BY DEF StillSession
<1>3. Starting' /\ (~halted' \/ call'["main"].at # "preflight") => <<main'.no, call'["main"].id>> = astray'
  BY DEF StillSession
<1>4. \A r \in Running' : Astray(r)' \/ (stopper'.at = "settle" /\ r \in stopper'.waits)
  BY <1>1 DEF StillSession
<1>5. ~halted' => (\A a \in Handles' : Astray(RunOf(a))') /\ \A r \in Pending' : Astray(r)'
  BY <1>1 DEF StillSession, Astray
<1> QED BY <1>2, <1>3, <1>4, <1>5

\* A Session that a stop has stilled was recovered before.
LEMMA StilledIsRecovered == ASSUME AgentIInv, Stilled PROVE recovered /\ booted
BY DEF AgentIInv, StopsAreKnown, Stilled, None

\* A call of the stopping Main Run cannot begin, and a halted Session lets none pass.
LEMMA StillBegin ==
  ASSUME StillIInv, NEW c \in Callers, NEW op, NEW id, NEW T, NEW w, Begin(c, op, id, T, w)
  PROVE  StillSession'
<1>1. /\ call \in [Callers -> OrchestrationCalls] /\ "main" \in Callers
  BY DEF StillIInv, AgentIInv, TypeOK, Callers
<1>2. UNCHANGED <<agent, runStatus, inbox, operations, halted, child, main, delivery, stopper, quiet, astray>>
  BY DEF Begin, journal, history
<1>3. /\ Stilled' = Stilled /\ Running' = Running /\ Pending' = Pending /\ Handles' = Handles
      /\ \A a : RunOf(a)' = RunOf(a)
      /\ \A r : Astray(r)' = Astray(r)
  BY <1>2 DEF Stilled, Running, Pending, Handles, RunOf, Astray
<1>4. CASE c = "main"
  <2>1. main.live /\ ~main.stopping /\ call'["main"].at = "preflight"
    BY <1>1, <1>4 DEF Begin
  <2> QED BY <1>2, <1>3, <2>1 DEF StillIInv, StillSession, Astray
<1>5. CASE c # "main"
  <2>1. call'["main"] = call["main"]
    BY <1>1, <1>5 DEF Begin
  <2> QED BY <1>2, <1>3, <2>1 DEF StillIInv, StillSession, Starting, Astray
<1> QED BY <1>4, <1>5

LEMMA StillPreflight ==
  ASSUME StillIInv, NEW c \in Callers, Preflight(c)
  PROVE  StillSession'
<1>1. /\ call \in [Callers -> OrchestrationCalls] /\ "main" \in Callers
  BY DEF StillIInv, AgentIInv, TypeOK, Callers
<1>2. UNCHANGED <<child, main, delivery, stopper, quiet, astray, halted>>
  BY DEF Preflight, history, RecoveryCommit, journal
<1>3. Stilled' => Stilled
  BY <1>2 DEF Stilled
<1>4. CASE Stilled
  <2>1. UNCHANGED journal
    BY <1>4, StilledIsRecovered DEF Preflight, Recovers, StillIInv
  <2>2. Running' = Running /\ Pending' = Pending /\ Handles' = Handles /\ \A a : RunOf(a)' = RunOf(a)
    BY <1>2, <2>1 DEF journal, Running, Pending, Handles, RunOf
  <2>3. \/ ~Starting'
        \/ /\ Starting /\ call'["main"].id = call["main"].id
           /\ ~halted \/ call["main"].at # "preflight" \/ call'["main"].at = "preflight"
    <3>1. CASE Return(c)
      BY <1>1, <3>1 DEF Return, Starting, NoCall, None, Callers
    <3>2. CASE ~Return(c)
      <4>1. ~halted /\ call' = [call EXCEPT ![c].at = "check"]
        BY <3>2 DEF Preflight, Goto
      <4>2. call["main"] \in OrchestrationCalls
        BY <1>1
      <4>3. call'["main"].op = call["main"].op /\ call'["main"].id = call["main"].id
        BY <1>1, <4>1, <4>2 DEF OrchestrationCalls, Callers
      <4> QED BY <4>1, <4>3 DEF Starting
    <3> QED BY <3>1, <3>2
  <2>4. UNCHANGED operations
    BY <2>1 DEF journal
  <2> QED BY <1>2, <1>3, <2>2, <2>3, <2>4, StillFrame DEF StillIInv
<1> QED BY <1>3, <1>4 DEF StillSession

\* The checks keep what a start is, and everything else is not a start.
LEMMA StillChecks ==
  ASSUME StillIInv,
         \/ SpawnCheck \/ WaitCheck \/ WaitCollect \/ WaitConsume
         \/ \E a \in Agents : FollowupCheck(a)
         \/ \E c \in Callers, a \in Agents : StopCheck(c, a) \/ StopAppend(c, a) \/ StopAborts(c, a)
  PROVE  StillSession'
<1>1. /\ call \in [Callers -> OrchestrationCalls] /\ "main" \in Callers
      /\ child \in [Agents -> Executions]
  BY DEF StillIInv, AgentIInv, TypeOK, Callers
<1>2. /\ UNCHANGED <<runStatus, operations, halted, main, stopper, quiet, astray>>
      /\ UNCHANGED inbox \/ \E rs : Consumed(rs)
  BY DEF SpawnCheck, WaitCheck, WaitCollect, WaitConsume, FollowupCheck, StopCheck, StopAppend, StopAborts,
         journal, history, Consumed
<1>3. \A b \in Agents : child'[b].at = child[b].at /\ child'[b].n = child[b].n
  <2>1. CASE UNCHANGED child
    BY <2>1
  <2>2. ASSUME NEW c \in Callers, NEW a \in Agents, StopAborts(c, a)
        PROVE  \A b \in Agents : child'[b].at = child[b].at /\ child'[b].n = child[b].n
    <3> DEFINE cut == child[a].aborted \/ (child[a].at # "off" /\ RunOf(a) \in call[c].runs)
    <3>1. child' = [child EXCEPT ![a].aborted = cut]
      BY <1>1, <2>2 DEF StopAborts
    <3> HIDE DEF cut
    <3> QED BY <1>1, <3>1 DEF Executions
  <2> QED BY <2>1, <2>2 DEF SpawnCheck, WaitCheck, WaitCollect, WaitConsume, FollowupCheck, StopCheck, StopAppend
<1>4. Running' = Running /\ Pending' \subseteq Pending /\ Handles' = Handles
      /\ \A a \in Agents : RunOf(a)' = RunOf(a)
  BY <1>2, <1>3 DEF Running, Pending, Handles, RunOf, Consumed
<1>5. Stilled' => Stilled
  BY <1>2 DEF Stilled
<1>6. \/ ~Starting'
      \/ /\ Starting /\ call'["main"].id = call["main"].id
         /\ ~halted \/ call["main"].at # "preflight" \/ call'["main"].at = "preflight"
  <2>1. CASE Return("main")
    BY <1>1, <2>1 DEF Return, Starting, NoCall, None
  <2>2. CASE ~Return("main") /\ (SpawnCheck \/ \E a \in Agents : FollowupCheck(a))
    <3>1. /\ call["main"].op \in {"spawn", "followup"} /\ call["main"].at = "check"
          /\ \/ call' = [call EXCEPT !["main"].at = "append"]
             \/ \E T : call' = [call EXCEPT !["main"].at = "append", !["main"].target = T]
      BY <2>2 DEF SpawnCheck, FollowupCheck, At, Goto
    <3>2. call["main"] \in OrchestrationCalls
      BY <1>1
    <3> QED BY <1>1, <3>1, <3>2 DEF OrchestrationCalls, Starting
  <2>3. CASE ~Return("main") /\ (WaitCheck \/ WaitCollect \/ WaitConsume)
    <3>1. /\ call["main"].op = "wait"
          /\ \E R, at : call' = [call EXCEPT !["main"].at = at, !["main"].runs = R]
      BY <2>3 DEF WaitCheck, WaitCollect, WaitConsume, At
    <3>2. call["main"] \in OrchestrationCalls
      BY <1>1
    <3> QED BY <1>1, <3>1, <3>2 DEF OrchestrationCalls, Starting
  <2>4. ASSUME NEW c \in Callers, NEW a \in Agents, StopCheck(c, a) \/ StopAppend(c, a) \/ StopAborts(c, a)
        PROVE  ~Starting' \/ call'["main"] = call["main"]
    <3>1. /\ call[c].op = "stop"
          /\ \/ call' = [call EXCEPT ![c] = NoCall]
             \/ call' = [call EXCEPT ![c].at = "append", ![c].runs = {RunOf(a)}]
             \/ call' = [call EXCEPT ![c].at = "abort"]
      BY <2>4 DEF StopCheck, StopAppend, StopAborts, At, Return, Goto
    <3>2. call[c] \in OrchestrationCalls
      BY <1>1
    <3>3. call'[c].op \in {"stop", None}
      BY <1>1, <3>1, <3>2 DEF OrchestrationCalls, NoCall, None
    <3>4. c # "main" => call'["main"] = call["main"]
      BY <1>1, <3>1 DEF Callers
    <3> QED BY <3>3, <3>4 DEF Starting, None
  <2>5. call'["main"] = call["main"] => Starting' = Starting /\ call'["main"].at = call["main"].at
    BY DEF Starting
  <2> QED BY <2>1, <2>2, <2>3, <2>4, <2>5
<1> QED BY <1>2, <1>4, <1>5, <1>6, StillFrame DEF StillIInv, Handles

\* The Run that is appended is the one of the operation in flight.
LEMMA StillAppend ==
  ASSUME StillIInv, NEW a \in Agents, AppendRun(a)
  PROVE  StillSession'
<1>0. PICK n : n = agent[a].last + 1
  OBVIOUS
<1>1. /\ call \in [Callers -> OrchestrationCalls] /\ "main" \in Callers
      /\ runStatus \in [ChildRuns -> {None, "running"} \cup Terminal]
  BY DEF StillIInv, AgentIInv, TypeOK, Callers
<1>2. /\ Starting /\ call["main"].at = "append"
      /\ UNCHANGED <<inbox, child, main, halted, stopper, quiet, astray>>
      /\ operations' = {o \in operations : <<o[1], o[2]>> # <<main.no, call["main"].id>>}
                         \cup {<<main.no, call["main"].id, <<a, n>> >>}
      /\ runStatus' = [runStatus EXCEPT ![<<a, n>>] = "running"]
      /\ call' = [call EXCEPT !["main"].at = "launch"]
  BY <1>0 DEF AppendRun, At, Starting, Started, Goto, history
<1>3. call'["main"].op = call["main"].op /\ call'["main"].id = call["main"].id
      /\ call'["main"].at = "launch"
  BY <1>1, <1>2 DEF OrchestrationCalls
<1>4. operations \subseteq operations'
  <2>1. \A o \in operations : <<o[1], o[2]>> # <<main.no, call["main"].id>>
    BY <1>2 DEF StillIInv, AgentIInv, StartsAreClear, Replayed
  <2> QED BY <1>2, <2>1
<1>5. Running' \subseteq Running \cup {<<a, n>>}
  BY <1>1, <1>2 DEF Running
<1>6. Stilled' = Stilled /\ Pending' = Pending /\ Handles' = Handles /\ Starting'
      /\ \A b : RunOf(b)' = RunOf(b)
  BY <1>2, <1>3 DEF Stilled, Pending, Handles, RunOf, Starting
<1>7. \A r : Astray(r) => Astray(r)'
  BY <1>2, <1>4 DEF Astray
<1> SUFFICES ASSUME Stilled PROVE StillSession'
  BY <1>6 DEF StillSession
<1>8. <<main.no, call["main"].id>> = astray
  BY <1>2 DEF StillIInv, StillSession
<1>9. Astray(<<a, n>>)'
  BY <1>2, <1>8 DEF Astray
<1>10. \A r \in Running' : Astray(r)' \/ (stopper'.at = "settle" /\ r \in stopper'.waits)
  BY <1>2, <1>5, <1>7, <1>9 DEF StillIInv, StillSession
<1>11. ~halted' => (\A b \in Handles' : Astray(RunOf(b))') /\ \A r \in Pending' : Astray(r)'
  BY <1>2, <1>4, <1>6 DEF StillIInv, StillSession, Astray
<1>12. ~halted' /\ main'.live => main'.stopping
  BY <1>2 DEF StillIInv, StillSession
<1>13. <<main'.no, call'["main"].id>> = astray'
  BY <1>2, <1>3, <1>8
<1> QED BY <1>10, <1>11, <1>12, <1>13 DEF StillSession

\* It is launched as such, too.
LEMMA StillLaunch ==
  ASSUME StillIInv, NEW a \in Agents, Launch(a)
  PROVE  StillSession'
<1>1. /\ call \in [Callers -> OrchestrationCalls] /\ "main" \in Callers
      /\ child \in [Agents -> Executions]
  BY DEF StillIInv, AgentIInv, TypeOK, Callers
<1>2. /\ call["main"].at = "launch" /\ a \in call["main"].target
      /\ UNCHANGED <<runStatus, inbox, operations, main, halted, stopper, quiet, astray>>
      /\ call' = [call EXCEPT !["main"] = NoCall]
      /\ child' = [child EXCEPT ![a] = [NoChild EXCEPT !.at = "run", !.n = agent[a].last]]
  BY DEF Launch, Return, journal, history
<1>3. ~Starting'
  BY <1>1, <1>2 DEF Starting, NoCall, None
<1>4. /\ RunOf(a)' = <<a, agent[a].last>>
      /\ \A b \in Agents : b # a => child'[b] = child[b]
  BY <1>1, <1>2 DEF RunOf, NoChild
<1>5. \A b \in Handles' : b \in Agents /\ (b = a \/ (b \in Handles /\ RunOf(b)' = RunOf(b)))
  BY <1>4 DEF Handles, RunOf
<1>6. Stilled' = Stilled /\ Running' = Running /\ Pending' = Pending /\ \A r : Astray(r)' = Astray(r)
  BY <1>2 DEF Stilled, Running, Pending, Astray
<1> SUFFICES ASSUME Stilled PROVE StillSession'
  BY <1>6 DEF StillSession
<1>7. Astray(<<a, agent[a].last>>)
  <2>1. Starting
    BY <1>2 DEF StillIInv, AgentIInv, StartsAreClear
  <2>2. <<main.no, call["main"].id>> = astray
    BY <1>2, <2>1 DEF StillIInv, StillSession
  <2>3. <<main.no, call["main"].id, <<a, agent[a].last>> >> \in operations
    BY <1>2 DEF StillIInv, OwnRuns, LaunchesTheOperation
  <2> QED BY <2>2, <2>3 DEF Astray
<1>8. ~halted' => \A b \in Handles' : Astray(RunOf(b))'
  BY <1>2, <1>4, <1>5, <1>6, <1>7 DEF StillIInv, StillSession, Astray
<1> QED BY <1>2, <1>3, <1>6, <1>8 DEF StillIInv, StillSession

\* A child that ends leaves a notification of its own Run.
LEMMA StillChildren ==
  ASSUME StillIInv, NEW a \in Agents, ChildEnds(a) \/ ChildReads(a) \/ ChildCommits(a)
  PROVE  StillSession'
<1>1. /\ child \in [Agents -> Executions]
      /\ runStatus \in [ChildRuns -> {None, "running"} \cup Terminal]
      /\ inbox \in [ChildRuns -> {None, "pending", "consumed"}]
  BY DEF StillIInv, AgentIInv, TypeOK
<1>2. UNCHANGED <<operations, main, call, halted, stopper, quiet, astray>>
  BY DEF ChildEnds, ChildReads, ChildCommits, journal, history
<1>3. CASE ChildEnds(a) \/ ChildReads(a)
  <2>1. UNCHANGED <<runStatus, inbox>>
    BY <1>3 DEF ChildEnds, ChildReads, journal
  <2>2. \A b \in Agents : child'[b].n = child[b].n /\ (child'[b].at = "off" <=> child[b].at = "off")
    BY <1>1, <1>3 DEF ChildEnds, ChildReads, Executions
  <2>3. Running' = Running /\ Pending' = Pending /\ Handles' = Handles
        /\ (\A b \in Agents : RunOf(b)' = RunOf(b)) /\ Starting' = Starting /\ Stilled' = Stilled
    BY <1>2, <2>1, <2>2 DEF Running, Pending, Handles, RunOf, Starting, Stilled
  <2> QED BY <1>2, <2>3, StillFrame DEF StillIInv, Handles
<1>4. CASE ChildCommits(a)
  <2>1. a \in Handles /\ RunOf(a) \in ChildRuns
    <3>1. a \in Handles
      BY <1>4 DEF ChildCommits, Handles
    <3> QED BY <3>1, ExecutionsAreRuns DEF StillIInv
  <2>2. /\ Running' \subseteq Running /\ Pending' \subseteq Pending \cup {RunOf(a)}
        /\ child' = [child EXCEPT ![a] = NoChild]
    BY <1>1, <1>4, <2>1 DEF ChildCommits, Running, Pending, Terminal
  <2>3. \A b \in Handles' : b \in Handles /\ RunOf(b)' = RunOf(b)
    BY <1>1, <2>2 DEF Handles, RunOf, NoChild
  <2>4. Stilled' = Stilled /\ Starting' = Starting /\ \A r : Astray(r)' = Astray(r)
    BY <1>2 DEF Stilled, Starting, Astray
  <2>5. Stilled /\ ~halted => Astray(RunOf(a))
    BY <2>1 DEF StillIInv, StillSession
  <2>6. Stilled /\ ~halted => \A b \in Handles' : Astray(RunOf(b))'
    BY <1>2, <2>3 DEF StillIInv, StillSession, Astray
  <2> QED BY <1>2, <2>2, <2>4, <2>5, <2>6 DEF StillIInv, StillSession
<1> QED BY <1>3, <1>4

\* A Run starts only where the halt holds its calls back, or ends what was still.
LEMMA StillMain ==
  ASSUME StillIInv, MainRuns
  PROVE  StillSession'
<1>1. main \in [no : 0 .. MaxMains, live : BOOLEAN, stopping : BOOLEAN]
  BY DEF StillIInv, AgentIInv, TypeOK
<1>2. /\ UNCHANGED <<runStatus, operations, child, call, astray>>
      /\ UNCHANGED inbox \/ \E rs : Consumed(rs)
  BY DEF MainRuns, UserResumes, StartUserRun, MainEnds, DeliverAgain, DeliverLook, DeliverBegin,
         DeliverConsume, Consumed, journal, history
<1>3. /\ Running' = Running /\ Pending' \subseteq Pending /\ Handles' = Handles
      /\ (\A b : RunOf(b)' = RunOf(b)) /\ Starting' = Starting /\ \A r : Astray(r)' = Astray(r)
  BY <1>2 DEF Running, Pending, Handles, RunOf, Starting, Astray, Consumed
<1>4. CASE UserResumes
  <2>1. halted /\ ~halted' /\ ~quiet' /\ UNCHANGED stopper
    BY <1>4 DEF UserResumes
  <2>2. ~Stilled'
    BY <2>1 DEF StillIInv, AgentIInv, StopsAreKnown, Stilled
  <2> QED BY <2>2 DEF StillSession
<1>5. CASE StartUserRun \/ DeliverBegin
  <2>1. StartsAfterStop /\ UNCHANGED halted /\ call["main"] = NoCall
    BY <1>5 DEF StartUserRun, DeliverBegin, Free, journal, StillIInv, AgentIInv, CallsNeedTheRun
  <2>2. stopper' = [stopper EXCEPT !.bare = FALSE]
        /\ stopper \in [at : {None, "halt", "main", "collect", "settle", "read", "consume"},
                        waits : SUBSET ChildRuns, calm : BOOLEAN, bare : BOOLEAN]
    BY <2>1 DEF StartsAfterStop, StillIInv, AgentIInv, TypeOK
  <2>3. stopper'.at = stopper.at /\ stopper'.waits = stopper.waits /\ stopper'.calm = stopper.calm
        /\ ~stopper'.bare
    BY <2>2
  <2>4. Stilled' => Stilled /\ halted
    BY <2>1, <2>3 DEF Stilled, StartsAfterStop
  <2>5. ~Starting
    BY <2>1 DEF Starting, NoCall, None
  <2> QED BY <1>2, <1>3, <2>1, <2>3, <2>4, <2>5 DEF StillIInv, StillSession, Astray
<1>6. CASE MainEnds \/ DeliverAgain \/ DeliverLook \/ DeliverConsume
  <2>1. UNCHANGED <<halted, quiet, stopper>>
    BY <1>6 DEF MainEnds, DeliverAgain, DeliverLook, DeliverConsume, Consumed, journal, history
  <2>2. main'.no = main.no /\ (main'.live => main.live) /\ (main'.stopping = main.stopping \/ ~main'.live)
    BY <1>1, <1>6 DEF MainEnds, DeliverAgain, DeliverLook, DeliverConsume
  <2> QED BY <1>2, <1>3, <2>1, <2>2, StillFrame DEF StillIInv, Stilled, Starting
<1> QED BY <1>4, <1>5, <1>6 DEF MainRuns

\* What runs when the handles are collected is among them or the operation in flight,
\* and a Session without agents.jsonl has neither Runs nor notifications.
LEMMA StillHalt ==
  ASSUME StillIInv, Halt
  PROVE  StillSession'
<1>1. /\ UNCHANGED <<agent, runStatus, inbox, operations, recovered, main, call, quiet>>
      /\ halted' = TreeExists /\ stopper.at \in {"halt", "collect"}
      /\ stopper \in [at : {None, "halt", "main", "collect", "settle", "read", "consume"},
                      waits : SUBSET ChildRuns, calm : BOOLEAN, bare : BOOLEAN]
  BY DEF Halt, local, StillIInv, AgentIInv, TypeOK
<1>2. ~quiet'
  BY <1>1 DEF StillIInv, AgentIInv, StopsAreKnown, None
<1>3. CASE stopper.at = "halt"
  <2>1. stopper'.at = "main"
    BY <1>1, <1>3 DEF Halt
  <2> QED BY <1>2, <2>1 DEF StillSession, Stilled
<1>4. CASE stopper.at = "collect"
  <2> DEFINE bare == ~TreeExists /\ (main.live => main.stopping)
  <2>1. /\ stopper' = [stopper EXCEPT !.at = "settle", !.waits = {RunOf(a) : a \in Handles}, !.bare = bare]
        /\ astray' = IF Starting THEN <<main.no, call["main"].id>> ELSE <<0, None>>
    BY <1>4 DEF Halt
  <2>2. /\ stopper'.at = "settle" /\ stopper'.waits = {RunOf(a) : a \in Handles}
        /\ stopper'.bare => bare
        /\ stopper'.calm => stopper.calm
    BY <1>1, <2>1
  <2> SUFFICES ASSUME Stilled' PROVE StillSession'
    BY DEF StillSession
  <2>3. recovered /\ (halted' \/ bare)
    BY <1>2, <1>4, <2>2 DEF Stilled, StillIInv, AgentIInv, StopsAreKnown, None
  <2>4. Starting' = Starting /\ Running' = Running /\ Pending' = Pending
    BY <1>1 DEF Starting, Running, Pending
  <2>5. ASSUME NEW r \in Running
        PROVE  Astray(r)' \/ r \in {RunOf(a) : a \in Handles}
    <3>1. r \in ChildRuns /\ r[1] \in Agents /\ r[2] = agent[r[1]].last /\ r = <<r[1], r[2]>>
      BY DEF StillIInv, AgentIInv, RunsAreTheLast, Running, ChildRuns
    <3>2. CASE r[1] \in Handles
      <4>1. RunOf(r[1]) = r
        BY <3>1, <3>2 DEF StillIInv, AgentIInv, RunsAreTheLast, RunOf
      <4> QED BY <3>2, <4>1
    <3>3. CASE r[1] \notin Handles
      <4>1. call["main"].at = "launch" /\ r[1] \in call["main"].target
        BY <2>3, <3>3 DEF StillIInv, OwnRuns, DrivenHere
      <4>2. Starting /\ <<main.no, call["main"].id, r>> \in operations
        BY <3>1, <4>1 DEF StillIInv, OwnRuns, LaunchesTheOperation, AgentIInv, StartsAreClear
      <4> QED BY <1>1, <2>1, <4>2 DEF Astray
    <3> QED BY <3>2, <3>3
  <2>6. ~halted' => Handles' = {} /\ Pending = {}
    <3>1. ~halted' => \A a \in Agents : agent[a].status = "absent"
      BY <1>1 DEF TreeExists
    <3>2. \A a \in Handles : a \in Agents /\ agent[a].status # "absent"
      BY DEF StillIInv, AgentIInv, RunsAreTheLast, Handles
    <3>3. \A r \in Pending : r[1] \in Agents /\ agent[r[1]].status # "absent"
      BY DEF StillIInv, OwnRuns, NotesHaveAgents, Pending, None, ChildRuns
    <3>4. \A a \in Agents : child'[a].at = child[a].at
      <4>1. child \in [Agents -> Executions]
        BY DEF StillIInv, AgentIInv, TypeOK
      <4> QED BY <1>4, <4>1 DEF Halt, Executions
    <3> QED BY <3>1, <3>2, <3>3, <3>4 DEF Handles
  <2>7. ~halted' /\ main'.live => main'.stopping
    BY <1>1, <2>3
  <2>8. Starting' => <<main'.no, call'["main"].id>> = astray'
    BY <1>1, <2>1, <2>4
  <2> QED BY <2>2, <2>4, <2>5, <2>6, <2>7, <2>8 DEF StillSession
<1> QED BY <1>1, <1>3, <1>4

\* What a stop has waited for runs no more, in the journal either.
LEMMA StillStops ==
  ASSUME StillIInv, Stops
  PROVE  StillSession'
<1>1. /\ stopper \in [at : {None, "halt", "main", "collect", "settle", "read", "consume"},
                      waits : SUBSET ChildRuns, calm : BOOLEAN, bare : BOOLEAN]
      /\ main \in [no : 0 .. MaxMains, live : BOOLEAN, stopping : BOOLEAN]
      /\ stopper.at # None => ~quiet
  BY DEF StillIInv, AgentIInv, TypeOK, StopsAreKnown
<1>2. CASE StopAll
  <2>1. ~quiet' /\ stopper'.at = "halt"
    BY <1>2 DEF StopAll, NoStop
  <2> QED BY <2>1 DEF StillSession, Stilled
<1>3. CASE StopMain
  <2>1. ~quiet' /\ stopper'.at = "collect"
    BY <1>1, <1>3 DEF StopMain, history, None
  <2> QED BY <2>1 DEF StillSession, Stilled
<1>4. ASSUME StopSettles \/ StopReads \/ StopConsumes
      PROVE  /\ UNCHANGED <<runStatus, operations, child, main, call, halted, astray>>
             /\ UNCHANGED inbox \/ Consumed(stopper.waits)
  BY <1>4 DEF StopSettles, StopReads, StopConsumes, Consumed, journal, history
<1>5. ASSUME StopSettles \/ StopReads \/ StopConsumes
      PROVE  /\ Running' = Running /\ Pending' \subseteq Pending /\ Handles' = Handles
             /\ (\A b : RunOf(b)' = RunOf(b)) /\ Starting' = Starting
             /\ \A r : Astray(r)' = Astray(r)
  BY <1>4, <1>5 DEF Running, Pending, Handles, RunOf, Starting, Astray, Consumed
<1>6. CASE StopSettles
  <2>1. stopper.at = "settle" /\ stopper' = [stopper EXCEPT !.at = "read"] /\ UNCHANGED quiet
    BY <1>6 DEF StopSettles, history
  <2>2. stopper'.at = "read" /\ stopper'.calm = stopper.calm /\ stopper'.bare = stopper.bare
    BY <1>1, <2>1
  <2>3. Stilled' => Stilled
    BY <1>4, <1>6, <2>1, <2>2 DEF Stilled
  <2> SUFFICES ASSUME Stilled PROVE StillSession'
    BY <2>3 DEF StillSession
  <2>4. ASSUME NEW r \in Running PROVE Astray(r)
    <3>1. r \in ChildRuns /\ r[1] \in Agents /\ r[2] = agent[r[1]].last /\ r = <<r[1], r[2]>>
      BY DEF StillIInv, AgentIInv, RunsAreTheLast, Running, ChildRuns
    <3>2. CASE r[1] \in Handles
      <4>1. RunOf(r[1]) = r
        BY <3>1, <3>2 DEF StillIInv, AgentIInv, RunsAreTheLast, RunOf
      <4>2. r \notin stopper.waits
        BY <1>6, <3>2, <4>1 DEF StopSettles
      <4> QED BY <4>2 DEF StillIInv, StillSession
    <3>3. CASE r[1] \notin Handles
      <4>1. call["main"].at = "launch" /\ r[1] \in call["main"].target
        BY <3>3, StilledIsRecovered DEF StillIInv, OwnRuns, DrivenHere
      <4>2. Starting /\ <<main.no, call["main"].id, r>> \in operations
        BY <3>1, <4>1 DEF StillIInv, OwnRuns, LaunchesTheOperation, AgentIInv, StartsAreClear
      <4>3. <<main.no, call["main"].id>> = astray
        BY <4>1, <4>2 DEF StillIInv, StillSession
      <4> QED BY <4>2, <4>3 DEF Astray
    <3> QED BY <3>2, <3>3
  <2> QED BY <1>4, <1>5, <1>6, <2>2, <2>4 DEF StillIInv, StillSession, Astray
<1>7. CASE StopReads
  <2>1. stopper.at = "read" /\ stopper' = [stopper EXCEPT !.at = "consume", !.waits = Pending]
        /\ UNCHANGED quiet
    BY <1>7 DEF StopReads, history
  <2>2. stopper'.at = "consume" /\ stopper'.calm = stopper.calm /\ stopper'.bare = stopper.bare
    BY <1>1, <2>1
  <2>3. Stilled' => Stilled
    BY <1>4, <1>7, <2>1, <2>2 DEF Stilled
  <2> QED BY <1>4, <1>5, <1>7, <2>1, <2>3, StillFrame DEF StillIInv, Starting
<1>8. CASE StopConsumes
  <2>1. stopper.at = "consume" /\ stopper' = NoStop
        /\ quiet' = (stopper.calm /\ (halted \/ stopper.bare))
    BY <1>8 DEF StopConsumes
  <2>2. Stilled' => Stilled
    BY <2>1 DEF Stilled, NoStop, None
  <2> QED BY <1>4, <1>5, <1>8, <2>1, <2>2, StillFrame DEF StillIInv, Starting
<1> QED BY <1>2, <1>3, <1>6, <1>7, <1>8, StillHalt DEF Stops

LEMMA StillInit == Init => StillIInv
<1> SUFFICES ASSUME Init PROVE StillIInv
  OBVIOUS
<1>1. OwnRuns
  <2>1. Running = {} /\ call["main"].at # "launch"
    BY DEF Init, Running, NoCall, None, Callers
  <2> QED BY <2>1 DEF Init, OwnRuns, DrivenHere, LaunchesTheOperation, NotesHaveAgents
<1>2. ~Stilled
  BY DEF Init, Stilled, NoStop, None
<1> QED BY <1>1, <1>2, AgentInit DEF StillIInv, StillSession

LEMMA StillStep == StillIInv /\ [Next]_vars => StillIInv'
<1> SUFFICES ASSUME StillIInv, [Next]_vars PROVE StillIInv'
  OBVIOUS
<1>1. AgentIInv' /\ OwnRuns'
  BY AgentStep, OwnRunsStep DEF StillIInv
<1>2. StillSession'
  <2>1. CASE UNCHANGED vars
    BY <2>1 DEF vars, journal, history, StillIInv, StillSession, Stilled, Starting, Running, Pending,
                Handles, RunOf, Astray
  <2>2. CASE Calls
    BY <2>2, StillBegin, StillPreflight, StillChecks, StillAppend, StillLaunch
       DEF Calls, CallSpawn, CallFollowup, CallStop, CallWait, Callers
  <2>3. CASE Children
    BY <2>3, StillChildren DEF Children
  <2>4. CASE Crash
    <3>1. ~quiet' /\ stopper'.at = None
      BY <2>4 DEF Crash, NoStop
    <3> QED BY <3>1 DEF StillSession, Stilled, None
  <2>5. CASE Boot \/ List
    <3>1. UNCHANGED <<quiet, stopper, halted>> /\ ~(recovered /\ booted)
      BY <2>5 DEF Boot, List, history, RecoveryCommit, journal
    <3>2. Stilled' => Stilled
      BY <3>1 DEF Stilled
    <3> QED BY <3>1, <3>2, StilledIsRecovered DEF StillIInv, StillSession
  <2> QED BY <2>1, <2>2, <2>3, <2>4, <2>5, StillMain, StillStops DEF Next
<1> QED BY <1>1, <1>2 DEF StillIInv

\* What the parts of the invariant say of the properties.
LEMMA OneRunFollows == AgentIInv => OneRunPerAgent
<1> SUFFICES ASSUME AgentIInv, NEW a \in Agents
             PROVE  /\ Cardinality({r \in Running : r[1] = a}) <= 1
                    /\ a \in Handles => child[a].n = agent[a].last
  BY DEF OneRunPerAgent
<1> DEFINE mine == {r \in Running : r[1] = a}
<1>1. mine \subseteq {<<a, agent[a].last>>}
  BY DEF AgentIInv, RunsAreTheLast, Running, ChildRuns
<1>2. Cardinality(mine) <= 1
  <2>1. IsFiniteSet({<<a, agent[a].last>>}) /\ Cardinality({<<a, agent[a].last>>}) = 1
    BY FS_Singleton
  <2> QED BY <1>1, <2>1, FS_Subset
<1> QED BY <1>2 DEF AgentIInv, RunsAreTheLast

\* Every variable has its type.
THEOREM AgentTypeCorrect == Spec => []TypeOK
<1>1. AgentIInv => TypeOK
  BY DEF AgentIInv
<1> QED BY <1>1, AgentInit, AgentStep, PTL DEF Spec

\* An Agent never has two running Runs, and its execution is of its last one, however
\* spawns, follow-ups, stops, ends and recoveries cross.
THEOREM EachAgentRunsOnce == Spec => []OneRunPerAgent
BY OneRunFollows, AgentInit, AgentStep, PTL DEF Spec

\* After a stop_all, until something starts again, only the spawn or followup that was in
\* flight when the handles were collected still runs a child, and nothing waits to wake
\* a halted Session; one that had no agents.jsonl is woken by that child alone.
THEOREM StoppedSessionsStayQuiet == Spec => []QuietAfterStop
<1>1. StillIInv => QuietAfterStop
  <2> SUFFICES ASSUME StillIInv, quiet PROVE QuietAfterStop
    BY DEF QuietAfterStop
  <2>1. Stilled /\ stopper.at = None
    BY DEF Stilled, StillIInv, AgentIInv, StopsAreKnown
  <2>2. \A r \in Running : Astray(r)
    BY <2>1 DEF StillIInv, StillSession, None
  <2>3. \A r \in Pending : Astray(r) /\ ~halted
    BY <2>1 DEF StillIInv, StillSession, AgentIInv, StopQuietens
  <2> QED BY <2>2, <2>3 DEF QuietAfterStop
<1> QED BY <1>1, StillInit, StillStep, PTL DEF Spec

\* A notification becomes the origin of at most one Main Run, and leaves the inbox only
\* as such an origin, as the answer of a wait or by a stop.
THEOREM NotificationsAreDeliveredOnce == Spec => DeliveredOnce
<1> DEFINE Once == \A r \in ChildRuns :
                     /\ origin'[r] # origin[r] => origin[r] = {} /\ r \notin told
                     /\ inbox'[r] = "consumed" /\ inbox[r] # "consumed"
                          => origin'[r] # {} \/ r \in (told \cup dropped)'
<1>1. AgentIInv /\ [Next]_vars => [Once]_vars
  <2> SUFFICES ASSUME AgentIInv, Next PROVE Once
    BY DEF vars
  <2>1. CASE UNCHANGED <<inbox, origin>>
    BY <2>1
  <2>2. CASE WaitConsume
    <3>1. UNCHANGED <<origin, dropped>> /\ told' = told \cup (call["main"].runs \cap Pending)
      BY <2>2 DEF WaitConsume, ledger
    <3> QED BY <2>2, <3>1, Consuming DEF WaitConsume
  <2>3. CASE StopConsumes
    <3>1. UNCHANGED <<origin, told>> /\ dropped' = dropped \cup (stopper.waits \cap Pending)
      BY <2>3 DEF StopConsumes, ledger
    <3> QED BY <2>3, <3>1, Consuming DEF StopConsumes
  <2>4. CASE DeliverAgain
    <3>1. UNCHANGED origin /\ \A r \in Delivered : origin[r] # {}
      BY <2>4 DEF DeliverAgain, ledger, Delivered
    <3> QED BY <2>4, <3>1, Consuming DEF DeliverAgain
  <2>5. CASE DeliverConsume
    <3>1. UNCHANGED origin /\ \A r \in delivery.batch : origin[r] # {}
      BY <2>5 DEF DeliverConsume, ledger, AgentIInv, DeliveriesAreFresh
    <3> QED BY <2>5, <3>1, Consuming DEF DeliverConsume
  <2>6. CASE DeliverBegin
    <3>1. \A r \in delivery.batch : origin[r] = {} /\ r \notin told
      BY <2>6 DEF DeliverBegin, AgentIInv, DeliveriesAreFresh
    <3>2. UNCHANGED inbox
      BY <2>6 DEF DeliverBegin, journal
    <3>3. \A r \in ChildRuns : origin'[r] # origin[r] => r \in delivery.batch
      BY <2>6 DEF DeliverBegin
    <3> QED BY <3>1, <3>2, <3>3
  <2>7. CASE Boot \/ List \/ \E c \in Callers : Preflight(c)
    <3>1. UNCHANGED origin /\ (RecoveryCommit \/ UNCHANGED journal)
      BY <2>7 DEF Boot, List, Preflight, ledger
    <3>2. \A r \in ChildRuns : inbox'[r] = "consumed" => inbox[r] = "consumed"
      BY <3>1 DEF RecoveryCommit, journal, AgentIInv, TypeOK
    <3> QED BY <3>1, <3>2
  <2>8. ASSUME NEW a \in Agents, ChildCommits(a) PROVE Once
    <3>1. UNCHANGED origin /\ inbox \in [ChildRuns -> {None, "pending", "consumed"}]
      BY <2>8 DEF ChildCommits, ledger, AgentIInv, TypeOK
    <3>2. \A r \in ChildRuns : inbox'[r] \in {inbox[r], "pending"}
      BY <2>8, <3>1 DEF ChildCommits
    <3> QED BY <3>1, <3>2
  <2>9. CASE Calls
    <3>1. \/ UNCHANGED <<inbox, origin>> \/ WaitConsume \/ \E c \in Callers : Preflight(c)
      BY <2>9 DEF Calls, CallSpawn, CallFollowup, CallStop, CallWait, Begin, StopCheck, StopAppend,
                  StopAborts, SpawnCheck, WaitCheck, WaitCollect, FollowupCheck, AppendRun, Started,
                  Launch, journal, ledger
    <3> QED BY <2>1, <2>2, <2>7, <3>1
  <2>10. CASE Children
    <3>1. UNCHANGED <<inbox, origin>> \/ \E a \in Agents : ChildCommits(a)
      BY <2>10 DEF Children, ChildEnds, ChildReads, journal, ledger
    <3> QED BY <2>1, <2>8, <3>1
  <2>11. CASE MainRuns
    <3>1. \/ UNCHANGED <<inbox, origin>> \/ DeliverAgain \/ DeliverBegin \/ DeliverConsume
      BY <2>11 DEF MainRuns, UserResumes, StartUserRun, MainEnds, DeliverLook, journal, ledger
    <3> QED BY <2>1, <2>4, <2>5, <2>6, <3>1
  <2>12. CASE Stops \/ Crash
    <3>1. UNCHANGED <<inbox, origin>> \/ StopConsumes
      BY <2>12 DEF Stops, Crash, StopAll, Halt, StopMain, StopSettles, StopReads, journal, ledger
    <3> QED BY <2>1, <2>3, <3>1
  <2> QED BY <2>7, <2>9, <2>10, <2>11, <2>12 DEF Next
<1> QED BY <1>1, AgentInit, AgentStep, PTL DEF Spec, DeliveredOnce

\* What an operation started is never forgotten, so a repeated call never starts a second.
THEOREM OperationsStartOnce == Spec => OneRunPerOperation
<1> DEFINE Kept == \A o \in operations : \E p \in operations' : p = o
<1>1. AgentIInv /\ [Next]_vars => [Kept]_vars
  <2> SUFFICES ASSUME AgentIInv, Next PROVE Kept
    BY DEF vars
  <2>1. CASE UNCHANGED operations
    BY <2>1
  <2>2. ASSUME NEW a \in Agents, AppendRun(a) PROVE Kept
    <3>1. ~Replayed(call["main"].id)
      BY <2>2 DEF AppendRun, At, AgentIInv, StartsAreClear, Starting
    <3>2. \A o \in operations : <<o[1], o[2]>> # <<main.no, call["main"].id>>
      BY <3>1 DEF Replayed
    <3> QED BY <2>2, <3>2 DEF AppendRun, Started
  <2>3. UNCHANGED operations \/ \E a \in Agents : AppendRun(a)
    <3>1. CASE Calls
      BY <3>1 DEF Calls, CallSpawn, CallFollowup, CallStop, CallWait, Begin, Preflight, RecoveryCommit,
                  StopCheck, StopAppend, StopAborts, SpawnCheck, WaitCheck, WaitCollect, WaitConsume,
                  Consumed, FollowupCheck, Launch, journal
    <3>2. CASE Children \/ MainRuns
      BY <3>2 DEF Children, ChildEnds, ChildReads, ChildCommits, MainRuns, UserResumes, StartUserRun,
                  MainEnds, DeliverAgain, DeliverLook, DeliverBegin, DeliverConsume, Consumed, journal
    <3>3. CASE Stops \/ Crash \/ Boot \/ List
      BY <3>3 DEF Stops, StopAll, Halt, StopMain, StopSettles, StopReads, StopConsumes, Consumed,
                  Crash, Boot, List, RecoveryCommit, journal
    <3> QED BY <3>1, <3>2, <3>3 DEF Next
  <2> QED BY <2>1, <2>2, <2>3
<1> QED BY <1>1, AgentInit, AgentStep, PTL DEF Spec, OneRunPerOperation
===============================================================================
