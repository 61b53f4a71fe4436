------------------------------- MODULE PartsProofs -------------------------------
(* Proofs about the gateway, the command runner, the files of a Workspace, an MCP  *)
(* connection and the journal of a Session, for every value of RunParts'           *)
(* constants, and about the definitions of sub agents, the MCP servers and the     *)
(* skills, for every value of SettingsParts' constants.                            *)
EXTENDS RunParts, SettingsParts, FiniteSetTheorems, SequenceTheorems, WellFoundedInduction, TLAPS

-------------------------------------------------------------------------------
(* The tool gateway *)

CallSteps == {"idle", "looking", "looked", "asked", "adding", "effect", "ran", "over"}
CallStates == [step : CallSteps, subject : Gateway!Subjects \cup {None}, channel : BOOLEAN,
               matched : BOOLEAN, may : BOOLEAN, yes : BOOLEAN]

Allowed(s, rules, m) == Gateway!Authorize(s, Gateway!Matched(s, rules), m) = "allow"

\* While a call is under way, what the policy would say of it now is part of its history.
Tracked == \A c \in ToolCalls : Gateway!Flying(c) /\ Allowed(calls[c].subject, whitelist, mode) => calls[c].may

\* A rule that matched when the call looked has let it pass, whatever becomes of the rule.
MatchWasSeen ==
  \A c \in ToolCalls : calls[c].step = "looked" /\ calls[c].matched /\ ~Gateway!HardDenied(calls[c].subject)
    => calls[c].may

\* Only a yes leads to the whitelist, and only the policy or a yes to the effect.
StepsAreEarned ==
  \A c \in ToolCalls : /\ calls[c].step = "adding" => calls[c].yes
                       /\ calls[c].step = "effect" => calls[c].may \/ calls[c].yes

GatewayIInv ==
  /\ calls \in [ToolCalls -> CallStates]
  /\ Tracked /\ MatchWasSeen /\ StepsAreEarned /\ Gateway!EffectsAreAuthorised

\* The history of a call under a new mode or new rules: only a yes of the policy is added.
LEMMA SeenTracks ==
  ASSUME GatewayIInv, NEW m, NEW rules
  PROVE  /\ Gateway!Seen(m, rules) \in [ToolCalls -> CallStates]
         /\ \A c \in ToolCalls :
              /\ Gateway!Seen(m, rules)[c].step = calls[c].step
              /\ Gateway!Seen(m, rules)[c].subject = calls[c].subject
              /\ Gateway!Seen(m, rules)[c].matched = calls[c].matched
              /\ Gateway!Seen(m, rules)[c].yes = calls[c].yes
              /\ calls[c].may => Gateway!Seen(m, rules)[c].may
              /\ Gateway!Flying(c) /\ Allowed(calls[c].subject, rules, m) => Gateway!Seen(m, rules)[c].may
<1>1. Gateway!Seen(m, rules) = [c \in ToolCalls |->
        IF Gateway!Flying(c) /\ Allowed(calls[c].subject, rules, m)
        THEN [calls[c] EXCEPT !.may = TRUE] ELSE calls[c]]
  BY DEF Gateway!Seen, Allowed
<1>2. ASSUME NEW c \in ToolCalls
      PROVE  /\ Gateway!Seen(m, rules)[c] \in CallStates
             /\ Gateway!Seen(m, rules)[c] \in {calls[c], [calls[c] EXCEPT !.may = TRUE]}
             /\ Gateway!Flying(c) /\ Allowed(calls[c].subject, rules, m) => Gateway!Seen(m, rules)[c].may
  <2>1. calls[c] \in CallStates
    BY DEF GatewayIInv
  <2>2. [calls[c] EXCEPT !.may = TRUE] \in CallStates /\ [calls[c] EXCEPT !.may = TRUE].may
    BY <2>1 DEF CallStates
  <2> QED BY <1>1, <2>1, <2>2
<1>3. ASSUME NEW c \in ToolCalls
      PROVE  /\ Gateway!Seen(m, rules)[c].step = calls[c].step
             /\ Gateway!Seen(m, rules)[c].subject = calls[c].subject
             /\ Gateway!Seen(m, rules)[c].matched = calls[c].matched
             /\ Gateway!Seen(m, rules)[c].yes = calls[c].yes
             /\ calls[c].may => Gateway!Seen(m, rules)[c].may
  BY <1>2 DEF GatewayIInv, CallStates
<1> QED BY <1>1, <1>2, <1>3

\* The policy asked with the mode of now and a match of before allows only what it
\* allowed then or allows now.
LEMMA DecisionIsSeen ==
  ASSUME GatewayIInv, NEW c \in ToolCalls, calls[c].step = "looked",
         Gateway!Authorize(calls[c].subject, calls[c].matched, mode) = "allow"
  PROVE  calls[c].may
<1>1. ~Gateway!HardDenied(calls[c].subject)
  BY DEF Gateway!Authorize
<1>2. CASE calls[c].matched
  BY <1>1, <1>2 DEF GatewayIInv, MatchWasSeen
<1>3. CASE ~calls[c].matched
  BY <1>1, <1>3 DEF GatewayIInv, Tracked, Allowed, Gateway!Authorize, Gateway!Flying, CallStates
<1> QED BY <1>2, <1>3

\* Every step keeps the invariant.
LEMMA GatewayStep == GatewayIInv /\ [Gateway!Next]_(Gateway!vars) => GatewayIInv'
<1> SUFFICES ASSUME GatewayIInv, [Gateway!Next]_(Gateway!vars) PROVE GatewayIInv'
  OBVIOUS
<1> USE DEF GatewayIInv, Tracked, MatchWasSeen, StepsAreEarned, Gateway!EffectsAreAuthorised, Gateway!Flying, Gateway!Ran
<1>1. ASSUME UNCHANGED <<calls, mode, whitelist>> PROVE GatewayIInv'
  BY <1>1 DEF Allowed, Gateway!Authorize, Gateway!HardDenied, Gateway!Matched
<1>2. ASSUME NEW m \in Gateway!Modes, Gateway!SetMode(m) PROVE GatewayIInv'
  BY <1>1, <1>2 DEF Gateway!SetMode
<1>3. CASE Gateway!PersistMode
  <2>1. CASE UNCHANGED <<mode, calls>>
    BY <1>1, <1>3, <2>1 DEF Gateway!PersistMode
  <2>2. CASE calls' = Gateway!Seen(mode', whitelist)
    BY <1>3, <2>2, SeenTracks DEF Gateway!PersistMode
  <2> QED BY <1>3, <2>1, <2>2 DEF Gateway!PersistMode
<1>4. CASE Gateway!Administer \/ Gateway!SetToolEnabled
  BY <1>1, <1>4 DEF Gateway!Administer, Gateway!SetToolEnabled, Gateway!stores
<1>5. CASE Gateway!Save
  <2> DEFINE owner == Head(updates).owner
             Kept(after) == after \in [ToolCalls -> CallStates] /\ \A c \in ToolCalls :
                             /\ after[c].subject = calls[c].subject
                             /\ after[c].matched = calls[c].matched
                             /\ after[c].yes = calls[c].yes
                             /\ calls[c].may => after[c].may
                             /\ \/ after[c].step = calls[c].step
                                \/ calls[c].step = "adding" /\ after[c].step \in {"effect", "over"}
  <2>1. ASSUME NEW state, Kept(state), NEW step \in {"effect", "over"},
               owner \in ToolCalls, calls[owner].step = "adding"
        PROVE  Kept([state EXCEPT ![owner].step = step])
    BY <2>1 DEF CallStates, CallSteps
  <2>2. CASE UNCHANGED whitelist /\ \/ calls' = calls
                                    \/ /\ owner \in ToolCalls /\ calls[owner].step = "adding"
                                       /\ calls' = [calls EXCEPT ![owner].step = "over"]
    <3>1. mode' = mode
      BY <1>5 DEF Gateway!Save
    <3>2. Kept(calls')
      <4>1. Kept(calls)
        OBVIOUS
      <4> HIDE DEF Kept, owner
      <4>2. CASE calls' = calls
        BY <4>1, <4>2
      <4> QED BY <2>1, <2>2, <4>1, <4>2
    <3> QED BY <2>2, <3>1, <3>2 DEF Allowed
  <2>3. CASE \/ calls' = Gateway!Seen(mode, whitelist')
             \/ /\ owner \in ToolCalls /\ calls[owner].step = "adding"
                /\ calls' = [Gateway!Seen(mode, whitelist') EXCEPT ![owner].step = "effect"]
    <3>1. Kept(Gateway!Seen(mode, whitelist'))
      BY SeenTracks
    <3>2. Kept(calls')
      <4> HIDE DEF Kept, owner
      <4>1. CASE calls' = Gateway!Seen(mode, whitelist')
        BY <3>1, <4>1
      <4> QED BY <2>1, <2>3, <3>1, <4>1
    <3>3. \A c \in ToolCalls : Gateway!Flying(c) /\ Allowed(calls[c].subject, whitelist', mode) => calls'[c].may
      <4>1. \A c \in ToolCalls : Gateway!Flying(c) /\ Allowed(calls[c].subject, whitelist', mode)
                               => Gateway!Seen(mode, whitelist')[c].may
        BY SeenTracks
      <4> QED BY <2>3, <3>1, <4>1 DEF CallStates
    <3>4. mode' = mode
      BY <1>5 DEF Gateway!Save
    <3> QED BY <3>2, <3>3, <3>4 DEF Allowed
  <2> QED BY <1>5, <2>2, <2>3 DEF Gateway!Save
<1>6. CASE Gateway!Restart
  BY <1>6 DEF Gateway!Restart, CallStates, CallSteps
<1>7. ASSUME NEW c \in ToolCalls, Gateway!Arrive(c) PROVE GatewayIInv'
  <2>1. PICK s \in Gateway!Subjects, channel \in BOOLEAN :
          calls' = [calls EXCEPT ![c] =
            [Gateway!Idle EXCEPT !.step = "looking", !.subject = s, !.channel = channel,
                         !.may = Gateway!Authorize(s, Gateway!Matched(s, whitelist), mode) = "allow"]]
    BY <1>7 DEF Gateway!Arrive
  <2> DEFINE new == [Gateway!Idle EXCEPT !.step = "looking", !.subject = s, !.channel = channel,
                                 !.may = Allowed(s, whitelist, mode)]
  <2>2. new \in CallStates /\ new.step = "looking" /\ new.subject = s
        /\ new.may = Allowed(s, whitelist, mode)
    <3>1. Gateway!Idle \in CallStates
      BY DEF Gateway!Idle, CallStates, CallSteps
    <3>2. Allowed(s, whitelist, mode) \in BOOLEAN
      BY DEF Allowed
    <3> QED BY <3>1, <3>2 DEF CallStates, CallSteps
  <2>3. calls' = [calls EXCEPT ![c] = new] /\ UNCHANGED <<mode, whitelist>>
    BY <1>7, <2>1 DEF Gateway!Arrive, Gateway!stores, Allowed
  <2> HIDE DEF new
  <2> QED BY <2>2, <2>3 DEF Allowed
<1>8. ASSUME NEW c \in ToolCalls, Gateway!Look(c) PROVE GatewayIInv'
  <2>1. calls[c].step = "looking" /\ calls[c] \in CallStates /\ UNCHANGED <<mode, whitelist>>
    BY <1>8 DEF Gateway!Look, Gateway!stores
  <2>2. CASE Gateway!To(c, "over")
    BY <2>1, <2>2 DEF Gateway!To, CallStates, CallSteps, Allowed
  <2>3. CASE calls' = [calls EXCEPT ![c].step = "looked",
                                    ![c].matched = Gateway!Matched(calls[c].subject, whitelist)]
    <3>1. Gateway!Matched(calls[c].subject, whitelist) \in BOOLEAN
      BY DEF Gateway!Matched
    <3>2. Gateway!Matched(calls[c].subject, whitelist) /\ ~Gateway!HardDenied(calls[c].subject) => calls[c].may
      BY <2>1 DEF Allowed, Gateway!Authorize
    <3> QED BY <2>1, <2>3, <3>1, <3>2 DEF CallStates, CallSteps, Allowed
  <2> QED BY <1>8, <2>2, <2>3 DEF Gateway!Look
<1>9. ASSUME NEW c \in ToolCalls, Gateway!Decide(c) PROVE GatewayIInv'
  BY <1>9, DecisionIsSeen DEF Gateway!Decide, CallStates, CallSteps, Gateway!stores, Allowed, Gateway!To
<1>10. ASSUME NEW c \in ToolCalls, NEW a \in Gateway!Answers, Gateway!AnswerArrives(c, a) PROVE GatewayIInv'
  <2> DEFINE yes == a.decision # "deny" /\ a.fingerprint = calls[c].subject
  <2>1. calls[c].step = "asked" /\ UNCHANGED <<mode, whitelist>>
    BY <1>10 DEF Gateway!AnswerArrives
  <2>2. PICK step \in {"effect", "adding", "over"} :
          /\ calls' = [calls EXCEPT ![c].step = step, ![c].yes = yes] /\ (step # "over" => yes)
    BY <1>10 DEF Gateway!AnswerArrives, Gateway!Matches
  <2>3. yes \in BOOLEAN
    OBVIOUS
  <2> HIDE DEF yes
  <2>4. calls' \in [ToolCalls -> CallStates]
    <3>1. calls[c] \in CallStates
      OBVIOUS
    <3>2. [calls[c] EXCEPT !.step = step, !.yes = yes] \in CallStates
      BY <2>3, <3>1 DEF CallStates, CallSteps
    <3> QED BY <2>2, <3>2
  <2>5. /\ calls'[c].step = step /\ calls'[c].yes = yes /\ calls'[c].subject = calls[c].subject
        /\ calls'[c].may = calls[c].may /\ calls'[c].matched = calls[c].matched
        /\ \A d \in ToolCalls \ {c} : calls'[d] = calls[d]
    BY <2>2 DEF CallStates
  <2> QED BY <2>1, <2>2, <2>4, <2>5 DEF Allowed
<1>11. ASSUME NEW c \in ToolCalls, Gateway!AnswerFails(c) PROVE GatewayIInv'
  BY <1>11 DEF Gateway!AnswerFails, CallStates, CallSteps, Gateway!stores, Allowed, Gateway!To
<1>12. ASSUME NEW c \in ToolCalls, Gateway!TakeEffect(c) PROVE GatewayIInv'
  BY <1>12 DEF Gateway!TakeEffect, CallStates, CallSteps, Gateway!stores, Allowed, Gateway!To
<1> QED
  BY <1>1, <1>2, <1>3, <1>4, <1>5, <1>6, <1>7, <1>8, <1>9, <1>10, <1>11, <1>12
  DEF Gateway!Next, Gateway!vars, Gateway!stores

\* The invariant holds before any call.
LEMMA GatewayStarts == Gateway!Init => GatewayIInv
BY DEF Gateway!Init, GatewayIInv, Tracked, MatchWasSeen, StepsAreEarned, Gateway!EffectsAreAuthorised, Gateway!Flying, Gateway!Ran,
       Gateway!Idle, CallStates, CallSteps

\* A tool has its effect (executeAgentTool, tool-gateway/index.ts) only when the
\* policy let the call pass at some moment since it came, or the user allowed just
\* this input; never when it is denied outright.  This is so for any number of calls
\* at once, of changes of mode and rules, of lost saves and of restarts.
THEOREM EffectsNeedAuthority == Gateway!Spec => []Gateway!EffectsAreAuthorised
<1>1. GatewayIInv => Gateway!EffectsAreAuthorised
  BY DEF GatewayIInv
<1> QED BY GatewayStarts, GatewayStep, <1>1, PTL DEF Gateway!Spec

-------------------------------------------------------------------------------
(* The command runner *)

Statuses == {None, "running", "success", "failed", "cancelled"}
TaskStates ==
  [status : Statuses, timer : BOOLEAN,
   waiter : {None, "waiting", "completed", "timeout", "aborted"}]
ProcessStates ==
  [alive : BOOLEAN, signalled : BOOLEAN, code : {None, "zero", "other", "error", "told"}]

RunnerTypeOK ==
  /\ table \in Seq(Tasks)
  /\ task \in [Tasks -> TaskStates]
  /\ process \in [Tasks -> ProcessStates]

\* Before a command starts it has no process, and no timer, and nobody waits for it or was
\* told of it.
NotStarted ==
  \A t \in Tasks :
    task[t].status = None => task[t].waiter = None /\ ~task[t].timer /\ ~process[t].alive /\ t \notin told

RunnerIInv == RunnerTypeOK /\ NotStarted /\ Runner!RunningIsInReach

(* prune *)

Rank(keep, i) == Cardinality({j \in keep : j <= i})

\* A set of positions is numbered by the order of its members.
LEMMA RanksNumber ==
  ASSUME NEW n \in Nat, NEW keep \in SUBSET (1 .. n)
  PROVE  /\ Cardinality(keep) \in Nat
         /\ \A i \in keep : Rank(keep, i) \in 1 .. Cardinality(keep)
         /\ \A i, k \in keep : Rank(keep, i) = Rank(keep, k) => i = k
         /\ \A r \in 1 .. Cardinality(keep) : \E i \in keep : Rank(keep, i) = r
<1> DEFINE Below(i) == {j \in keep : j <= i}
<1>1. IsFiniteSet(keep) /\ Cardinality(keep) \in Nat
  <2>1. IsFiniteSet(1 .. n)
    BY FS_Interval
  <2> QED BY <2>1, FS_Subset, FS_CardinalityType
<1>2. ASSUME NEW i \in keep
      PROVE  IsFiniteSet(Below(i)) /\ Cardinality(Below(i)) \in 1 .. Cardinality(keep)
  <2>1. /\ IsFiniteSet(Below(i)) /\ Cardinality(Below(i)) <= Cardinality(keep)
        /\ Cardinality(Below(i)) \in Nat
    BY <1>1, FS_Subset, FS_CardinalityType
  <2>2. i \in Below(i)
    OBVIOUS
  <2>3. Cardinality(Below(i)) # 0
    BY <2>1, <2>2, FS_EmptySet
  <2> QED BY <1>1, <2>1, <2>3
<1>3. ASSUME NEW i \in keep, NEW k \in keep, i < k
      PROVE  Cardinality(Below(i)) # Cardinality(Below(k))
  <2>1. Below(i) \in SUBSET Below(k) /\ k \in Below(k) /\ k \notin Below(i)
    <3>1. i \in Int /\ k \in Int /\ \A j \in keep : j \in Int
      OBVIOUS
    <3>2. ASSUME NEW j \in Below(i) PROVE j \in Below(k)
      BY <1>3, <3>1, <3>2
    <3>3. k \in Below(k) /\ k \notin Below(i)
      BY <1>3, <3>1
    <3> QED BY <3>2, <3>3
  <2>2. Below(i) # Below(k)
    BY <2>1
  <2> QED BY <1>2, <2>1, <2>2, FS_Subset
<1>4. \A i, k \in keep : Rank(keep, i) = Rank(keep, k) => i = k
  <2>1. \A i, k \in keep : i < k \/ k < i \/ i = k
    OBVIOUS
  <2> QED BY <1>3, <2>1 DEF Rank
<1> DEFINE rank == [i \in keep |-> Rank(keep, i)]
<1>5. rank \in Injection(keep, 1 .. Cardinality(keep))
  BY <1>2, <1>4 DEF Injection, IsInjective, Rank
<1>6. IsFiniteSet(1 .. Cardinality(keep)) /\ Cardinality(1 .. Cardinality(keep)) = Cardinality(keep)
  BY <1>1, FS_Interval
<1>7. rank \in Surjection(keep, 1 .. Cardinality(keep))
  BY <1>5, <1>6, FS_Injection
<1> QED BY <1>1, <1>2, <1>4, <1>7 DEF Surjection, Rank

\* prune keeps a list of tasks, and every task that still runs.
LEMMA PruneKeepsRunning ==
  ASSUME NEW tab \in Seq(Tasks), NEW tt
  PROVE  /\ Runner!Pruned(tab, tt) \in Seq(Tasks)
         /\ \A i \in DOMAIN tab : tt[tab[i]].status = "running"
              => \E k \in DOMAIN Runner!Pruned(tab, tt) : Runner!Pruned(tab, tt)[k] = tab[i]
<1> DEFINE Done(i) == tt[tab[i]].status # "running"
           Drop(i) == Done(i) /\ Cardinality({j \in 1 .. i : Done(j)}) <= Len(tab) - TaskLimit
           keep == {i \in DOMAIN tab : ~Drop(i)}
           At(r) == CHOOSE i \in keep : Rank(keep, i) = r
<1>1. Runner!Pruned(tab, tt) = [r \in 1 .. Cardinality(keep) |-> tab[At(r)]]
  BY DEF Runner!Pruned, Rank, Runner!Cardinality, Cardinality
<1>2. Len(tab) \in Nat /\ keep \in SUBSET (1 .. Len(tab)) /\ DOMAIN tab = 1 .. Len(tab)
  BY LenProperties
<1>3. \A i \in DOMAIN tab : tt[tab[i]].status = "running" => i \in keep
  OBVIOUS
<1> HIDE DEF keep
<1>4. \A r \in 1 .. Cardinality(keep) : At(r) \in keep /\ Rank(keep, At(r)) = r
  BY <1>2, RanksNumber
<1>5. \A i \in keep : Rank(keep, i) \in 1 .. Cardinality(keep) /\ At(Rank(keep, i)) = i
  BY <1>2, <1>4, RanksNumber
<1> HIDE DEF At
<1>6. \A r \in 1 .. Cardinality(keep) : tab[At(r)] \in Tasks
  BY <1>2, <1>4, ElementOfSeq
<1>7. Runner!Pruned(tab, tt) \in Seq(Tasks)
  <2>1. Cardinality(keep) \in Nat
    BY <1>2, RanksNumber
  <2>2. Runner!Pruned(tab, tt) \in [1 .. Cardinality(keep) -> Tasks]
    BY <1>1, <1>6
  <2> QED BY <2>1, <2>2
<1> QED BY <1>1, <1>3, <1>5, <1>7

(* The helpers of the steps *)

\* A task that is settled stays so; one that runs is settled, and its timer is off.
LEMMA FinishSettles ==
  ASSUME NEW tt \in [Tasks -> TaskStates], NEW t \in Tasks,
         NEW end \in {"success", "failed", "cancelled"}
  PROVE  /\ Runner!Finish(tt, t, end) \in [Tasks -> TaskStates]
         /\ \A s \in Tasks \ {t} : Runner!Finish(tt, t, end)[s] = tt[s]
         /\ Runner!Finish(tt, t, end)[t].status = IF tt[t].status = "running" THEN end ELSE tt[t].status
         /\ Runner!Finish(tt, t, end)[t].waiter = tt[t].waiter
BY DEF Runner!Finish, TaskStates, Statuses

\* Whoever waits for a task is told that it is over; the task is as before.
LEMMA WokenWakes ==
  ASSUME NEW tt \in [Tasks -> TaskStates], NEW t \in Tasks
  PROVE  /\ Runner!Woken(tt, t) \in [Tasks -> TaskStates]
         /\ \A s \in Tasks \ {t} : Runner!Woken(tt, t)[s] = tt[s]
         /\ Runner!Woken(tt, t)[t].status = tt[t].status
BY DEF Runner!Woken, TaskStates

\* terminateProcessTree signals a process that lives and leaves the others.
LEMMA TerminateSignals ==
  ASSUME process \in [Tasks -> ProcessStates], NEW t \in Tasks, Runner!Terminate(t)
  PROVE  /\ process' \in [Tasks -> ProcessStates]
         /\ \A s \in Tasks \ {t} : process'[s] = process[s]
         /\ process'[t].alive = process[t].alive
         /\ process'[t].alive => process'[t].signalled
BY DEF Runner!Terminate, ProcessStates

\* A step of task t keeps the invariant when it leaves t fit for it.
LEMMA OneTaskMoves ==
  ASSUME RunnerIInv, NEW t \in Tasks, UNCHANGED table,
         task' \in [Tasks -> TaskStates], process' \in [Tasks -> ProcessStates],
         \A s \in Tasks \ {t} : /\ task'[s] = task[s] /\ process'[s] = process[s]
                                /\ s \in told' => s \in told,
         task'[t].status = None
           => task'[t].waiter = None /\ ~task'[t].timer /\ ~process'[t].alive /\ t \notin told',
         process'[t].alive /\ ~process'[t].signalled
           => Runner!Kept(t) /\ task'[t].status = "running" /\ t \notin told'
  PROVE  RunnerIInv'
<1>1. \A s \in Tasks : Runner!Kept(s)' <=> Runner!Kept(s)
  BY DEF Runner!Kept
<1> QED BY <1>1 DEF RunnerIInv, RunnerTypeOK, NotStarted, Runner!RunningIsInReach, Runner!Running

(* The invariant *)

\* Every step keeps the invariant.
LEMMA RunnerStep ==
  ASSUME Runner!RunnerAssumption, RunnerIInv, [Runner!Next]_(Runner!vars) PROVE RunnerIInv'
<1>1. /\ table \in Seq(Tasks) /\ task \in [Tasks -> TaskStates]
      /\ process \in [Tasks -> ProcessStates]
      /\ \A t \in Tasks : /\ task[t].status = None
                               => task[t].waiter = None /\ ~task[t].timer /\ ~process[t].alive /\ t \notin told
                          /\ process[t].alive /\ ~process[t].signalled
                               => Runner!Kept(t) /\ task[t].status = "running" /\ t \notin told
  BY DEF RunnerIInv, RunnerTypeOK, NotStarted, Runner!RunningIsInReach, Runner!Running
<1> USE DEF Runner!RunnerAssumption
<1>2. ASSUME NEW t \in Tasks, NEW background \in BOOLEAN, Runner!Start(t, background) PROVE RunnerIInv'
  <2>1. PICK spawned \in BOOLEAN :
          process' = [process EXCEPT ![t].alive = spawned,
                                     ![t].code = IF spawned THEN None ELSE "error"]
    BY <1>2 DEF Runner!Start
  <2>2. process' \in [Tasks -> ProcessStates] /\ \A s \in Tasks \ {t} : process'[s] = process[s]
    <3>1. process[t] \in ProcessStates
      BY <1>1
    <3>2. [process[t] EXCEPT !.alive = spawned, !.code = IF spawned THEN None ELSE "error"] \in ProcessStates
      BY <3>1 DEF ProcessStates
    <3> QED BY <1>1, <2>1, <3>2
  <2>3. /\ task' \in [Tasks -> TaskStates] /\ task'[t].status = "running"
        /\ \A s \in Tasks \ {t} : task'[s] = task[s]
    BY <1>1, <1>2 DEF Runner!Start, TaskStates, Statuses
  <2> DEFINE longer == Append(table, t)
  <2>4. /\ longer \in Seq(Tasks) /\ DOMAIN longer = 1 .. Len(table) + 1
        /\ longer[Len(table) + 1] = t /\ \A i \in DOMAIN table : longer[i] = table[i]
        /\ Len(table) \in Nat /\ DOMAIN table = 1 .. Len(table)
    BY <1>1, AppendProperties, LenProperties
  <2> HIDE DEF longer
  <2>5. table' = Runner!Pruned(longer, task') /\ task[t].status = None /\ told' = told
    BY <1>2 DEF Runner!Start, longer
  <2>6. table' \in Seq(Tasks)
    BY <2>4, <2>5, PruneKeepsRunning
  <2>7. ASSUME NEW s \in Tasks, task'[s].status = "running", s = t \/ Runner!Kept(s) PROVE Runner!Kept(s)'
    <3>1. PICK i \in DOMAIN longer : longer[i] = s
      BY <2>4, <2>7 DEF Runner!Kept
    <3> QED BY <2>4, <2>5, <2>7, <3>1, PruneKeepsRunning DEF Runner!Kept
  <2> QED BY <1>1, <2>2, <2>3, <2>5, <2>6, <2>7
          DEF RunnerIInv, RunnerTypeOK, NotStarted, Runner!RunningIsInReach, Runner!Running
<1>3. ASSUME NEW t \in Tasks, Runner!Cancelled(t) PROVE RunnerIInv'
  <2>1. /\ task' \in [Tasks -> TaskStates] /\ task'[t].status = "cancelled"
        /\ \A s \in Tasks \ {t} : task'[s] = task[s]
    BY <1>1, <1>3 DEF Runner!Cancelled, TaskStates, Statuses
  <2>2. UNCHANGED <<table, process>> /\ told' = told \union {t} /\ task[t].status = None
    BY <1>3 DEF Runner!Cancelled, Runner!Answer
  <2> QED BY <1>1, <2>1, <2>2, OneTaskMoves
<1>4. ASSUME NEW t \in Tasks, Runner!Return(t) PROVE RunnerIInv'
  <2>1. /\ UNCHANGED table /\ task[t].status # None
        /\ told' = IF task'[t].status = "running" THEN told ELSE told \union {t}
    BY <1>1, <1>4 DEF Runner!Return, Runner!Answer
  <2>2. CASE task[t].waiter = "aborted"
    <3> DEFINE settled == Runner!Finish(task, t, "cancelled")
    <3>1. Runner!Terminate(t) /\ task' = [settled EXCEPT ![t].waiter = None]
      BY <1>4, <2>2 DEF Runner!Return
    <3>2. /\ settled \in [Tasks -> TaskStates] /\ \A s \in Tasks \ {t} : settled[s] = task[s]
          /\ settled[t].status = IF task[t].status = "running" THEN "cancelled" ELSE task[t].status
      BY <1>1, FinishSettles
    <3> HIDE DEF settled
    <3>3. /\ task' \in [Tasks -> TaskStates] /\ \A s \in Tasks \ {t} : task'[s] = task[s]
          /\ task'[t].status = settled[t].status
      <4>1. PICK tt \in [Tasks -> TaskStates] : tt = settled
        BY <3>2
      <4> QED BY <3>1, <3>2, <4>1 DEF TaskStates
    <3>4. /\ process' \in [Tasks -> ProcessStates] /\ \A s \in Tasks \ {t} : process'[s] = process[s]
          /\ process'[t].alive = process[t].alive /\ (process'[t].alive => process'[t].signalled)
      BY <1>1, <3>1, TerminateSignals
    <3> QED BY <1>1, <2>1, <3>2, <3>3, <3>4, OneTaskMoves
  <2>3. CASE task[t].waiter # "aborted"
    <3>1. task' = [task EXCEPT ![t].waiter = None] /\ UNCHANGED process
      BY <1>4, <2>3 DEF Runner!Return
    <3>2. /\ task' \in [Tasks -> TaskStates] /\ \A s \in Tasks \ {t} : task'[s] = task[s]
          /\ task'[t].status = task[t].status
      BY <1>1, <3>1 DEF TaskStates
    <3> QED BY <1>1, <2>1, <3>1, <3>2, OneTaskMoves
  <2> QED BY <2>2, <2>3
<1>5. ASSUME NEW t \in Tasks, NEW outcome \in {"timeout", "aborted"}, Runner!Race(t, outcome) PROVE RunnerIInv'
  <2>1. /\ task' \in [Tasks -> TaskStates] /\ \A s \in Tasks \ {t} : task'[s] = task[s]
        /\ task'[t].status = task[t].status /\ task[t].status # None
        /\ UNCHANGED <<table, process, told>>
    BY <1>1, <1>5 DEF Runner!Race, TaskStates
  <2> QED BY <1>1, <2>1, OneTaskMoves
<1>6. ASSUME NEW t \in Tasks, Runner!Exit(t) PROVE RunnerIInv'
  <2>1. PICK code \in {"zero", "other"} :
          process' = [process EXCEPT ![t].alive = FALSE, ![t].code = code]
    BY <1>6 DEF Runner!Exit
  <2>2. /\ process' \in [Tasks -> ProcessStates] /\ \A s \in Tasks \ {t} : process'[s] = process[s]
        /\ ~process'[t].alive
    <3> DEFINE p == [process[t] EXCEPT !.alive = FALSE, !.code = code]
    <3>1. process[t] \in ProcessStates
      BY <1>1
    <3>2. p \in ProcessStates /\ ~p.alive
      BY <3>1 DEF ProcessStates
    <3>3. process' = [process EXCEPT ![t] = p]
      BY <2>1
    <3> HIDE DEF p
    <3> QED BY <1>1, <3>2, <3>3
  <2>3. UNCHANGED <<table, task, told>>
    BY <1>6 DEF Runner!Exit
  <2> QED BY <1>1, <2>2, <2>3, OneTaskMoves
<1>7. ASSUME NEW t \in Tasks, Runner!OnExit(t) PROVE RunnerIInv'
  <2>1. /\ process' \in [Tasks -> ProcessStates] /\ \A s \in Tasks \ {t} : process'[s] = process[s]
        /\ ~process'[t].alive /\ UNCHANGED <<table, told>>
    BY <1>1, <1>7 DEF Runner!OnExit, ProcessStates
  <2>2. CASE task[t].status # "running"
    <3>1. task' = task
      BY <1>7, <2>2 DEF Runner!OnExit, Runner!Running
    <3> QED BY <1>1, <2>1, <3>1, OneTaskMoves
  <2>3. CASE task[t].status = "running"
    <3>1. PICK end \in {"success", "failed"} : task' = Runner!Woken(Runner!Finish(task, t, end), t)
      BY <1>7, <2>3 DEF Runner!OnExit, Runner!Running
    <3>2. PICK tt \in [Tasks -> TaskStates] : tt = Runner!Finish(task, t, end)
      BY <1>1, FinishSettles
    <3>3. /\ \A s \in Tasks \ {t} : tt[s] = task[s]
          /\ tt[t].status = end
      BY <1>1, <2>3, <3>2, FinishSettles
    <3>4. /\ task' \in [Tasks -> TaskStates] /\ \A s \in Tasks \ {t} : task'[s] = task[s]
          /\ task'[t].status = end
      BY <3>1, <3>2, <3>3, WokenWakes
    <3> QED BY <1>1, <2>1, <3>4, OneTaskMoves
  <2> QED BY <2>2, <2>3
<1>8. ASSUME NEW t \in Tasks, NEW end \in {"failed", "cancelled"}, task[t].status # None,
             Runner!Terminate(t), task' = Runner!Woken(Runner!Finish(task, t, end), t), UNCHANGED table,
             told' \in {told, told \union {t}}
      PROVE  RunnerIInv'
  <2>1. PICK tt \in [Tasks -> TaskStates] : tt = Runner!Finish(task, t, end)
    BY <1>1, FinishSettles
  <2>2. (\A s \in Tasks \ {t} : tt[s] = task[s]) /\ tt[t].status # None
    BY <1>1, <1>8, <2>1, FinishSettles
  <2>3. /\ task' \in [Tasks -> TaskStates] /\ \A s \in Tasks \ {t} : task'[s] = task[s]
        /\ task'[t].status # None
    BY <1>8, <2>1, <2>2, WokenWakes
  <2>4. /\ process' \in [Tasks -> ProcessStates] /\ \A s \in Tasks \ {t} : process'[s] = process[s]
        /\ process'[t].alive => process'[t].signalled
    BY <1>1, <1>8, TerminateSignals
  <2> QED BY <1>1, <1>8, <2>3, <2>4, OneTaskMoves
<1>9. ASSUME NEW t \in Tasks, Runner!OnRuntimeTimer(t) PROVE RunnerIInv'
  BY <1>1, <1>8, <1>9 DEF Runner!OnRuntimeTimer
<1>10. ASSUME NEW t \in Tasks, Runner!Stop(t) PROVE RunnerIInv'
  <2>1. /\ UNCHANGED table /\ told' = told \union {t} /\ task[t].status # None
    BY <1>10 DEF Runner!Stop, Runner!Answer
  <2>2. CASE Runner!Kept(t) /\ Runner!Running(t)
    BY <1>8, <1>10, <2>1, <2>2 DEF Runner!Stop
  <2>3. CASE ~(Runner!Kept(t) /\ Runner!Running(t))
    <3>1. UNCHANGED <<task, process>>
      BY <1>10, <2>3 DEF Runner!Stop
    <3> QED BY <1>1, <2>1, <2>3, <3>1, OneTaskMoves DEF Runner!Running
  <2> QED BY <2>2, <2>3
<1>11. ASSUME NEW t \in Tasks, Runner!Read(t) PROVE RunnerIInv'
  <2>1. /\ UNCHANGED <<table, task, process>> /\ task[t].status # None
        /\ told' = IF Runner!Kept(t) /\ Runner!Running(t) THEN told ELSE told \union {t}
    BY <1>11 DEF Runner!Read, Runner!Answer
  <2> QED BY <1>1, <2>1, OneTaskMoves DEF Runner!Running
<1>12. CASE UNCHANGED Runner!vars
  BY <1>12 DEF Runner!vars, RunnerIInv, RunnerTypeOK, NotStarted, Runner!RunningIsInReach, Runner!Running, Runner!Kept
<1> QED
  BY <1>2, <1>3, <1>4, <1>5, <1>6, <1>7, <1>9, <1>10, <1>11, <1>12
  DEF Runner!Next, Runner!Step, Runner!ForegroundTimeout, Runner!Abort

\* The invariant holds before any command.
LEMMA RunnerStarts == Runner!Init => RunnerIInv
BY DEF Runner!Init, RunnerIInv, RunnerTypeOK, NotStarted, Runner!RunningIsInReach, Runner!NoTask, Runner!NoProcess, TaskStates,
       ProcessStates, Statuses

\* Whatever the order of exits, timers, stops, aborts and answers, and however many
\* tasks prune has dropped for however small a limit, a process that runs on unasked
\* has a task that is kept and says so (tool-gateway/run-command.ts).
THEOREM RunningStaysInReach ==
  ASSUME Runner!RunnerAssumption PROVE Runner!Spec => []Runner!RunningIsInReach
<1>1. RunnerIInv /\ [Runner!Next]_(Runner!vars) => RunnerIInv'
  BY RunnerStep
<1>2. RunnerIInv => Runner!RunningIsInReach
  BY DEF RunnerIInv
<1> QED BY RunnerStarts, <1>1, <1>2, PTL DEF Runner!Spec

-------------------------------------------------------------------------------
(* The files of a Workspace *)

Contents == Jobs \union {None, "first", "edited"}
JobStates ==
  [step : {"none", "queued", "read", "over"}, path : Paths \union {None}, patch : BOOLEAN,
   rt : Requests \union {None}, after : Jobs \union {None}, read : Contents]

FilesTypeOK ==
  /\ disk \in [Paths -> Contents]
  /\ runtime \in [Requests -> Requests \union {None, "building"}]
  /\ cached \in Requests \union {None}
  /\ tails \in [Requests -> [Paths -> Jobs \union {None}]]
  /\ job \in [Jobs -> JobStates]

Active(j) == job[j].step \in {"queued", "read"}
In(j, rt, p) == Active(j) /\ job[j].rt = rt /\ job[j].path = p

\* A job under way knows its file and its queue.
ActiveIsPlaced == \A j \in Jobs : Active(j) => job[j].rt \in Requests /\ job[j].path \in Paths

\* q is the queue of a file in a runtime: each job waits for the one before it, only
\* the first may have started, and the tail is the last.
IsQueue(rt, p, n, q) ==
  /\ \A k \in 1 .. n : q[k] \in Jobs /\ In(q[k], rt, p)
  /\ \A j \in Jobs : In(j, rt, p) => \E k \in 1 .. n : q[k] = j
  /\ \A k, l \in 1 .. n : q[k] = q[l] => k = l
  /\ \A k \in 2 .. n : job[q[k]].after = q[k - 1] /\ job[q[k]].step = "queued"
  /\ n > 0 => Files!Before(q[1]) = {}
  /\ tails[rt][p] = IF n = 0 THEN None ELSE q[n]

QueuesAreOrdered ==
  \A rt \in Requests, p \in Paths : \E n \in Nat : \E q \in [1 .. n -> Jobs] : IsQueue(rt, p, n, q)

\* What a job has read is still there, or someone outside its queue changed it.
ReadersAreCurrent ==
  \A j \in Jobs : job[j].step = "read" => disk[job[j].path] = job[j].read \/ j \in meddled

\* A content is named for a write that is over.
ContentsAreWritten == \A p \in Paths, j \in Jobs : disk[p] = j => job[j].step = "over"

FilesIInv ==
  FilesTypeOK /\ ActiveIsPlaced /\ QueuesAreOrdered /\ ReadersAreCurrent /\ ContentsAreWritten

(* The queues *)

\* The queue of another file, or of the file in another runtime, is left as it is.
LEMMA OtherQueuesStand ==
  ASSUME FilesIInv, NEW rt \in Requests, NEW p \in Paths, NEW j \in Jobs,
         ~In(j, rt, p), ~In(j, rt, p)',
         \A i \in Jobs \ {j} : job'[i] = job[i],
         job[j].step # "over" \/ job'[j].step = "over",
         tails'[rt][p] = tails[rt][p]
  PROVE  \E n \in Nat : \E q \in [1 .. n -> Jobs] : IsQueue(rt, p, n, q)'
<1> PICK n \in Nat : \E q \in [1 .. n -> Jobs] : IsQueue(rt, p, n, q)
  BY DEF FilesIInv, QueuesAreOrdered
<1>1. PICK q \in [1 .. n -> Jobs] : IsQueue(rt, p, n, q)
  OBVIOUS
<1>2. ASSUME NEW k \in 1 .. n PROVE q[k] \in Jobs \ {j}
  <2>1. q[k] \in Jobs /\ In(q[k], rt, p)
    BY <1>1 DEF IsQueue
  <2> QED BY <2>1
<1>3. n > 0 => Files!Before(q[1])' = {}
  <2>1. SUFFICES ASSUME n > 0, NEW i \in Jobs, i = job'[q[1]].after, job'[i].step # "over"
                 PROVE  FALSE
    BY DEF Files!Before
  <2>2. q[1] \in Jobs \ {j} /\ Files!Before(q[1]) = {}
    BY <1>1, <1>2, <2>1 DEF IsQueue
  <2>3. job[i].step = "over"
    BY <2>1, <2>2 DEF Files!Before
  <2> QED BY <2>1, <2>3
<1>4. \A i \in Jobs : In(i, rt, p)' <=> In(i, rt, p)
  BY DEF In, Active
<1>5. \A k \in 2 .. n : job'[q[k]] = job[q[k]]
  BY <1>2
<1>6. IsQueue(rt, p, n, q)'
  BY <1>1, <1>3, <1>4, <1>5 DEF IsQueue
<1> QED BY <1>6

\* FileMutationQueue.run: a job goes to the end of its queue.
LEMMA EnqueueKeepsQueues ==
  ASSUME Files!FilesAssumption, FilesIInv,
         NEW j \in Jobs, NEW r \in Requests, NEW p \in Paths, NEW patch \in BOOLEAN,
         Files!Enqueue(j, r, p, patch)
  PROVE  QueuesAreOrdered'
<1> PICK rt \in Requests : rt = runtime[r]
  BY DEF Files!Enqueue
<1>1. /\ job[j].step = "none"
      /\ \A i \in Jobs \ {j} : job'[i] = job[i]
      /\ job'[j].step = "queued" /\ job'[j].rt = rt /\ job'[j].path = p
      /\ job'[j].after = tails[rt][p]
  BY DEF Files!Enqueue, Files!NoJob, FilesIInv, FilesTypeOK, JobStates
<1>2. tails'[rt][p] = j
  BY DEF Files!Enqueue, FilesIInv, FilesTypeOK
<1>3. ASSUME NEW rt2 \in Requests, NEW p2 \in Paths, rt2 # rt \/ p2 # p
      PROVE  tails'[rt2][p2] = tails[rt2][p2]
  BY <1>3 DEF Files!Enqueue, FilesIInv, FilesTypeOK
<1>4. ASSUME NEW rt2 \in Requests, NEW p2 \in Paths, rt2 # rt \/ p2 # p
      PROVE  \E n \in Nat : \E q \in [1 .. n -> Jobs] : IsQueue(rt2, p2, n, q)'
  BY <1>1, <1>3, <1>4, OtherQueuesStand DEF In, Active
<1> PICK n \in Nat : \E q \in [1 .. n -> Jobs] : IsQueue(rt, p, n, q)
  BY DEF FilesIInv, QueuesAreOrdered
<1>5. PICK q \in [1 .. n -> Jobs] : IsQueue(rt, p, n, q)
  OBVIOUS
<1>6. \A k \in 1 .. n : q[k] \in Jobs \ {j}
  BY <1>1, <1>5 DEF IsQueue, In, Active
<1> DEFINE longer == [k \in 1 .. n + 1 |-> IF k = n + 1 THEN j ELSE q[k]]
<1>7. longer \in [1 .. n + 1 -> Jobs] /\ longer[n + 1] = j /\ \A k \in 1 .. n : longer[k] = q[k]
  BY <1>6
<1> HIDE DEF longer
<1>8. Files!Before(longer[1])' = {}
  <2>1. CASE n = 0
    <3>1. job'[longer[1]].after = None
      BY <1>1, <1>5, <1>7, <2>1 DEF IsQueue
    <3> QED BY <3>1 DEF Files!Before, Files!FilesAssumption
  <2>2. CASE n > 0
    <3>1. q[1] \in Jobs \ {j} /\ Files!Before(q[1]) = {} /\ longer[1] = q[1]
      BY <1>5, <1>6, <1>7, <2>2 DEF IsQueue
    <3> QED BY <1>1, <3>1 DEF Files!Before
  <2> QED BY <2>1, <2>2
<1>9. IsQueue(rt, p, n + 1, longer)'
  <2>1. \A k \in 1 .. n + 1 : longer[k] \in Jobs /\ In(longer[k], rt, p)'
    <3> SUFFICES ASSUME NEW k \in 1 .. n + 1 PROVE longer[k] \in Jobs /\ In(longer[k], rt, p)'
      OBVIOUS
    <3>1. CASE k = n + 1
      BY <1>1, <1>7, <3>1 DEF In, Active
    <3>2. CASE k \in 1 .. n
      <4>1. longer[k] \in Jobs \ {j} /\ In(longer[k], rt, p)
        BY <1>5, <1>6, <1>7, <3>2 DEF IsQueue
      <4> QED BY <1>1, <4>1 DEF In, Active
    <3> QED BY <3>1, <3>2
  <2>2. \A i \in Jobs : In(i, rt, p)' => \E k \in 1 .. n + 1 : longer[k] = i
    BY <1>1, <1>5, <1>7 DEF IsQueue, In, Active
  <2>3. \A k, l \in 1 .. n + 1 : longer[k] = longer[l] => k = l
    <3>1. \A k \in 1 .. n + 1 : k = n + 1 \/ k \in 1 .. n
      OBVIOUS
    <3>2. \A k, l \in 1 .. n : q[k] = q[l] => k = l
      BY <1>5 DEF IsQueue
    <3> QED BY <1>6, <1>7, <3>1, <3>2
  <2>4. ASSUME NEW k \in 2 .. n + 1
        PROVE  job'[longer[k]].after = longer[k - 1] /\ job'[longer[k]].step = "queued"
    <3>1. k - 1 \in 1 .. n /\ longer[k - 1] = q[k - 1]
      BY <1>7
    <3>2. CASE k = n + 1
      BY <1>1, <1>5, <1>7, <3>1, <3>2 DEF IsQueue
    <3>3. CASE k # n + 1
      <4>1. k \in 1 .. n /\ k \in 2 .. n
        BY <3>3
      <4>2. longer[k] = q[k] /\ q[k] \in Jobs \ {j}
        BY <1>6, <1>7, <4>1
      <4>3. job[q[k]].after = q[k - 1] /\ job[q[k]].step = "queued"
        BY <1>5, <4>1 DEF IsQueue
      <4> QED BY <1>1, <3>1, <4>2, <4>3
    <3> QED BY <3>2, <3>3
  <2>5. tails'[rt][p] = longer[n + 1]
    BY <1>2, <1>7
  <2> QED BY <1>8, <2>1, <2>2, <2>3, <2>4, <2>5 DEF IsQueue
<1>10. \E m \in Nat : \E l \in [1 .. m -> Jobs] : IsQueue(rt, p, m, l)'
  BY <1>7, <1>9
<1> QED BY <1>4, <1>10 DEF QueuesAreOrdered

\* The job that reads, or has its turn, is the first of its queue.
LEMMA FirstWorks ==
  ASSUME FilesIInv, NEW rt \in Requests, NEW p \in Paths, NEW n \in Nat,
         NEW q \in [1 .. n -> Jobs], IsQueue(rt, p, n, q),
         NEW j \in Jobs, In(j, rt, p), Files!HasTurn(j) \/ job[j].step = "read"
  PROVE  n > 0 /\ q[1] = j
<1>1. PICK k \in 1 .. n : q[k] = j
  BY DEF IsQueue
<1>2. SUFFICES ASSUME k > 1 PROVE FALSE
  BY <1>1
<1>3. k \in 2 .. n /\ k - 1 \in 1 .. n
  BY <1>2
<1>4. job[j].after = q[k - 1] /\ job[j].step = "queued" /\ q[k - 1] \in Jobs /\ Active(q[k - 1])
  BY <1>1, <1>3 DEF IsQueue, In
<1>5. q[k - 1] \in Files!Before(j)
  BY <1>4 DEF Files!Before, Active
<1> QED BY <1>4, <1>5 DEF Files!HasTurn

\* A job that has its turn ends, and the next one has it.
LEMMA EndKeepsQueues ==
  ASSUME Files!FilesAssumption, FilesIInv,
         NEW j \in Jobs, Files!HasTurn(j) \/ job[j].step = "read", Files!End(j)
  PROVE  QueuesAreOrdered'
<1>1. Active(j) /\ job[j].rt \in Requests /\ job[j].path \in Paths
  BY DEF Files!HasTurn, Active, FilesIInv, ActiveIsPlaced
<1> PICK rt \in Requests, p \in Paths : rt = job[j].rt /\ p = job[j].path
  BY <1>1
<1>2. /\ \A i \in Jobs \ {j} : job'[i] = job[i]
      /\ job'[j].step = "over"
  BY DEF Files!End, Files!NoJob, FilesIInv, FilesTypeOK
<1>3. tails'[rt][p] = IF tails[rt][p] = j THEN None ELSE tails[rt][p]
  BY DEF Files!End, Files!Released, FilesIInv, FilesTypeOK
<1>4. ASSUME NEW rt2 \in Requests, NEW p2 \in Paths, rt2 # rt \/ p2 # p
      PROVE  tails'[rt2][p2] = tails[rt2][p2]
  BY <1>4 DEF Files!End, Files!Released, FilesIInv, FilesTypeOK
<1>5. ASSUME NEW rt2 \in Requests, NEW p2 \in Paths, rt2 # rt \/ p2 # p
      PROVE  \E n \in Nat : \E q \in [1 .. n -> Jobs] : IsQueue(rt2, p2, n, q)'
  BY <1>2, <1>4, <1>5, OtherQueuesStand DEF In, Active
<1> PICK n \in Nat : \E q \in [1 .. n -> Jobs] : IsQueue(rt, p, n, q)
  BY DEF FilesIInv, QueuesAreOrdered
<1>6. PICK q \in [1 .. n -> Jobs] : IsQueue(rt, p, n, q)
  OBVIOUS
<1>7. n > 0 /\ q[1] = j
  BY <1>1, <1>6, FirstWorks DEF In
<1> DEFINE shorter == [k \in 1 .. n - 1 |-> q[k + 1]]
<1>8. /\ n - 1 \in Nat /\ shorter \in [1 .. n - 1 -> Jobs]
      /\ \A k \in 1 .. n - 1 : k + 1 \in 2 .. n /\ shorter[k] = q[k + 1] /\ shorter[k] \in Jobs \ {j}
  <2>1. n - 1 \in Nat /\ \A k \in 1 .. n - 1 : k + 1 \in 2 .. n /\ k + 1 \in 1 .. n /\ k + 1 # 1
    BY <1>7
  <2>2. \A k \in 1 .. n - 1 : q[k + 1] \in Jobs \ {j}
    <3>1. \A k, l \in 1 .. n : q[k] = q[l] => k = l
      BY <1>6 DEF IsQueue
    <3>2. 1 \in 1 .. n
      BY <1>7
    <3> QED BY <1>7, <2>1, <3>1, <3>2
  <2> QED BY <2>1, <2>2
<1> HIDE DEF shorter
<1>9. n - 1 > 0 => Files!Before(shorter[1])' = {}
  <2>1. SUFFICES ASSUME n - 1 > 0 PROVE Files!Before(shorter[1])' = {}
    OBVIOUS
  <2>2. shorter[1] = q[2] /\ q[2] \in Jobs \ {j}
    BY <1>8, <2>1
  <2>3. job'[shorter[1]].after = j
    <3>1. 2 \in 2 .. n
      BY <2>1
    <3>2. job[q[2]].after = q[1]
      BY <1>6, <3>1 DEF IsQueue
    <3> QED BY <1>2, <1>7, <2>2, <3>2
  <2> QED BY <1>2, <2>3 DEF Files!Before
<1>10. IsQueue(rt, p, n - 1, shorter)'
  <2>1. \A k \in 1 .. n - 1 : shorter[k] \in Jobs /\ In(shorter[k], rt, p)'
    <3>1. \A k \in 1 .. n - 1 : k + 1 \in 1 .. n
      OBVIOUS
    <3>2. \A k \in 1 .. n - 1 : In(shorter[k], rt, p)
      BY <1>6, <1>8, <3>1 DEF IsQueue
    <3> QED BY <1>2, <1>8, <3>2 DEF In, Active
  <2>2. ASSUME NEW i \in Jobs, In(i, rt, p)' PROVE \E k \in 1 .. n - 1 : shorter[k] = i
    <3>1. i # j /\ In(i, rt, p)
      BY <1>2, <2>2 DEF In, Active
    <3>2. PICK k \in 1 .. n : q[k] = i
      BY <1>6, <3>1 DEF IsQueue
    <3>3. k # 1 /\ k - 1 \in 1 .. n - 1
      BY <1>7, <3>1, <3>2
    <3>4. (k - 1) + 1 = k
      OBVIOUS
    <3>5. shorter[k - 1] = i
      BY <1>8, <3>2, <3>3, <3>4
    <3> QED BY <3>3, <3>5
  <2>3. \A k, l \in 1 .. n - 1 : shorter[k] = shorter[l] => k = l
    BY <1>6, <1>8 DEF IsQueue
  <2>4. ASSUME NEW k \in 2 .. n - 1
        PROVE  job'[shorter[k]].after = shorter[k - 1] /\ job'[shorter[k]].step = "queued"
    <3>1. k \in 1 .. n - 1 /\ k - 1 \in 1 .. n - 1 /\ k + 1 \in 2 .. n
      OBVIOUS
    <3>2. shorter[k] = q[k + 1] /\ shorter[k - 1] = q[k] /\ shorter[k] \in Jobs \ {j}
      BY <1>8, <3>1
    <3>3. job[q[k + 1]].after = q[k] /\ job[q[k + 1]].step = "queued"
      <4>1. (k + 1) - 1 = k
        OBVIOUS
      <4>2. \A l \in 2 .. n : job[q[l]].after = q[l - 1] /\ job[q[l]].step = "queued"
        BY <1>6 DEF IsQueue
      <4> QED BY <3>1, <4>1, <4>2
    <3> QED BY <1>2, <3>2, <3>3
  <2>5. tails'[rt][p] = IF n - 1 = 0 THEN None ELSE shorter[n - 1]
    <3>1. CASE n = 1
      BY <1>3, <1>6, <1>7, <3>1 DEF IsQueue
    <3>2. CASE n > 1
      <4>1. n - 1 \in 1 .. n - 1 /\ n \in 1 .. n /\ (n - 1) + 1 = n /\ n # 1
        BY <3>2
      <4>2. shorter[n - 1] = q[n] /\ q[n] # j
        BY <1>8, <4>1
      <4>3. tails[rt][p] = q[n]
        BY <1>6, <3>2 DEF IsQueue
      <4> QED BY <1>3, <3>2, <4>2, <4>3
    <3> QED BY <1>7, <3>1, <3>2
  <2> QED BY <1>9, <2>1, <2>2, <2>3, <2>4, <2>5 DEF IsQueue
<1>11. \E m \in Nat : \E l \in [1 .. m -> Jobs] : IsQueue(rt, p, m, l)'
  BY <1>8, <1>10
<1> QED BY <1>5, <1>11 DEF QueuesAreOrdered

\* Two jobs of one queue have not both read their file.
LEMMA OneReader ==
  ASSUME FilesIInv, NEW i \in Jobs, NEW j \in Jobs, job[i].step = "read", job[j].step = "read",
         job[i].rt = job[j].rt, job[i].path = job[j].path
  PROVE  i = j
<1>1. /\ job[i].rt \in Requests /\ job[i].path \in Paths
      /\ In(i, job[i].rt, job[i].path) /\ In(j, job[i].rt, job[i].path)
  BY DEF FilesIInv, ActiveIsPlaced, Active, In
<1>2. PICK n \in Nat : \E q \in [1 .. n -> Jobs] : IsQueue(job[i].rt, job[i].path, n, q)
  BY <1>1 DEF FilesIInv, QueuesAreOrdered
<1>3. PICK q \in [1 .. n -> Jobs] : IsQueue(job[i].rt, job[i].path, n, q)
  BY <1>2
<1> QED BY <1>1, <1>3, FirstWorks

(* The invariant *)

\* Every step keeps the types.
LEMMA FilesTypeStep ==
  ASSUME FilesTypeOK, ActiveIsPlaced, [Files!Next]_(Files!vars) PROVE FilesTypeOK'
<1> USE DEF FilesTypeOK, Contents, Files!loading
<1>1. ASSUME NEW r \in Requests, Files!Lookup(r) \/ Files!Build(r) PROVE FilesTypeOK'
  BY <1>1 DEF Files!Lookup, Files!Build
<1>2. Files!NoJob \in JobStates
  BY DEF Files!NoJob, JobStates
<1>3. ASSUME NEW j \in Jobs, NEW r \in Requests, NEW p \in Paths, NEW patch \in BOOLEAN,
             Files!Enqueue(j, r, p, patch)
      PROVE  FilesTypeOK'
  <2>1. PICK rt \in Requests : rt = runtime[r]
    BY <1>3 DEF Files!Enqueue
  <2>2. PICK tail \in Jobs \union {None} : tail = tails[rt][p]
    OBVIOUS
  <2>3. [Files!NoJob EXCEPT !.step = "queued", !.path = p, !.patch = patch, !.rt = rt,
                      !.after = tail] \in JobStates
    BY DEF Files!NoJob, JobStates
  <2> QED BY <1>3, <2>1, <2>2, <2>3 DEF Files!Enqueue
<1>4. ASSUME NEW j \in Jobs, Files!End(j) PROVE job' \in [Jobs -> JobStates]
  <2>1. [Files!NoJob EXCEPT !.step = "over"] \in JobStates
    BY <1>2 DEF JobStates
  <2> QED BY <1>4, <2>1 DEF Files!End
<1>5. ASSUME NEW j \in Jobs, Active(j), Files!End(j)
      PROVE  tails' \in [Requests -> [Paths -> Jobs \union {None}]]
  BY <1>5 DEF Files!End, Files!Released, ActiveIsPlaced
<1>6. ASSUME NEW j \in Jobs, Files!Refuse(j) PROVE FilesTypeOK'
  BY <1>4, <1>5, <1>6 DEF Files!Refuse, Files!HasTurn, Active
<1>7. ASSUME NEW j \in Jobs, Files!ReadFile(j) PROVE FilesTypeOK'
  <2>1. disk[job[j].path] \in Contents /\ job[j] \in JobStates
    BY <1>7 DEF Files!ReadFile, Files!HasTurn, Active, ActiveIsPlaced
  <2>2. [job[j] EXCEPT !.step = "read", !.read = disk[job[j].path]] \in JobStates
    BY <2>1 DEF JobStates
  <2>3. job' = [job EXCEPT ![j] = [job[j] EXCEPT !.step = "read", !.read = disk[job[j].path]]]
    BY <1>7, <2>1 DEF Files!ReadFile, JobStates
  <2> QED BY <1>7, <2>2, <2>3 DEF Files!ReadFile
<1>8. ASSUME NEW j \in Jobs, Files!Replace(j) PROVE FilesTypeOK'
  BY <1>4, <1>5, <1>8 DEF Files!Replace, Active
<1>9. ASSUME NEW j \in Jobs, Files!ReplaceFails(j) PROVE FilesTypeOK'
  BY <1>4, <1>5, <1>9 DEF Files!ReplaceFails, Active
<1>10. ASSUME NEW p \in Paths, Files!DeleteItem(p) \/ Files!CommandWrites(p) \/ \E q \in Paths : Files!RenameItem(p, q)
       PROVE  FilesTypeOK'
  BY <1>10 DEF Files!DeleteItem, Files!CommandWrites, Files!RenameItem, Files!Meddle
<1>11. CASE UNCHANGED Files!vars
  BY <1>11 DEF Files!vars
<1> QED BY <1>1, <1>3, <1>6, <1>7, <1>8, <1>9, <1>10, <1>11 DEF Files!Next

\* Every step keeps the invariant.
LEMMA FilesStep ==
  Files!FilesAssumption /\ FilesIInv /\ [Files!Next]_(Files!vars) => FilesIInv'
<1> SUFFICES ASSUME Files!FilesAssumption, FilesIInv, [Files!Next]_(Files!vars) PROVE FilesIInv'
  OBVIOUS
<1> DEFINE Rest == ActiveIsPlaced /\ QueuesAreOrdered /\ ReadersAreCurrent /\ ContentsAreWritten
<1>1. FilesTypeOK'
  BY FilesTypeStep DEF FilesIInv
<1>2. FilesTypeOK /\ Rest
  BY DEF FilesIInv
<1> SUFFICES Rest'
  BY <1>1 DEF FilesIInv
<1> HIDE DEF FilesIInv
<1>3. ASSUME UNCHANGED <<job, tails, disk, meddled>> PROVE Rest'
  BY <1>2, <1>3 DEF ActiveIsPlaced, QueuesAreOrdered, ReadersAreCurrent, ContentsAreWritten, Active,
                    In, IsQueue, Files!Before
<1>4. ASSUME NEW j \in Jobs, NEW r \in Requests, NEW p \in Paths, NEW patch \in BOOLEAN,
             Files!Enqueue(j, r, p, patch)
      PROVE  Rest'
  <2>1. QueuesAreOrdered'
    BY <1>4, EnqueueKeepsQueues
  <2>2. /\ job[j].step = "none" /\ job'[j].step = "queued" /\ job'[j].rt \in Requests
        /\ job'[j].path \in Paths /\ \A i \in Jobs \ {j} : job'[i] = job[i]
        /\ UNCHANGED <<disk, meddled>>
    BY <1>2, <1>4 DEF Files!Enqueue, Files!NoJob, FilesTypeOK, JobStates
  <2> QED BY <1>2, <2>1, <2>2 DEF ActiveIsPlaced, ReadersAreCurrent, ContentsAreWritten, Active
<1>5. ASSUME NEW j \in Jobs, Files!HasTurn(j) \/ job[j].step = "read", Files!End(j)
      PROVE  /\ QueuesAreOrdered' /\ ActiveIsPlaced'
             /\ job'[j].step = "over" /\ \A i \in Jobs \ {j} : job'[i] = job[i]
  <2>1. job'[j].step = "over" /\ \A i \in Jobs \ {j} : job'[i] = job[i]
    BY <1>2, <1>5 DEF Files!End, Files!NoJob, FilesTypeOK
  <2> QED BY <1>2, <1>5, <2>1, EndKeepsQueues DEF ActiveIsPlaced, Active
<1>6. ASSUME NEW j \in Jobs, Files!Refuse(j) \/ Files!ReplaceFails(j) PROVE Rest'
  <2>1. Files!HasTurn(j) \/ job[j].step = "read"
    BY <1>6 DEF Files!Refuse, Files!ReplaceFails
  <2>2. Files!End(j) /\ UNCHANGED <<disk, meddled>>
    BY <1>6 DEF Files!Refuse, Files!ReplaceFails
  <2> QED BY <1>2, <1>5, <2>1, <2>2 DEF ReadersAreCurrent, ContentsAreWritten
<1>7. ASSUME NEW j \in Jobs, Files!ReadFile(j) PROVE Rest'
  <2>1. /\ job[j].step = "queued" /\ Files!HasTurn(j) /\ job'[j].step = "read"
        /\ job'[j].path = job[j].path /\ job'[j].rt = job[j].rt /\ job'[j].after = job[j].after
        /\ job'[j].read = disk[job[j].path]
        /\ \A i \in Jobs \ {j} : job'[i] = job[i]
        /\ UNCHANGED <<disk, tails>> /\ meddled' = meddled \ {j}
    BY <1>2, <1>7 DEF Files!ReadFile, Files!HasTurn, FilesTypeOK, JobStates
  <2>2. \A i \in Jobs, rt \in Requests, p \in Paths : In(i, rt, p)' <=> In(i, rt, p)
    BY <2>1 DEF In, Active
  <2>3. \A i \in Jobs : Files!Before(i)' = Files!Before(i)
    BY <2>1 DEF Files!Before
  <2>4. ASSUME NEW rt \in Requests, NEW p \in Paths
        PROVE  \E n \in Nat : \E q \in [1 .. n -> Jobs] : IsQueue(rt, p, n, q)'
    <3>1. PICK n \in Nat : \E q \in [1 .. n -> Jobs] : IsQueue(rt, p, n, q)
      BY <1>2 DEF QueuesAreOrdered
    <3>2. PICK q \in [1 .. n -> Jobs] : IsQueue(rt, p, n, q)
      BY <3>1
    <3>3. \A k \in 2 .. n : q[k] \in Jobs \ {j}
      <4>1. ASSUME NEW k \in 2 .. n, q[k] = j PROVE FALSE
        <5>1. k \in 1 .. n /\ 1 \in 1 .. n /\ k # 1
          OBVIOUS
        <5>2. In(j, rt, p)
          BY <3>2, <4>1, <5>1 DEF IsQueue
        <5>3. q[1] = j
          BY <2>1, <3>2, <5>2, FirstWorks
        <5> QED BY <3>2, <4>1, <5>1, <5>3 DEF IsQueue
      <4> QED BY <3>2, <4>1
    <3>4. \A k \in 2 .. n : job'[q[k]] = job[q[k]]
      BY <2>1, <3>3
    <3>5. n > 0 => Files!Before(q[1])' = {}
      BY <2>3, <3>2 DEF IsQueue
    <3>6. tails'[rt][p] = tails[rt][p]
      BY <2>1
    <3>7. \A i \in Jobs : In(i, rt, p)' <=> In(i, rt, p)
      BY <2>2
    <3>8. IsQueue(rt, p, n, q)'
      BY <3>2, <3>4, <3>5, <3>6, <3>7 DEF IsQueue
    <3> QED BY <3>8
  <2> QED BY <1>2, <2>1, <2>4
          DEF ActiveIsPlaced, QueuesAreOrdered, ReadersAreCurrent, ContentsAreWritten, Active
<1>8. ASSUME NEW j \in Jobs, Files!Replace(j) PROVE Rest'
  <2>1. /\ job[j].step = "read" /\ Files!End(j) /\ disk' = [disk EXCEPT ![job[j].path] = j]
        /\ meddled' = meddled \union {i \in Files!Readers({job[j].path}) : job[i].rt # job[j].rt}
    BY <1>8 DEF Files!Replace
  <2>2. ASSUME NEW i \in Jobs, job'[i].step = "read"
        PROVE  disk'[job'[i].path] = job'[i].read \/ i \in meddled'
    <3>1. i # j /\ job'[i] = job[i] /\ job[i].step = "read"
      BY <1>5, <2>1, <2>2
    <3>2. job[i].path \in Paths
      BY <1>2, <3>1 DEF ActiveIsPlaced, Active
    <3>3. CASE job[i].path = job[j].path
      <4>1. job[i].rt # job[j].rt
        BY <2>1, <3>1, <3>3, OneReader
      <4> QED BY <2>1, <3>1, <3>3, <4>1 DEF Files!Readers
    <3>4. CASE job[i].path # job[j].path
      <4>1. disk'[job[i].path] = disk[job[i].path]
        BY <1>2, <2>1, <3>2, <3>4 DEF FilesTypeOK
      <4> QED BY <1>2, <2>1, <3>1, <4>1 DEF ReadersAreCurrent
    <3> QED BY <3>3, <3>4
  <2>3. ContentsAreWritten'
    BY <1>2, <1>5, <2>1 DEF ContentsAreWritten, FilesTypeOK
  <2> QED BY <1>5, <2>1, <2>2, <2>3 DEF ReadersAreCurrent
<1>9. ASSUME NEW touched \in SUBSET Paths, NEW contents, Files!Meddle(touched, contents),
             \A p \in Paths \ touched : contents[p] = disk[p],
             \A p \in touched : contents[p] \in {None, "edited"} \/ \E o \in Paths : contents[p] = disk[o]
      PROVE  Rest'
  <2>1. /\ disk' = contents /\ meddled' = meddled \union Files!Readers(touched)
        /\ UNCHANGED <<job, tails>>
    BY <1>9 DEF Files!Meddle
  <2>2. QueuesAreOrdered' /\ ActiveIsPlaced'
    BY <1>2, <2>1 DEF QueuesAreOrdered, ActiveIsPlaced, Active, In, IsQueue, Files!Before
  <2>3. ReadersAreCurrent'
    BY <1>2, <1>9, <2>1 DEF ReadersAreCurrent, Files!Readers, ActiveIsPlaced, Active
  <2>4. ContentsAreWritten'
    BY <1>2, <1>9, <2>1 DEF ContentsAreWritten, Files!FilesAssumption
  <2> QED BY <2>2, <2>3, <2>4
<1>10. ASSUME NEW p \in Paths, Files!DeleteItem(p) \/ Files!CommandWrites(p) PROVE Rest'
  <2>1. PICK c \in {None, "edited"} : Files!Meddle({p}, [disk EXCEPT ![p] = c])
    BY <1>10 DEF Files!DeleteItem, Files!CommandWrites
  <2>2. PICK contents : contents = [disk EXCEPT ![p] = c]
    OBVIOUS
  <2>3. (\A o \in Paths \ {p} : contents[o] = disk[o]) /\ contents[p] = c
    BY <1>2, <2>2 DEF FilesTypeOK
  <2>4. \A o \in {p} : contents[o] \in {None, "edited"} \/ \E l \in Paths : contents[o] = disk[l]
    BY <2>3
  <2>5. Files!Meddle({p}, contents) /\ {p} \in SUBSET Paths
    BY <2>1, <2>2
  <2> HIDE DEF Rest
  <2> QED BY <1>9, <2>3, <2>4, <2>5
<1>11. ASSUME NEW p \in Paths, NEW q \in Paths, Files!RenameItem(p, q) PROVE Rest'
  <2>1. p # q /\ Files!Meddle({p, q}, [disk EXCEPT ![q] = disk[p], ![p] = None])
    BY <1>11 DEF Files!RenameItem
  <2>2. PICK contents : contents = [disk EXCEPT ![q] = disk[p], ![p] = None]
    OBVIOUS
  <2>3. /\ \A o \in Paths \ {p, q} : contents[o] = disk[o]
        /\ contents[p] = None /\ contents[q] = disk[p]
    BY <1>2, <2>1, <2>2 DEF FilesTypeOK
  <2>4. \A o \in {p, q} : contents[o] \in {None, "edited"} \/ \E l \in Paths : contents[o] = disk[l]
    BY <2>3
  <2>5. Files!Meddle({p, q}, contents) /\ {p, q} \in SUBSET Paths
    BY <2>1, <2>2
  <2> HIDE DEF Rest
  <2> QED BY <1>9, <2>3, <2>4, <2>5
<1>12. ASSUME NEW r \in Requests, Files!Lookup(r) \/ Files!Build(r) PROVE Rest'
  BY <1>3, <1>12 DEF Files!Lookup, Files!Build
<1>13. CASE UNCHANGED Files!vars
  BY <1>3, <1>13 DEF Files!vars
<1> QED BY <1>4, <1>6, <1>7, <1>8, <1>10, <1>11, <1>12, <1>13 DEF Files!Next

\* The invariant holds before any write.
LEMMA FilesStart == Files!FilesAssumption /\ Files!Init => FilesIInv
<1> SUFFICES ASSUME Files!FilesAssumption, Files!Init PROVE FilesIInv
  OBVIOUS
<1>1. FilesTypeOK
  BY DEF Files!Init, FilesTypeOK, Contents, JobStates, Files!NoJob
<1>2. \A j \in Jobs : job[j].step = "none"
  BY DEF Files!Init, Files!NoJob
<1>3. ASSUME NEW rt \in Requests, NEW p \in Paths
      PROVE  \E n \in Nat : \E q \in [1 .. n -> Jobs] : IsQueue(rt, p, n, q)
  <2> DEFINE empty == [k \in 1 .. 0 |-> None]
  <2>1. empty \in [1 .. 0 -> Jobs] /\ tails[rt][p] = None
    BY DEF Files!Init
  <2>2. IsQueue(rt, p, 0, empty)
    BY <1>2, <2>1 DEF IsQueue, In, Active
  <2> QED BY <2>1, <2>2
<1>4. ContentsAreWritten
  BY DEF Files!Init, ContentsAreWritten, Files!FilesAssumption
<1> QED
  BY <1>1, <1>2, <1>3, <1>4 DEF FilesIInv, QueuesAreOrdered, ActiveIsPlaced, ReadersAreCurrent, Active

\* What docs/architecture.md says of all writes to a file holds of those that pass
\* through one runtime: never are two of them under way together.
WritesAreSerialInARuntime ==
  \A i, j \in Jobs :
    job[i].step = "read" /\ job[j].step = "read" /\ job[i].path = job[j].path /\ job[i].rt = job[j].rt
    => i = j

\* The queue of a runtime (FileMutationQueue.run, with its tails) serialises the
\* writes of each file, whatever fails or is aborted on the way.
THEOREM QueuesSerialiseWrites ==
  ASSUME Files!FilesAssumption PROVE Files!Spec => []WritesAreSerialInARuntime
<1>1. (Files!Init => FilesIInv) /\ (FilesIInv /\ [Files!Next]_(Files!vars) => FilesIInv')
  BY FilesStart, FilesStep
<1>2. ASSUME FilesIInv PROVE WritesAreSerialInARuntime
  <2>1. SUFFICES ASSUME NEW i \in Jobs, NEW j \in Jobs,
                        job[i].step = "read", job[j].step = "read",
                        job[i].path = job[j].path, job[i].rt = job[j].rt
                 PROVE  i = j
    BY DEF WritesAreSerialInARuntime
  <2> QED BY <1>2, <2>1, OneReader
<1> QED BY <1>1, <1>2, PTL DEF Files!Spec

\* A patch replaces the content its old text was checked against
\* (workspace-manager/index.ts, file-mutation-queue.ts), unless a rename, a delete, a
\* command or the queue of a second runtime changed the file behind its back.
THEOREM PatchesReplaceWhatWasChecked ==
  ASSUME Files!FilesAssumption PROVE Files!Spec => Files!PatchesReplaceWhatTheyRead
<1> DEFINE Checked == \A j \in Jobs :
      job[j].patch /\ job[j].step = "read" /\ disk'[job[j].path] = j =>
        disk[job[j].path] = job[j].read \/ j \in meddled
<1>1. FilesIInv => Checked
  BY DEF FilesIInv, ReadersAreCurrent
<1>2. FilesIInv /\ [Files!Next]_(Files!vars) => [Checked]_(Files!vars)
  BY <1>1
<1>3. (Files!Init => FilesIInv) /\ (FilesIInv /\ [Files!Next]_(Files!vars) => FilesIInv')
  BY FilesStart, FilesStep
<1> QED BY <1>2, <1>3, PTL DEF Files!Spec, Files!PatchesReplaceWhatTheyRead

-------------------------------------------------------------------------------
(* The connection to an MCP server *)

Outputs == [id : Nat, rest : BOOLEAN]
ServerProcesses == [alive : BOOLEAN, hello : BOOLEAN, inbox : SUBSET Nat, out : SUBSET Outputs]
ClientCalls ==
  [at : {"idle", "init", "go", "waiting", "done", "failed"}, on : Nat, id : Nat, sent : Nat, from : Nat]
Buffers == Nat \union {-1}
Connections == [child : Nat, init : Nat, negotiated : BOOLEAN, next : Nat \ {0}, buffer : Buffers]

McpTypeOK ==
  /\ conn \in Connections
  /\ pending \in SUBSET Nat
  /\ inits \in SUBSET [id : Nat, notifying : BOOLEAN]
  /\ mcpCalls \in [McpCalls -> ClientCalls]
  /\ servers \in Seq(ServerProcesses)
  /\ crossed \in BOOLEAN

\* the numbers a child process has to answer, or has answered
Numbers(s) == s.inbox \union {m.id : m \in s.out}
Greeted == conn.child # 0 /\ servers[conn.child].hello

\* who waits for an answer has a child, and so has an initialization
ConnectionHeld ==
  /\ conn.child \in 0 .. Len(servers)
  /\ pending # {} => conn.child # 0
  /\ conn.child = 0 => conn.init = 0

\* numbers are never used again; the initialization of this connection greeted its child
HandshakesGreet ==
  \A i \in inits :
    /\ i.id \in 1 .. conn.next - 1
    /\ i.notifying /\ i.id = conn.init => Greeted

\* who may call has a child that was greeted
CallersAreGreeted ==
  ~crossed /\ (conn.negotiated \/ ~Mcp!NoneGoes) => Greeted

\* what a child was asked, or has answered, has a number that was given out
NumbersAreUsed ==
  \A n \in DOMAIN servers : \A id \in Numbers(servers[n]) : id < conn.next

\* the number of a call is at the child it was sent to, and at no other
CallIsServed(c) ==
  /\ mcpCalls[c].at \in {"waiting", "done"} =>
       /\ mcpCalls[c].sent \in DOMAIN servers
       /\ servers[mcpCalls[c].sent].hello \/ crossed
  /\ mcpCalls[c].at = "waiting" =>
       /\ mcpCalls[c].id \in 1 .. conn.next - 1
       /\ \A n \in DOMAIN servers :
            mcpCalls[c].id \in Numbers(servers[n]) => n = mcpCalls[c].sent
  /\ mcpCalls[c].at = "done" => mcpCalls[c].from = mcpCalls[c].sent
CallsAreServed == \A c \in McpCalls : CallIsServed(c)

McpIInv ==
  /\ McpTypeOK /\ ConnectionHeld /\ HandshakesGreet /\ CallersAreGreeted
  /\ NumbersAreUsed /\ CallsAreServed

LEMMA ServerTypes ==
  ASSUME McpTypeOK
  PROVE  /\ Len(servers) \in Nat /\ DOMAIN servers = 1 .. Len(servers)
         /\ \A n \in DOMAIN servers : servers[n] \in ServerProcesses
BY DEF McpTypeOK

\* What no step does to the child processes and to the numbers: a greeting is not taken
\* back, and only the next number is new to a child.
ChildrenKeep ==
  /\ Len(servers') >= Len(servers)
  /\ \A n \in DOMAIN servers : servers[n].hello => servers'[n].hello
  /\ \A n \in DOMAIN servers' : \A id \in Numbers(servers'[n]) :
       id = conn.next \/ (n \in DOMAIN servers /\ id \in Numbers(servers[n]))
  /\ conn'.next \in Nat /\ conn'.next >= conn.next
  /\ crossed => crossed'

\* A call that a step does not touch, or takes out of wait, keeps its number to its child.
LEMMA CallLeftAlone ==
  ASSUME McpTypeOK, McpTypeOK', CallsAreServed, ChildrenKeep, NEW c \in McpCalls,
         mcpCalls'[c] = mcpCalls[c] \/ mcpCalls'[c].at \notin {"waiting", "done"}
  PROVE  CallIsServed(c)'
<1>1. CASE mcpCalls'[c].at \notin {"waiting", "done"}
  BY <1>1 DEF CallIsServed
<1> SUFFICES ASSUME mcpCalls'[c] = mcpCalls[c], mcpCalls[c].at \in {"waiting", "done"}
             PROVE  CallIsServed(c)'
  BY <1>1
<1>2. /\ Len(servers) \in Nat /\ Len(servers') \in Nat
      /\ DOMAIN servers = 1 .. Len(servers) /\ DOMAIN servers' = 1 .. Len(servers')
  BY DEF McpTypeOK
<1>3. CallIsServed(c)
  BY DEF CallsAreServed
<1>4. mcpCalls[c].sent \in DOMAIN servers' /\ (servers'[mcpCalls[c].sent].hello \/ crossed')
  <2>1. mcpCalls[c].sent \in DOMAIN servers /\ (servers[mcpCalls[c].sent].hello \/ crossed)
    BY <1>3 DEF CallIsServed
  <2> QED BY <2>1, <1>2 DEF ChildrenKeep
<1>5. ASSUME mcpCalls[c].at = "waiting"
      PROVE  /\ mcpCalls[c].id \in 1 .. conn'.next - 1
             /\ \A n \in DOMAIN servers' :
                  mcpCalls[c].id \in Numbers(servers'[n]) => n = mcpCalls[c].sent
  <2>1. mcpCalls[c].id \in 1 .. conn.next - 1 /\ conn.next \in Nat
    BY <1>3, <1>5 DEF CallIsServed, McpTypeOK, Connections
  <2>2. mcpCalls[c].id # conn.next /\ mcpCalls[c].id \in 1 .. conn'.next - 1
    BY <2>1 DEF ChildrenKeep
  <2>3. ASSUME NEW n \in DOMAIN servers', mcpCalls[c].id \in Numbers(servers'[n])
        PROVE  n = mcpCalls[c].sent
    <3>1. n \in DOMAIN servers /\ mcpCalls[c].id \in Numbers(servers[n])
      BY <2>2, <2>3 DEF ChildrenKeep
    <3> QED BY <3>1, <1>3, <1>5 DEF CallIsServed
  <2> QED BY <2>2, <2>3
<1>6. mcpCalls[c].at = "done" => mcpCalls[c].from = mcpCalls[c].sent
  BY <1>3 DEF CallIsServed
<1> QED BY <1>4, <1>5, <1>6 DEF CallIsServed

\* No child process is new, and none is asked anything.
ServersKeep ==
  /\ servers' \in Seq(ServerProcesses) /\ Len(servers') = Len(servers)
  /\ \A n \in DOMAIN servers :
       /\ servers[n].hello => servers'[n].hello
       /\ Numbers(servers'[n]) \subseteq Numbers(servers[n])

LEMMA KeepingServersKeepsChildren ==
  ASSUME McpTypeOK, ServersKeep, conn'.next \in Nat, conn'.next >= conn.next, crossed => crossed'
  PROVE  ChildrenKeep
<1>1. DOMAIN servers' = DOMAIN servers /\ Len(servers') >= Len(servers)
  BY ServerTypes DEF ServersKeep
<1> QED BY <1>1 DEF ServersKeep, ChildrenKeep

\* One child process is replaced by one that was not asked anything more.
LEMMA OneServerChanges ==
  ASSUME McpTypeOK, NEW n \in DOMAIN servers, NEW s \in ServerProcesses,
         servers' = [servers EXCEPT ![n] = s],
         servers[n].hello => s.hello, Numbers(s) \subseteq Numbers(servers[n])
  PROVE  ServersKeep
<1>1. servers \in Seq(ServerProcesses)
  BY DEF McpTypeOK
<1> QED BY <1>1 DEF ServersKeep

LEMMA UsedNumbersStay ==
  ASSUME McpTypeOK, NumbersAreUsed, ServersKeep, conn'.next = conn.next
  PROVE  NumbersAreUsed'
<1>1. DOMAIN servers' = DOMAIN servers
  BY ServerTypes DEF ServersKeep
<1> QED BY <1>1 DEF ServersKeep, NumbersAreUsed

\* A request that is rejected takes its callers out of wait.
LEMMA RejectedCallsFail ==
  ASSUME McpTypeOK, NEW ids, Mcp!Reject(ids)
  PROVE  /\ mcpCalls' \in [McpCalls -> ClientCalls]
         /\ inits' \in SUBSET [id : Nat, notifying : BOOLEAN] /\ inits' \subseteq inits
         /\ \A c \in McpCalls : mcpCalls'[c] = mcpCalls[c] \/ mcpCalls'[c].at = "failed"
<1>1. inits' \subseteq inits /\ inits' \in SUBSET [id : Nat, notifying : BOOLEAN]
  BY DEF Mcp!Reject, McpTypeOK
<1>2. ASSUME NEW c \in McpCalls
      PROVE  [mcpCalls[c] EXCEPT !.at = "failed"] \in ClientCalls
  BY DEF McpTypeOK, ClientCalls
<1>3. ASSUME NEW c \in McpCalls
      PROVE  [mcpCalls[c] EXCEPT !.at = "failed"].at = "failed"
  BY DEF McpTypeOK, ClientCalls
<1>4. \A c \in McpCalls : mcpCalls[c] \in ClientCalls
  BY DEF McpTypeOK
<1> QED BY <1>1, <1>2, <1>3, <1>4 DEF Mcp!Reject

LEMMA BuffersHoldNumbers == -1 \in Buffers /\ \A n \in Nat : n \in Buffers
BY DEF Buffers

LEMMA ResetCloses ==
  ASSUME McpTypeOK
  PROVE  /\ Mcp!Reset(conn) \in Connections /\ Mcp!Reset(conn).next = conn.next
         /\ Mcp!Reset(conn).init = 0 /\ Mcp!Reset(conn).child = 0
         /\ Mcp!Reset(conn).negotiated = FALSE /\ Mcp!Reset(conn).buffer = 0
<1>1. conn \in Connections /\ 0 \in Buffers
  BY BuffersHoldNumbers DEF McpTypeOK
<1> QED BY <1>1 DEF Connections, Mcp!Reset

\* A connection given up, or an initialization that failed on one already given up.
LEMMA GivingUpPreserves ==
  ASSUME McpIInv, Mcp!NoneGoes, NEW ids, Mcp!Reject(ids),
         conn' \in Connections, conn'.next = conn.next, conn'.init = 0,
         conn'.child = 0 \/ conn'.child = conn.child,
         conn'.negotiated => conn.negotiated /\ conn'.child = conn.child,
         pending' \subseteq pending, conn'.child = 0 => pending' = {},
         ServersKeep, crossed' = crossed
  PROVE  McpIInv'
<1> USE DEF McpIInv
<1>1. McpTypeOK'
  BY RejectedCallsFail DEF McpTypeOK, ServersKeep
<1>2. Len(servers) \in Nat /\ DOMAIN servers = 1 .. Len(servers) /\ DOMAIN servers' = DOMAIN servers
  BY ServerTypes, <1>1 DEF McpTypeOK, ServersKeep
<1>3. ConnectionHeld'
  BY <1>2 DEF ConnectionHeld, ServersKeep
<1>4. HandshakesGreet'
  BY RejectedCallsFail DEF HandshakesGreet
<1>5. CallersAreGreeted'
  <2>1. Mcp!NoneGoes'
    BY RejectedCallsFail DEF Mcp!NoneGoes
  <2>2. ASSUME ~crossed', conn'.negotiated PROVE Greeted'
    <3>1. Greeted /\ conn'.child = conn.child
      BY <2>2 DEF CallersAreGreeted
    <3>2. conn.child \in DOMAIN servers
      BY <3>1, <1>2 DEF Greeted, ConnectionHeld
    <3> QED BY <3>1, <3>2 DEF Greeted, ServersKeep
  <2> QED BY <2>1, <2>2 DEF CallersAreGreeted
<1>6. ChildrenKeep
  <2>1. conn.next \in Nat
    BY DEF McpTypeOK, Connections
  <2> QED BY <2>1, KeepingServersKeepsChildren
<1>7. CallsAreServed'
  BY <1>1, <1>6, RejectedCallsFail, CallLeftAlone DEF CallsAreServed
<1>8. NumbersAreUsed'
  BY UsedNumbersStay
<1> QED BY <1>1, <1>3, <1>4, <1>5, <1>7, <1>8

\* The connection is the same, except for the part of a line that was read.
ConnectionKeeps ==
  /\ conn' \in Connections /\ conn'.child = conn.child /\ conn'.init = conn.init
  /\ conn'.negotiated = conn.negotiated /\ conn'.next = conn.next

\* A step on the same connection.
LEMMA SteadyPreserves ==
  ASSUME McpIInv, ServersKeep, ConnectionKeeps, crossed' = crossed,
         pending' \subseteq pending,
         inits' \in SUBSET [id : Nat, notifying : BOOLEAN], inits' \subseteq inits,
         mcpCalls' \in [McpCalls -> ClientCalls],
         \A c \in McpCalls : mcpCalls'[c].at = "go" => mcpCalls[c].at = "go" \/ conn.negotiated,
         \A c \in McpCalls : \/ mcpCalls'[c] = mcpCalls[c]
                             \/ mcpCalls'[c].at \notin {"waiting", "done"}
                             \/ CallIsServed(c)'
  PROVE  McpIInv'
<1> USE DEF McpIInv, ConnectionKeeps
<1>1. McpTypeOK'
  BY DEF McpTypeOK, ServersKeep
<1>2. Len(servers) \in Nat /\ DOMAIN servers = 1 .. Len(servers) /\ DOMAIN servers' = DOMAIN servers
  BY ServerTypes, <1>1 DEF McpTypeOK, ServersKeep
<1>3. ConnectionHeld'
  BY <1>2 DEF ConnectionHeld, ServersKeep
<1>4. Greeted => Greeted'
  <2>1. conn.child # 0 => conn.child \in DOMAIN servers
    BY <1>2 DEF ConnectionHeld
  <2> QED BY <2>1 DEF Greeted, ServersKeep
<1>5. HandshakesGreet'
  BY <1>4 DEF HandshakesGreet
<1>6. CallersAreGreeted'
  BY <1>4 DEF CallersAreGreeted, Mcp!NoneGoes
<1>7. ChildrenKeep
  <2>1. conn.next \in Nat
    BY DEF McpTypeOK, Connections
  <2> QED BY <2>1, KeepingServersKeepsChildren
<1>8. CallsAreServed'
  BY <1>1, <1>7, CallLeftAlone DEF CallsAreServed
<1>9. NumbersAreUsed'
  BY UsedNumbersStay
<1> QED BY <1>1, <1>3, <1>5, <1>6, <1>8, <1>9

LEMMA SameConnection ==
  ASSUME McpTypeOK, NEW b \in Buffers, conn' = conn \/ conn' = [conn EXCEPT !.buffer = b]
  PROVE  ConnectionKeeps
<1>1. conn \in Connections
  BY DEF McpTypeOK
<1> QED BY <1>1 DEF Connections, ConnectionKeeps

\* One call changes.
LEMMA OneCallChanges ==
  ASSUME McpTypeOK, NEW c \in McpCalls, NEW new \in ClientCalls,
         mcpCalls' = [mcpCalls EXCEPT ![c] = new]
  PROVE  /\ mcpCalls' \in [McpCalls -> ClientCalls] /\ mcpCalls'[c] = new
         /\ \A d \in McpCalls \ {c} : mcpCalls'[d] = mcpCalls[d]
BY DEF McpTypeOK

\* Only child processes change.
LEMMA KeepingPreserves ==
  ASSUME McpIInv, ServersKeep, UNCHANGED <<conn, pending, inits, mcpCalls, crossed>>
  PROVE  McpIInv'
<1>1. ConnectionKeeps
  BY BuffersHoldNumbers, SameConnection DEF McpIInv
<1> QED BY <1>1, SteadyPreserves DEF McpIInv, McpTypeOK

LEMMA FailedInitializationPreserves ==
  ASSUME McpIInv, Mcp!NoneGoes, NEW id \in Nat, Mcp!InitFails(id), ServersKeep, crossed' = crossed
  PROVE  McpIInv'
<1>1. conn \in Connections /\ (conn.child = 0 => pending = {})
  BY DEF McpIInv, McpTypeOK, ConnectionHeld
<1>2. CASE conn.child = 0
  <2>1. conn' = [conn EXCEPT !.init = 0] /\ Mcp!Reject({id}) /\ pending' = pending
    BY <1>2 DEF Mcp!InitFails
  <2>2. /\ conn' \in Connections /\ conn'.next = conn.next /\ conn'.init = 0
        /\ conn'.child = conn.child /\ conn'.negotiated = conn.negotiated
    BY <2>1, <1>1 DEF Connections
  <2> QED BY <2>1, <2>2, <1>1, GivingUpPreserves
<1>3. CASE conn.child # 0
  <2>1. conn' = Mcp!Reset(conn) /\ Mcp!Reject(pending \union {id}) /\ pending' = {}
    BY <1>3 DEF Mcp!InitFails
  <2>2. /\ conn' \in Connections /\ conn'.next = conn.next /\ conn'.init = 0
        /\ conn'.child = 0 /\ conn'.negotiated = FALSE
    BY <2>1, ResetCloses DEF McpIInv
  <2> QED BY <2>1, <2>2, GivingUpPreserves
<1> QED BY <1>2, <1>3

LEMMA RequestFailsPreserves ==
  ASSUME McpIInv, NEW id \in pending, Mcp!RequestFails(id)
  PROVE  McpIInv'
<1>1. /\ Mcp!NoneGoes /\ id \in Nat
      /\ servers' = servers /\ attached' = attached /\ crossed' = crossed
  BY DEF Mcp!RequestFails, McpIInv, McpTypeOK
<1>2. ServersKeep
  BY <1>1 DEF ServersKeep, McpIInv, McpTypeOK
<1>3. CASE Mcp!IsInit(id)
  <2>1. Mcp!InitFails(id)
    BY <1>3 DEF Mcp!RequestFails
  <2> QED BY <1>1, <1>2, <2>1, FailedInitializationPreserves
<1>4. CASE ~Mcp!IsInit(id)
  <2>1. pending' = pending \ {id} /\ Mcp!Reject({id}) /\ conn' = conn
    BY <1>4 DEF Mcp!RequestFails
  <2>2. ConnectionKeeps
    BY <2>1, BuffersHoldNumbers, SameConnection DEF McpIInv
  <2> QED BY <1>1, <1>2, <2>1, <2>2, RejectedCallsFail, SteadyPreserves DEF McpIInv
<1> QED BY <1>3, <1>4

LEMMA ChildLostPreserves ==
  ASSUME McpIInv, NEW n \in DOMAIN servers, Mcp!ChildLost(n)
  PROVE  McpIInv'
<1>1. Mcp!NoneGoes /\ attached' = attached /\ crossed' = crossed
  BY DEF Mcp!ChildLost
<1>2. ASSUME NEW alive \in BOOLEAN, servers' = [servers EXCEPT ![n].alive = alive]
      PROVE  ServersKeep
  <2> DEFINE s == [servers[n] EXCEPT !.alive = alive]
  <2>1. servers[n] \in ServerProcesses
    BY ServerTypes DEF McpIInv
  <2>2. s \in ServerProcesses /\ s.hello = servers[n].hello /\ Numbers(s) = Numbers(servers[n])
    BY <2>1 DEF ServerProcesses, Numbers
  <2>3. servers' = [servers EXCEPT ![n] = s]
    BY <1>2
  <2> HIDE DEF s
  <2> QED BY <2>2, <2>3, OneServerChanges DEF McpIInv
<1>3. CASE n = conn.child
  <2>1. PICK alive \in BOOLEAN : servers' = [servers EXCEPT ![n].alive = alive]
    BY <1>3 DEF Mcp!ChildLost
  <2>2. conn' = Mcp!Reset(conn) /\ pending' = {} /\ Mcp!Reject(pending)
    BY <1>3 DEF Mcp!ChildLost
  <2>3. ServersKeep
    BY <1>2, <2>1
  <2> QED BY <1>1, <2>2, <2>3, ResetCloses, GivingUpPreserves DEF McpIInv
<1>4. CASE n # conn.child
  <2>1. servers' = [servers EXCEPT ![n].alive = FALSE] /\ UNCHANGED <<conn, pending, inits, mcpCalls>>
    BY <1>4 DEF Mcp!ChildLost
  <2>2. ServersKeep
    BY <1>2, <2>1
  <2> QED BY <1>1, <2>1, <2>2, KeepingPreserves
<1> QED BY <1>3, <1>4

LEMMA ClosePreserves ==
  ASSUME McpIInv, Mcp!Close
  PROVE  McpIInv'
<1>1. /\ Mcp!NoneGoes /\ servers' = servers /\ crossed' = crossed
      /\ ServersKeep
  BY DEF Mcp!Close, ServersKeep, McpIInv, McpTypeOK
<1>2. CASE conn.child = 0
  <2>1. UNCHANGED <<conn, pending, inits, mcpCalls>>
    BY <1>2 DEF Mcp!Close
  <2> QED BY <1>1, <2>1, KeepingPreserves
<1>3. CASE conn.child # 0
  <2>1. /\ conn' = [Mcp!Reset(conn) EXCEPT !.buffer = conn.buffer]
        /\ pending' = {} /\ Mcp!Reject(pending)
    BY <1>3 DEF Mcp!Close
  <2>2. /\ conn' \in Connections /\ conn'.next = conn.next /\ conn'.init = 0
        /\ conn'.child = 0 /\ conn'.negotiated = FALSE
    BY <2>1, ResetCloses DEF Connections, McpIInv, McpTypeOK
  <2> QED BY <1>1, <2>1, <2>2, GivingUpPreserves
<1> QED BY <1>2, <1>3

LEMMA ServerAnswersPreserves ==
  ASSUME McpIInv, NEW n \in DOMAIN servers, NEW id, Mcp!ServerAnswers(n, id)
  PROVE  McpIInv'
<1> DEFINE s == [servers[n] EXCEPT !.inbox = @ \ {id}, !.out = @ \union {[id |-> id, rest |-> FALSE]}]
<1>1. /\ UNCHANGED <<conn, pending, inits, mcpCalls, crossed>> /\ id \in servers[n].inbox
      /\ servers' = [servers EXCEPT ![n] = s]
  BY DEF Mcp!ServerAnswers
<1>2. servers[n] \in ServerProcesses
  BY ServerTypes DEF McpIInv
<1>3. s \in ServerProcesses /\ s.hello = servers[n].hello
  <2>1. id \in Nat /\ servers[n].inbox \ {id} \in SUBSET Nat /\ servers[n].out \in SUBSET Outputs
    BY <1>1, <1>2 DEF ServerProcesses
  <2>2. [id |-> id, rest |-> FALSE] \in Outputs
    BY <2>1 DEF Outputs
  <2>3. servers[n].out \union {[id |-> id, rest |-> FALSE]} \in SUBSET Outputs
    BY <2>1, <2>2
  <2> QED BY <1>2, <2>1, <2>3 DEF ServerProcesses
<1>4. Numbers(s) \subseteq Numbers(servers[n])
  BY <1>1, <1>2 DEF Numbers, ServerProcesses
<1> HIDE DEF s
<1>5. ServersKeep
  BY <1>1, <1>3, <1>4, OneServerChanges DEF McpIInv
<1> QED BY <1>1, <1>5, KeepingPreserves

\* What is read of the output of a child process is gone from it.
LEMMA ReadingKeepsServers ==
  ASSUME McpTypeOK, NEW n \in DOMAIN servers, NEW m \in servers[n].out,
         servers' = [servers EXCEPT ![n].out = @ \ {m}]
  PROVE  ServersKeep
<1> DEFINE s == [servers[n] EXCEPT !.out = @ \ {m}]
<1>1. servers[n] \in ServerProcesses /\ servers' = [servers EXCEPT ![n] = s]
  BY ServerTypes
<1>2. s \in ServerProcesses /\ s.hello = servers[n].hello
  <2>1. servers[n].out \ {m} \in SUBSET Outputs
    BY <1>1 DEF ServerProcesses
  <2> QED BY <1>1, <2>1 DEF ServerProcesses
<1>3. Numbers(s) \subseteq Numbers(servers[n])
  BY <1>1 DEF Numbers, ServerProcesses
<1> HIDE DEF s
<1> QED BY <1>1, <1>2, <1>3, OneServerChanges

LEMMA HalfReadingKeepsServers ==
  ASSUME McpTypeOK, NEW n \in DOMAIN servers, NEW m \in servers[n].out,
         servers' = [servers EXCEPT ![n].out = (@ \ {m}) \union {[m EXCEPT !.rest = TRUE]}]
  PROVE  ServersKeep
<1> DEFINE half == [m EXCEPT !.rest = TRUE]
           s == [servers[n] EXCEPT !.out = (@ \ {m}) \union {half}]
<1>1. /\ servers[n] \in ServerProcesses /\ servers' = [servers EXCEPT ![n] = s]
      /\ m \in Outputs
  BY ServerTypes DEF ServerProcesses
<1>2. half \in Outputs /\ half.id = m.id
  BY <1>1 DEF Outputs
<1> HIDE DEF half
<1>3. s \in ServerProcesses /\ s.hello = servers[n].hello
  <2>1. (servers[n].out \ {m}) \union {half} \in SUBSET Outputs
    BY <1>1, <1>2 DEF ServerProcesses
  <2> QED BY <1>1, <2>1 DEF ServerProcesses
<1>4. s.inbox = servers[n].inbox /\ s.out = (servers[n].out \ {m}) \union {half}
  BY <1>1 DEF ServerProcesses
<1>5. Numbers(s) \subseteq Numbers(servers[n])
  BY <1>2, <1>4 DEF Numbers
<1> HIDE DEF s
<1> QED BY <1>1, <1>3, <1>5, OneServerChanges

LEMMA ReplacedInSequence ==
  ASSUME NEW S, NEW q \in Seq(S), NEW i \in DOMAIN q, NEW x \in S
  PROVE  /\ [q EXCEPT ![i] = x] \in Seq(S) /\ Len([q EXCEPT ![i] = x]) = Len(q)
         /\ DOMAIN [q EXCEPT ![i] = x] = DOMAIN q /\ [q EXCEPT ![i] = x][i] = x
         /\ \A j \in DOMAIN q \ {i} : [q EXCEPT ![i] = x][j] = q[j]
OBVIOUS

\* The answer to initialize: the child of the connection is greeted.
LEMMA GreetingKeepsServers ==
  ASSUME McpTypeOK, NEW n \in DOMAIN servers, NEW m \in servers[n].out, NEW k \in DOMAIN servers,
         servers' = [[servers EXCEPT ![n].out = @ \ {m}] EXCEPT ![k].hello = TRUE]
  PROVE  ServersKeep /\ servers'[k].hello
<1> DEFINE left == [servers[n] EXCEPT !.out = @ \ {m}]
           read == [servers EXCEPT ![n] = left]
           s == [read[k] EXCEPT !.hello = TRUE]
<1>1. servers[n] \in ServerProcesses /\ servers \in Seq(ServerProcesses)
  BY ServerTypes DEF McpTypeOK
<1>2. /\ left \in ServerProcesses /\ left.hello = servers[n].hello
      /\ Numbers(left) \subseteq Numbers(servers[n])
  <2>1. servers[n].out \ {m} \in SUBSET Outputs
    BY <1>1 DEF ServerProcesses
  <2>2. left \in ServerProcesses /\ left.hello = servers[n].hello
    BY <1>1, <2>1 DEF ServerProcesses
  <2>3. left.inbox = servers[n].inbox /\ left.out = servers[n].out \ {m}
    BY <1>1 DEF ServerProcesses
  <2> QED BY <2>2, <2>3 DEF Numbers
<1>3. servers' = [read EXCEPT ![k] = s]
  OBVIOUS
<1> HIDE DEF left
<1>4. /\ read \in Seq(ServerProcesses) /\ Len(read) = Len(servers) /\ DOMAIN read = DOMAIN servers
      /\ read[n] = left /\ \A i \in DOMAIN servers \ {n} : read[i] = servers[i]
  BY <1>1, <1>2
<1> HIDE DEF read
<1>5. read[k] \in ServerProcesses
  BY <1>4, ServerTypes, <1>2
<1>6. s \in ServerProcesses /\ s.hello /\ s.inbox = read[k].inbox /\ s.out = read[k].out
  BY <1>5 DEF ServerProcesses
<1>7. Numbers(s) = Numbers(read[k])
  BY <1>6 DEF Numbers
<1> HIDE DEF s
<1>8. /\ servers' \in Seq(ServerProcesses) /\ Len(servers') = Len(servers) /\ servers'[k] = s
      /\ \A i \in DOMAIN servers \ {k} : servers'[i] = read[i]
  <2>1. k \in DOMAIN read
    BY <1>4
  <2> DEFINE greeted == [read EXCEPT ![k] = s]
  <2>2. /\ greeted \in Seq(ServerProcesses) /\ Len(greeted) = Len(read) /\ greeted[k] = s
        /\ \A i \in DOMAIN read \ {k} : greeted[i] = read[i]
    BY <2>1, <1>4, <1>6, ReplacedInSequence
  <2>3. servers' = greeted
    BY <1>3
  <2> HIDE DEF greeted
  <2> QED BY <2>2, <2>3, <1>4
<1>9. ASSUME NEW i \in DOMAIN servers
      PROVE  /\ servers[i].hello => servers'[i].hello
             /\ Numbers(servers'[i]) \subseteq Numbers(servers[i])
  <2>1. (servers[i].hello => read[i].hello) /\ Numbers(read[i]) \subseteq Numbers(servers[i])
    BY <1>2, <1>4
  <2> QED BY <2>1, <1>6, <1>7, <1>8
<1> QED BY <1>6, <1>8, <1>9 DEF ServersKeep

\* A line resolves the call that waits for its number, or the initialization fails.
LEMMA LinePreserves ==
  ASSUME McpIInv, Mcp!NoneGoes, NEW n \in DOMAIN servers, NEW m \in servers[n].out,
         servers' = [servers EXCEPT ![n].out = @ \ {m}], crossed' = crossed, Mcp!Line(n, m.id)
  PROVE  McpIInv'
<1> DEFINE id == m.id
<1>0. ServersKeep
  BY ReadingKeepsServers DEF McpIInv
<1>1. /\ id \in Nat /\ id \in Numbers(servers[n]) /\ conn \in Connections
  BY ServerTypes DEF McpIInv, McpTypeOK, ServerProcesses, Outputs, Numbers
<1> HIDE DEF id
<1>2. CASE id \notin pending
  <2>1. conn' = [conn EXCEPT !.buffer = 0] /\ UNCHANGED <<pending, inits, mcpCalls>>
    BY <1>2 DEF Mcp!Line, id
  <2>2. ConnectionKeeps
    BY <2>1, BuffersHoldNumbers, SameConnection DEF McpIInv
  <2> QED BY <1>0, <2>1, <2>2, SteadyPreserves DEF McpIInv, McpTypeOK
<1>3. CASE id \in pending /\ Mcp!IsInit(id)
  <2>1. Mcp!InitFails(id)
    BY <1>3 DEF Mcp!Line, id
  <2> QED BY <1>0, <1>1, <2>1, FailedInitializationPreserves
<1>4. CASE id \in pending /\ ~Mcp!IsInit(id)
  <2>1. /\ conn' = [conn EXCEPT !.buffer = 0] /\ pending' = pending \ {id} /\ inits' = inits
        /\ \E end \in {"done", "failed"} :
             mcpCalls' = [c \in McpCalls |-> IF mcpCalls[c].at = "waiting" /\ mcpCalls[c].id = id
                                             THEN [mcpCalls[c] EXCEPT !.at = end, !.from = n] ELSE mcpCalls[c]]
    BY <1>4 DEF Mcp!Line, id
  <2>2. ConnectionKeeps
    BY <2>1, BuffersHoldNumbers, SameConnection DEF McpIInv
  <2>3. PICK end \in {"done", "failed"} :
          mcpCalls' = [c \in McpCalls |-> IF mcpCalls[c].at = "waiting" /\ mcpCalls[c].id = id
                                          THEN [mcpCalls[c] EXCEPT !.at = end, !.from = n] ELSE mcpCalls[c]]
    BY <2>1
  <2>4. n \in Nat
    BY ServerTypes DEF McpIInv
  <2>5. ASSUME NEW c \in McpCalls
        PROVE  /\ mcpCalls[c] \in ClientCalls
               /\ [mcpCalls[c] EXCEPT !.at = end, !.from = n] \in ClientCalls
               /\ [mcpCalls[c] EXCEPT !.at = end, !.from = n].at = end
               /\ [mcpCalls[c] EXCEPT !.at = end, !.from = n].from = n
               /\ [mcpCalls[c] EXCEPT !.at = end, !.from = n].sent = mcpCalls[c].sent
    BY <2>4 DEF McpIInv, McpTypeOK, ClientCalls
  <2>6. /\ mcpCalls' \in [McpCalls -> ClientCalls]
        /\ \A c \in McpCalls : mcpCalls'[c].at = "go" => mcpCalls[c].at = "go"
    BY <2>3, <2>5
  <2>7. ASSUME NEW c \in McpCalls, mcpCalls'[c] # mcpCalls[c], mcpCalls'[c].at \in {"waiting", "done"}
        PROVE  CallIsServed(c)'
    <3>1. /\ mcpCalls[c].at = "waiting" /\ mcpCalls[c].id = id
          /\ mcpCalls'[c].at = "done" /\ mcpCalls'[c].from = n /\ mcpCalls'[c].sent = mcpCalls[c].sent
      BY <2>3, <2>5, <2>7
    <3>2. /\ mcpCalls[c].sent \in DOMAIN servers /\ (servers[mcpCalls[c].sent].hello \/ crossed)
          /\ mcpCalls[c].sent = n
      BY <3>1, <1>1 DEF McpIInv, CallsAreServed, CallIsServed
    <3>3. DOMAIN servers' = DOMAIN servers
      BY <1>0, ServerTypes DEF ServersKeep, McpIInv
    <3> QED BY <3>1, <3>2, <3>3, <1>0 DEF CallIsServed, ServersKeep
  <2> QED BY <1>0, <2>1, <2>2, <2>6, <2>7, SteadyPreserves DEF McpIInv, McpTypeOK
<1> QED BY <1>2, <1>3, <1>4

\* The initialization is answered: its child is greeted, and its notification under way.
LEMMA HandshakePreserves ==
  ASSUME McpIInv, Mcp!NoneGoes, NEW n \in DOMAIN servers, NEW m \in servers[n].out,
         servers' = [[servers EXCEPT ![n].out = @ \ {m}] EXCEPT ![conn.child].hello = TRUE],
         crossed' = crossed, Mcp!Handshake(m.id)
  PROVE  McpIInv'
<1> USE DEF McpIInv
<1>1. /\ Mcp!IsInit(m.id) /\ m.id \in pending /\ mcpCalls' = mcpCalls
      /\ conn' = [conn EXCEPT !.buffer = 0] /\ pending' = pending \ {m.id}
      /\ inits' = {i \in inits : i.id # m.id} \union {[id |-> m.id, notifying |-> TRUE]}
  BY DEF Mcp!Handshake
<1>2. conn.child \in DOMAIN servers
  BY <1>1, ServerTypes DEF ConnectionHeld
<1>3. ServersKeep /\ servers'[conn.child].hello
  BY <1>2, GreetingKeepsServers
<1>4. ConnectionKeeps
  BY <1>1, BuffersHoldNumbers, SameConnection
<1>5. Greeted'
  BY <1>2, <1>3, <1>4, ServerTypes DEF Greeted, ConnectionKeeps
<1>6. McpTypeOK'
  <2>1. m.id \in Nat
    BY <1>1 DEF McpTypeOK
  <2>2. inits' \in SUBSET [id : Nat, notifying : BOOLEAN]
    <3>1. [id |-> m.id, notifying |-> TRUE] \in [id : Nat, notifying : BOOLEAN]
      BY <2>1
    <3>2. {i \in inits : i.id # m.id} \in SUBSET [id : Nat, notifying : BOOLEAN]
      BY DEF McpTypeOK
    <3> QED BY <1>1, <3>1, <3>2
  <2> QED BY <1>1, <1>3, <1>4, <2>2 DEF McpTypeOK, ServersKeep, ConnectionKeeps
<1>7. ConnectionHeld'
  BY <1>1, <1>3, <1>4 DEF ConnectionHeld, ServersKeep, ConnectionKeeps
<1>8. HandshakesGreet'
  <2>1. m.id \in 1 .. conn.next - 1
    BY <1>1 DEF Mcp!IsInit, HandshakesGreet
  <2> QED BY <1>1, <1>4, <1>5, <2>1 DEF HandshakesGreet, ConnectionKeeps
<1>9. CallersAreGreeted'
  BY <1>5 DEF CallersAreGreeted
<1>10. ChildrenKeep
  <2>1. conn.next \in Nat
    BY DEF McpTypeOK, Connections
  <2> QED BY <1>3, <1>4, <2>1, KeepingServersKeepsChildren DEF ConnectionKeeps
<1>11. CallsAreServed'
  BY <1>1, <1>6, <1>10, CallLeftAlone DEF CallsAreServed
<1>12. NumbersAreUsed'
  BY <1>3, <1>4, UsedNumbersStay DEF ConnectionKeeps
<1> QED BY <1>6, <1>7, <1>8, <1>9, <1>11, <1>12

LEMMA DataPreserves ==
  ASSUME McpIInv, NEW n \in DOMAIN servers, NEW m, Mcp!Data(n, m)
  PROVE  McpIInv'
<1> DEFINE read == [servers EXCEPT ![n].out = @ \ {m}]
<1>1. Mcp!NoneGoes /\ m \in servers[n].out /\ attached' = attached /\ crossed' = crossed
  BY DEF Mcp!Data
<1>2. m.id \in Buffers
  BY <1>1, ServerTypes, BuffersHoldNumbers DEF McpIInv, ServerProcesses, Outputs
<1>3. \/ Mcp!Line(n, m.id) /\ servers' = read
      \/ Mcp!Handshake(m.id) /\ servers' = [read EXCEPT ![conn.child].hello = TRUE]
      \/ /\ conn' = [conn EXCEPT !.buffer = 0] /\ servers' = read
         /\ UNCHANGED <<pending, inits, mcpCalls>>
      \/ /\ conn' = [conn EXCEPT !.buffer = IF @ = 0 THEN m.id ELSE -1]
         /\ servers' = [servers EXCEPT ![n].out = (@ \ {m}) \union {[m EXCEPT !.rest = TRUE]}]
         /\ UNCHANGED <<pending, inits, mcpCalls>>
  BY DEF Mcp!Data
<1>4. CASE Mcp!Line(n, m.id) /\ servers' = read
  BY <1>1, <1>4, LinePreserves
<1>5. CASE Mcp!Handshake(m.id) /\ servers' = [read EXCEPT ![conn.child].hello = TRUE]
  BY <1>1, <1>5, HandshakePreserves
<1>6. CASE /\ conn' = [conn EXCEPT !.buffer = 0] /\ servers' = read
           /\ UNCHANGED <<pending, inits, mcpCalls>>
  <2>1. ServersKeep
    BY <1>1, <1>6, ReadingKeepsServers DEF McpIInv
  <2>2. ConnectionKeeps
    BY <1>6, BuffersHoldNumbers, SameConnection DEF McpIInv
  <2> QED BY <1>1, <1>6, <2>1, <2>2, SteadyPreserves DEF McpIInv, McpTypeOK
<1>7. CASE /\ conn' = [conn EXCEPT !.buffer = IF @ = 0 THEN m.id ELSE -1]
           /\ servers' = [servers EXCEPT ![n].out = (@ \ {m}) \union {[m EXCEPT !.rest = TRUE]}]
           /\ UNCHANGED <<pending, inits, mcpCalls>>
  <2>1. ServersKeep
    BY <1>1, <1>7, HalfReadingKeepsServers DEF McpIInv
  <2>2. PICK b \in Buffers : conn' = [conn EXCEPT !.buffer = b]
    BY <1>2, <1>7, BuffersHoldNumbers
  <2>3. ConnectionKeeps
    BY <2>2, SameConnection DEF McpIInv
  <2> QED BY <1>1, <1>7, <2>1, <2>3, SteadyPreserves DEF McpIInv, McpTypeOK
<1> QED BY <1>3, <1>4, <1>5, <1>6, <1>7

\* The handshake is over. Had its connection been reset, the next child passes for greeted.
LEMMA NotifiedPreserves ==
  ASSUME McpIInv, NEW i \in inits, Mcp!Notified(i)
  PROVE  McpIInv'
<1> USE DEF McpIInv
<1>1. Mcp!NoneGoes /\ i.notifying /\ servers' = servers /\ i.id \in Nat
  BY DEF Mcp!Notified, McpTypeOK
<1>2. ServersKeep
  BY <1>1 DEF ServersKeep, McpTypeOK
<1>3. CASE Mcp!InitFails(i.id) /\ crossed' = crossed
  BY <1>1, <1>2, <1>3, FailedInitializationPreserves
<1>4. CASE /\ conn' = [conn EXCEPT !.negotiated = TRUE]
           /\ inits' = inits \ {i} /\ crossed' = (crossed \/ conn.init # i.id)
           /\ mcpCalls' = [c \in McpCalls |-> IF mcpCalls[c].at = "init" /\ mcpCalls[c].on = i.id
                                              THEN [mcpCalls[c] EXCEPT !.at = "go"] ELSE mcpCalls[c]]
           /\ pending' = pending
  <2>1. /\ conn' \in Connections /\ conn'.child = conn.child /\ conn'.init = conn.init
        /\ conn'.next = conn.next /\ conn'.next \in Nat
    BY <1>4 DEF McpTypeOK, Connections
  <2>2. \A c \in McpCalls : /\ mcpCalls[c] \in ClientCalls
                            /\ [mcpCalls[c] EXCEPT !.at = "go"] \in ClientCalls
                            /\ [mcpCalls[c] EXCEPT !.at = "go"].at = "go"
    BY DEF McpTypeOK, ClientCalls
  <2>3. /\ mcpCalls' \in [McpCalls -> ClientCalls]
        /\ \A c \in McpCalls : mcpCalls'[c] = mcpCalls[c] \/ mcpCalls'[c].at = "go"
    BY <1>4, <2>2
  <2>4. McpTypeOK'
    BY <1>1, <1>4, <2>1, <2>3 DEF McpTypeOK
  <2>5. ConnectionHeld'
    BY <1>1, <1>4, <2>1 DEF ConnectionHeld
  <2>6. HandshakesGreet'
    BY <1>1, <1>4, <2>1 DEF HandshakesGreet, Greeted
  <2>7. CallersAreGreeted'
    <3>1. ~crossed' => Greeted
      BY <1>1, <1>4 DEF HandshakesGreet
    <3> QED BY <3>1, <1>1, <2>1 DEF CallersAreGreeted, Greeted
  <2>8. ChildrenKeep
    <3>1. crossed => crossed'
      BY <1>4
    <3> QED BY <3>1, <1>2, <2>1, KeepingServersKeepsChildren
  <2>9. CallsAreServed'
    BY <2>3, <2>4, <2>8, CallLeftAlone DEF CallsAreServed
  <2>10. NumbersAreUsed'
    BY <1>2, <2>1, UsedNumbersStay
  <2> QED BY <2>4, <2>5, <2>6, <2>7, <2>9, <2>10
<1> QED BY <1>3, <1>4 DEF Mcp!Notified

\* A request is written: it has the next number, and goes to the child of the connection,
\* or to a new one.
LEMMA RequestAsksOneChild ==
  ASSUME McpIInv, Mcp!Request, conn' \in Connections, conn'.next = conn.next + 1,
         conn'.child = Mcp!Target, crossed' = crossed
  PROVE  /\ servers' \in Seq(ServerProcesses) /\ pending' \in SUBSET Nat
         /\ Mcp!Target \in Nat /\ Mcp!Target # 0 /\ Mcp!Target \in DOMAIN servers'
         /\ DOMAIN servers \subseteq DOMAIN servers'
         /\ ChildrenKeep /\ NumbersAreUsed'
         /\ \A n \in DOMAIN servers' : conn.next \in Numbers(servers'[n]) => n = Mcp!Target
<1> USE DEF McpIInv
<1> DEFINE T == Mcp!Target
           R == Mcp!Running
           s == [R[T] EXCEPT !.inbox = @ \union {conn.next}]
<1>1. /\ servers \in Seq(ServerProcesses) /\ Len(servers) \in Nat /\ DOMAIN servers = 1 .. Len(servers)
      /\ conn.child \in 0 .. Len(servers) /\ conn.next \in Nat /\ conn.next # 0
      /\ pending \in SUBSET Nat
  BY DEF McpTypeOK, ConnectionHeld, Connections
<1>2. Mcp!Spawned \in ServerProcesses /\ Numbers(Mcp!Spawned) = {}
  BY DEF Mcp!Spawned, ServerProcesses, Numbers
<1>3. /\ R \in Seq(ServerProcesses) /\ T \in DOMAIN R /\ T \in Nat /\ T # 0
      /\ Len(R) \in Nat /\ DOMAIN R = 1 .. Len(R) /\ Len(R) >= Len(servers)
      /\ \A n \in DOMAIN servers : R[n] = servers[n]
      /\ \A n \in DOMAIN R : n \in DOMAIN servers \/ Numbers(R[n]) = {}
  <2>1. CASE conn.child # 0
    BY <1>1, <2>1 DEF Mcp!Running, Mcp!Target
  <2>2. CASE conn.child = 0
    <3>1. R = Append(servers, Mcp!Spawned) /\ T = Len(servers) + 1
      BY <2>2 DEF Mcp!Running, Mcp!Target
    <3> HIDE DEF R, T
    <3>2. /\ R \in Seq(ServerProcesses) /\ Len(R) = Len(servers) + 1 /\ DOMAIN R = 1 .. Len(servers) + 1
          /\ \A n \in DOMAIN servers : R[n] = servers[n]
          /\ R[Len(servers) + 1] = Mcp!Spawned
      BY <1>1, <1>2, <3>1
    <3>3. \A n \in DOMAIN R : n \in DOMAIN servers \/ n = Len(servers) + 1
      BY <1>1, <3>2
    <3> QED BY <1>1, <1>2, <3>1, <3>2, <3>3
  <2> QED BY <2>1, <2>2
<1>4. servers' = [R EXCEPT ![T] = s] /\ pending' = pending \union {conn.next}
  BY DEF Mcp!Request
<1> HIDE DEF R, T
<1>5. R[T] \in ServerProcesses
  BY <1>3
<1>6. s \in ServerProcesses /\ s.hello = R[T].hello
  <2>1. R[T].inbox \union {conn.next} \in SUBSET Nat
    BY <1>1, <1>5 DEF ServerProcesses
  <2> QED BY <1>5, <2>1 DEF ServerProcesses
<1>7. Numbers(s) = Numbers(R[T]) \union {conn.next}
  <2>1. s.inbox = R[T].inbox \union {conn.next} /\ s.out = R[T].out
    BY <1>5 DEF ServerProcesses
  <2> QED BY <2>1 DEF Numbers
<1> HIDE DEF s
<1>8. /\ servers' \in Seq(ServerProcesses) /\ Len(servers') = Len(R) /\ DOMAIN servers' = DOMAIN R
      /\ servers'[T] = s /\ \A n \in DOMAIN R \ {T} : servers'[n] = R[n]
  BY <1>3, <1>4, <1>6, ReplacedInSequence
<1>9. ASSUME NEW n \in DOMAIN servers', NEW id \in Numbers(servers'[n])
      PROVE  \/ id = conn.next /\ n = T
             \/ n \in DOMAIN servers /\ id \in Numbers(servers[n])
  <2>1. id \in Numbers(R[n]) \/ (id = conn.next /\ n = T)
    BY <1>7, <1>8, <1>9
  <2> QED BY <1>3, <1>8, <2>1
<1>10. DOMAIN servers \subseteq DOMAIN servers'
  BY <1>1, <1>3, <1>8
<1>11. ChildrenKeep
  <2>1. \A n \in DOMAIN servers : servers[n].hello => servers'[n].hello
    BY <1>3, <1>6, <1>8, <1>10
  <2>2. conn'.next \in Nat /\ conn'.next >= conn.next
    BY <1>1
  <2>3. Len(servers') >= Len(servers)
    BY <1>3, <1>8
  <2> QED BY <1>9, <2>1, <2>2, <2>3 DEF ChildrenKeep
<1>12. NumbersAreUsed'
  <2>1. ASSUME NEW n \in DOMAIN servers', NEW id \in Numbers(servers'[n])
        PROVE  id < conn'.next
    <3>1. CASE id = conn.next
      BY <1>1, <3>1
    <3>2. CASE n \in DOMAIN servers /\ id \in Numbers(servers[n])
      <4>1. servers[n] \in ServerProcesses
        BY <3>2, ServerTypes
      <4>2. id \in Nat
        BY <3>2, <4>1 DEF Numbers, ServerProcesses, Outputs
      <4>3. id < conn.next
        BY <3>2 DEF NumbersAreUsed
      <4> QED BY <1>1, <4>2, <4>3
    <3> QED BY <1>9, <3>1, <3>2
  <2> QED BY <2>1 DEF NumbersAreUsed
<1>13. ASSUME NEW n \in DOMAIN servers', conn.next \in Numbers(servers'[n])
       PROVE  n = T
  <2>1. SUFFICES ASSUME n \in DOMAIN servers, conn.next \in Numbers(servers[n])
                 PROVE  FALSE
    BY <1>9, <1>13
  <2> QED BY <1>1, <2>1 DEF NumbersAreUsed
<1>14. pending' \in SUBSET Nat
  BY <1>1, <1>4
<1> QED BY <1>3, <1>8, <1>10, <1>11, <1>12, <1>13, <1>14 DEF T

\* A greeted child stays so when a request is written.
LEMMA RequestKeepsGreeting ==
  ASSUME McpIInv, Greeted, conn'.child = Mcp!Target, ChildrenKeep
  PROVE  Greeted'
<1>1. conn.child \in DOMAIN servers /\ conn'.child = conn.child
  BY ServerTypes DEF McpIInv, ConnectionHeld, Greeted, Mcp!Target
<1> QED BY <1>1 DEF Greeted, ChildrenKeep

LEMMA ArrivePreserves ==
  ASSUME McpIInv, NEW c \in McpCalls, Mcp!Arrive(c)
  PROVE  McpIInv'
<1> USE DEF McpIInv
<1>1. /\ Mcp!NoneGoes /\ crossed' = crossed /\ mcpCalls[c] \in ClientCalls
      /\ conn \in Connections
  BY DEF Mcp!Arrive, McpTypeOK
<1>2. CASE /\ UNCHANGED <<conn, pending, inits, servers>>
           /\ \/ conn.negotiated /\ mcpCalls' = [mcpCalls EXCEPT ![c].at = "go"]
              \/ mcpCalls' = [mcpCalls EXCEPT ![c].at = "init", ![c].on = conn.init]
  <2>1. PICK new \in ClientCalls :
          /\ mcpCalls' = [mcpCalls EXCEPT ![c] = new]
          /\ new.at = "init" \/ (new.at = "go" /\ conn.negotiated)
    <3>1. CASE conn.negotiated /\ mcpCalls' = [mcpCalls EXCEPT ![c].at = "go"]
      <4> DEFINE x == [mcpCalls[c] EXCEPT !.at = "go"]
      <4>1. x \in ClientCalls /\ x.at = "go" /\ mcpCalls' = [mcpCalls EXCEPT ![c] = x]
        BY <1>1, <3>1 DEF ClientCalls
      <4> QED BY <3>1, <4>1
    <3>2. CASE mcpCalls' = [mcpCalls EXCEPT ![c].at = "init", ![c].on = conn.init]
      <4> DEFINE x == [mcpCalls[c] EXCEPT !.at = "init", !.on = conn.init]
      <4>1. conn.init \in Nat
        BY <1>1 DEF Connections
      <4>2. x \in ClientCalls /\ x.at = "init"
        BY <1>1, <4>1 DEF ClientCalls
      <4>3. mcpCalls' = [mcpCalls EXCEPT ![c] = x]
        BY <1>1, <3>2 DEF McpTypeOK, ClientCalls
      <4> QED BY <4>2, <4>3
    <3> QED BY <1>2, <3>1, <3>2
  <2>2. /\ mcpCalls' \in [McpCalls -> ClientCalls] /\ mcpCalls'[c] = new
        /\ \A d \in McpCalls \ {c} : mcpCalls'[d] = mcpCalls[d]
    BY <2>1, OneCallChanges
  <2>3. ServersKeep
    BY <1>2 DEF ServersKeep, McpTypeOK
  <2>4. ConnectionKeeps
    BY <1>2, BuffersHoldNumbers, SameConnection
  <2>5. \A d \in McpCalls : \/ mcpCalls'[d] = mcpCalls[d]
                            \/ d = c /\ mcpCalls'[d] = new
    BY <2>2
  <2> QED BY <1>1, <1>2, <2>1, <2>2, <2>3, <2>4, <2>5, SteadyPreserves DEF McpTypeOK
<1>3. CASE /\ ~conn.negotiated /\ conn.init = 0 /\ Mcp!Request
           /\ inits' = inits \union {[id |-> conn.next, notifying |-> FALSE]}
           /\ mcpCalls' = [mcpCalls EXCEPT ![c].at = "init", ![c].on = conn.next]
           /\ conn' = [conn EXCEPT !.child = Mcp!Target, !.init = conn.next, !.next = @ + 1]
  <2>1. conn.next \in Nat /\ conn.next # 0 /\ Mcp!Target \in Nat
    BY <1>1, ServerTypes DEF Connections, Mcp!Target
  <2>2. /\ conn' \in Connections /\ conn'.child = Mcp!Target /\ conn'.init = conn.next
        /\ conn'.next = conn.next + 1 /\ conn'.negotiated = FALSE
    <3>1. conn.next + 1 \in Nat \ {0} /\ conn.negotiated = FALSE
      BY <1>1, <1>3, <2>1 DEF Connections
    <3> QED BY <1>1, <1>3, <2>1, <3>1 DEF Connections
  <2>3. /\ servers' \in Seq(ServerProcesses) /\ pending' \in SUBSET Nat
        /\ Mcp!Target # 0 /\ Mcp!Target \in DOMAIN servers' /\ ChildrenKeep /\ NumbersAreUsed'
    BY <1>1, <1>3, <2>2, RequestAsksOneChild
  <2> DEFINE new == [mcpCalls[c] EXCEPT !.at = "init", !.on = conn.next]
  <2>4. new \in ClientCalls /\ new.at = "init" /\ mcpCalls' = [mcpCalls EXCEPT ![c] = new]
    <3>1. new \in ClientCalls /\ new.at = "init"
      BY <1>1, <2>1 DEF ClientCalls
    <3>2. mcpCalls' = [mcpCalls EXCEPT ![c] = new]
      BY <1>1, <1>3 DEF McpTypeOK, ClientCalls
    <3> QED BY <3>1, <3>2
  <2> HIDE DEF new
  <2>5. /\ mcpCalls' \in [McpCalls -> ClientCalls] /\ mcpCalls'[c].at = "init"
        /\ \A d \in McpCalls \ {c} : mcpCalls'[d] = mcpCalls[d]
    BY <2>4, OneCallChanges
  <2>6. McpTypeOK'
    <3>1. [id |-> conn.next, notifying |-> FALSE] \in [id : Nat, notifying : BOOLEAN]
      BY <2>1
    <3>2. inits' \in SUBSET [id : Nat, notifying : BOOLEAN]
      BY <1>3, <3>1 DEF McpTypeOK
    <3> QED BY <1>1, <2>2, <2>3, <2>5, <3>2 DEF McpTypeOK
  <2>7. ConnectionHeld'
    <3>1. DOMAIN servers' = 1 .. Len(servers') /\ Len(servers') \in Nat
      BY <2>3
    <3> QED BY <2>1, <2>2, <2>3, <3>1 DEF ConnectionHeld
  <2>8. HandshakesGreet'
    <3>1. ASSUME NEW i \in inits'
          PROVE  i.id \in 1 .. conn'.next - 1 /\ ~(i.notifying /\ i.id = conn'.init)
      <4>1. CASE i = [id |-> conn.next, notifying |-> FALSE]
        BY <2>1, <2>2, <4>1
      <4>2. CASE i \in inits
        BY <2>1, <2>2, <4>2 DEF HandshakesGreet
      <4> QED BY <1>3, <4>1, <4>2
    <3> QED BY <3>1 DEF HandshakesGreet
  <2>9. CallersAreGreeted'
    <3>1. Mcp!NoneGoes'
      BY <1>1, <2>5 DEF Mcp!NoneGoes
    <3> QED BY <2>2, <3>1 DEF CallersAreGreeted
  <2>10. CallsAreServed'
    <3>1. \A d \in McpCalls : mcpCalls'[d] = mcpCalls[d] \/ mcpCalls'[d].at \notin {"waiting", "done"}
      BY <2>5
    <3> QED BY <2>3, <2>6, <3>1, CallLeftAlone DEF CallsAreServed
  <2> QED BY <2>3, <2>6, <2>7, <2>8, <2>9, <2>10
<1> QED BY <1>2, <1>3 DEF Mcp!Arrive

LEMMA ContinuePreserves ==
  ASSUME McpIInv, NEW c \in McpCalls, Mcp!Continue(c)
  PROVE  McpIInv'
<1> USE DEF McpIInv
<1>1. /\ mcpCalls[c].at = "go" /\ inits' = inits /\ crossed' = crossed
      /\ mcpCalls[c] \in ClientCalls /\ conn \in Connections
  BY DEF Mcp!Continue, McpTypeOK
<1>2. CASE mcpCalls' = [mcpCalls EXCEPT ![c].at = "failed"] /\ UNCHANGED <<conn, pending, servers>>
  <2> DEFINE new == [mcpCalls[c] EXCEPT !.at = "failed"]
  <2>1. new \in ClientCalls /\ new.at = "failed" /\ mcpCalls' = [mcpCalls EXCEPT ![c] = new]
    BY <1>1, <1>2 DEF ClientCalls
  <2> HIDE DEF new
  <2>2. /\ mcpCalls' \in [McpCalls -> ClientCalls] /\ mcpCalls'[c].at = "failed"
        /\ \A d \in McpCalls \ {c} : mcpCalls'[d] = mcpCalls[d]
    BY <2>1, OneCallChanges
  <2>3. ServersKeep
    BY <1>2 DEF ServersKeep, McpTypeOK
  <2>4. ConnectionKeeps
    BY <1>2, BuffersHoldNumbers, SameConnection
  <2>5. \A d \in McpCalls : mcpCalls'[d] = mcpCalls[d] \/ mcpCalls'[d].at = "failed"
    BY <2>2
  <2> QED BY <1>1, <1>2, <2>2, <2>3, <2>4, <2>5, SteadyPreserves DEF McpTypeOK
<1>3. CASE /\ Mcp!Request
           /\ mcpCalls' = [mcpCalls EXCEPT ![c].at = "waiting", ![c].id = conn.next, ![c].sent = Mcp!Target]
           /\ conn' = [conn EXCEPT !.child = Mcp!Target, !.next = @ + 1]
  <2>1. conn.next \in Nat /\ conn.next # 0 /\ Mcp!Target \in Nat
    BY <1>1, ServerTypes DEF Connections, Mcp!Target
  <2>2. /\ conn' \in Connections /\ conn'.child = Mcp!Target /\ conn'.init = conn.init
        /\ conn'.next = conn.next + 1 /\ conn'.negotiated = conn.negotiated
    <3>1. conn.next + 1 \in Nat \ {0}
      BY <2>1
    <3> QED BY <1>1, <1>3, <2>1, <3>1 DEF Connections
  <2>3. /\ servers' \in Seq(ServerProcesses) /\ pending' \in SUBSET Nat
        /\ Mcp!Target # 0 /\ Mcp!Target \in DOMAIN servers' /\ ChildrenKeep /\ NumbersAreUsed'
        /\ \A n \in DOMAIN servers' : conn.next \in Numbers(servers'[n]) => n = Mcp!Target
    BY <1>1, <1>3, <2>2, RequestAsksOneChild
  <2>4. Greeted => Greeted'
    BY <2>2, <2>3, RequestKeepsGreeting
  <2>5. ~crossed => Greeted
    BY <1>1 DEF CallersAreGreeted, Mcp!NoneGoes
  <2> DEFINE new == [mcpCalls[c] EXCEPT !.at = "waiting", !.id = conn.next, !.sent = Mcp!Target]
  <2>6. /\ new \in ClientCalls /\ new.at = "waiting" /\ new.id = conn.next /\ new.sent = Mcp!Target
        /\ mcpCalls' = [mcpCalls EXCEPT ![c] = new]
    <3>1. new \in ClientCalls /\ new.at = "waiting" /\ new.id = conn.next /\ new.sent = Mcp!Target
      BY <1>1, <2>1 DEF ClientCalls
    <3>2. mcpCalls' = [mcpCalls EXCEPT ![c] = new]
      BY <1>1, <1>3 DEF McpTypeOK, ClientCalls
    <3> QED BY <3>1, <3>2
  <2> HIDE DEF new
  <2>7. /\ mcpCalls' \in [McpCalls -> ClientCalls] /\ mcpCalls'[c] = new
        /\ \A d \in McpCalls \ {c} : mcpCalls'[d] = mcpCalls[d]
    BY <2>6, OneCallChanges
  <2>8. McpTypeOK'
    BY <1>1, <2>2, <2>3, <2>7 DEF McpTypeOK
  <2>9. ConnectionHeld'
    <3>1. DOMAIN servers' = 1 .. Len(servers') /\ Len(servers') \in Nat
      BY <2>3
    <3> QED BY <2>1, <2>2, <2>3, <3>1 DEF ConnectionHeld
  <2>10. HandshakesGreet'
    <3>1. ASSUME NEW i \in inits
          PROVE  /\ i.id \in 1 .. conn'.next - 1
                 /\ i.notifying /\ i.id = conn'.init => Greeted'
      BY <2>1, <2>2, <2>4 DEF HandshakesGreet
    <3> QED BY <1>1, <3>1 DEF HandshakesGreet
  <2>11. CallersAreGreeted'
    BY <1>1, <2>4, <2>5 DEF CallersAreGreeted
  <2>12. CallIsServed(c)'
    <3>1. ~crossed => servers'[Mcp!Target].hello
      BY <2>2, <2>4, <2>5 DEF Greeted
    <3>2. conn.next \in 1 .. conn'.next - 1
      BY <2>1, <2>2
    <3> QED BY <1>1, <2>3, <2>6, <2>7, <3>1, <3>2 DEF CallIsServed
  <2>13. CallsAreServed'
    BY <2>3, <2>7, <2>8, <2>12, CallLeftAlone DEF CallsAreServed
  <2> QED BY <2>3, <2>8, <2>9, <2>10, <2>11, <2>13
<1> QED BY <1>2, <1>3 DEF Mcp!Continue

LEMMA McpInitially == Mcp!Init => McpIInv
<1> SUFFICES ASSUME Mcp!Init PROVE McpIInv
  OBVIOUS
<1>1. /\ conn = Mcp!Closed /\ pending = {} /\ inits = {} /\ servers = <<>> /\ crossed = FALSE
      /\ mcpCalls = [c \in McpCalls |-> Mcp!Idle]
  BY DEF Mcp!Init
<1>2. Mcp!Closed \in Connections
  BY BuffersHoldNumbers DEF Mcp!Closed, Connections
<1>3. Mcp!Idle \in ClientCalls
  BY DEF Mcp!Idle, ClientCalls
<1>4. servers \in Seq(ServerProcesses) /\ Len(servers) = 0 /\ DOMAIN servers = {}
  BY <1>1
<1>5. McpTypeOK
  BY <1>1, <1>2, <1>3, <1>4 DEF McpTypeOK
<1>6. ConnectionHeld /\ HandshakesGreet /\ CallersAreGreeted
  BY <1>1, <1>4 DEF ConnectionHeld, HandshakesGreet, CallersAreGreeted, Mcp!NoneGoes, Mcp!Closed, Mcp!Idle
<1>7. NumbersAreUsed /\ CallsAreServed
  BY <1>1, <1>4 DEF NumbersAreUsed, CallsAreServed, CallIsServed, Mcp!Idle
<1> QED BY <1>5, <1>6, <1>7 DEF McpIInv

LEMMA McpSteps == McpIInv /\ [Mcp!Next]_(Mcp!vars) => McpIInv'
<1> SUFFICES ASSUME McpIInv, [Mcp!Next]_(Mcp!vars) PROVE McpIInv'
  OBVIOUS
<1>1. CASE UNCHANGED Mcp!vars
  <2>1. ServersKeep
    BY <1>1 DEF ServersKeep, McpIInv, McpTypeOK, Mcp!vars
  <2> QED BY <1>1, <2>1, KeepingPreserves DEF Mcp!vars
<1>2. ASSUME NEW c \in McpCalls, Mcp!Arrive(c) \/ Mcp!Continue(c) PROVE McpIInv'
  BY <1>2, ArrivePreserves, ContinuePreserves
<1>3. ASSUME NEW id \in pending, Mcp!RequestFails(id) PROVE McpIInv'
  BY <1>3, RequestFailsPreserves
<1>4. ASSUME NEW n \in DOMAIN servers, Mcp!ChildLost(n) PROVE McpIInv'
  BY <1>4, ChildLostPreserves
<1>5. ASSUME NEW n \in DOMAIN servers, NEW id \in servers[n].inbox, Mcp!ServerAnswers(n, id) PROVE McpIInv'
  BY <1>5, ServerAnswersPreserves
<1>6. ASSUME NEW n \in DOMAIN servers, NEW m \in servers[n].out, Mcp!Data(n, m) PROVE McpIInv'
  BY <1>6, DataPreserves
<1>7. ASSUME NEW i \in inits, Mcp!Notified(i) PROVE McpIInv'
  BY <1>7, NotifiedPreserves
<1>8. ASSUME Mcp!Close PROVE McpIInv'
  BY <1>8, ClosePreserves
<1> QED BY <1>1, <1>2, <1>3, <1>4, <1>5, <1>6, <1>7, <1>8 DEF Mcp!Next

\* A call reaches a greeted child and resolves only with that child's answer to it, but
\* for a handshake that ended after its connection had been reset.
LEMMA CallsReachReadyServers == Mcp!Spec => []Mcp!CallsReachAReadyServer
<1>1. McpIInv => Mcp!CallsReachAReadyServer
  <2> SUFFICES ASSUME McpIInv, NEW c \in McpCalls
               PROVE  /\ mcpCalls[c].at \in {"waiting", "done"} =>
                           servers[mcpCalls[c].sent].hello \/ crossed
                      /\ mcpCalls[c].at = "done" => mcpCalls[c].from = mcpCalls[c].sent
    BY DEF Mcp!CallsReachAReadyServer
  <2> QED BY DEF McpIInv, CallsAreServed, CallIsServed
<1>2. Mcp!Spec => []McpIInv
  BY McpInitially, McpSteps, PTL DEF Mcp!Spec
<1> QED BY <1>1, <1>2, PTL

-------------------------------------------------------------------------------
(* The journal of a Session *)

\* a journal, or a projection of it, that nothing was cut off
Sound(f) == f.closed /\ Journal!Replays(f.lines)
CommitIds(f) == {f.lines[i].id : i \in DOMAIN f.lines}
WithLine(f, line, closed) == [lines |-> Append(f.lines, line), closed |-> closed]
Follows(line, f) == line \in Journal!Lines /\ line.rev = Journal!LastRev(f) + 1

LEMMA LineAppended ==
  ASSUME NEW s \in Seq(Journal!Lines), NEW x \in Journal!Lines
  PROVE  /\ Append(s, x) \in Seq(Journal!Lines) /\ Append(s, x) # <<>>
         /\ Len(Append(s, x)) = Len(s) + 1 /\ DOMAIN Append(s, x) = 1 .. Len(s) + 1
         /\ \A i \in 1 .. Len(s) : Append(s, x)[i] = s[i]
         /\ Append(s, x)[Len(s) + 1] = x
         /\ Journal!Front(Append(s, x)) = s /\ Journal!Last(Append(s, x)) = x
<1>1. /\ Append(s, x) \in Seq(Journal!Lines) /\ Append(s, x) # <<>>
      /\ Len(Append(s, x)) = Len(s) + 1 /\ DOMAIN Append(s, x) = 1 .. Len(s) + 1
      /\ \A i \in 1 .. Len(s) : Append(s, x)[i] = s[i]
      /\ Append(s, x)[Len(s) + 1] = x
      /\ Len(s) \in Nat
  OBVIOUS
<1>2. Journal!Last(Append(s, x)) = x
  BY <1>1 DEF Journal!Last
<1>3. SubSeq(Append(s, x), 1, Len(s)) = s
  OBVIOUS
<1>4. Journal!Front(Append(s, x)) = s
  BY <1>1, <1>3 DEF Journal!Front
<1> QED BY <1>1, <1>2, <1>4

LEMMA LineTypes ==
  /\ Journal!Header \in Journal!Lines /\ Journal!Junk \in Journal!Lines
  /\ Journal!Junk.rev = -1 /\ Journal!Header.rev = 0
BY DEF Journal!Header, Journal!Junk, Journal!Lines

LEMMA SoundIsWhole ==
  ASSUME NEW f \in Journal!Journals, Sound(f)
  PROVE  /\ Journal!Loadable(f) /\ ~Journal!Torn(f) /\ Journal!Whole(f) = f
<1>1. ~Journal!Torn(f) /\ Journal!Loadable(f)
  BY DEF Sound, Journal!Torn, Journal!Loadable
<1>2. Journal!Whole(f) = [lines |-> f.lines, closed |-> TRUE]
  BY <1>1 DEF Journal!Whole
<1> QED BY <1>1, <1>2 DEF Sound, Journal!Journals

\* A line that was cut short is a torn tail.
LEMMA JunkIsTorn ==
  ASSUME NEW f \in Journal!Journals, Sound(f)
  PROVE  /\ WithLine(f, Journal!Junk, FALSE) \in Journal!Journals
         /\ ~WithLine(f, Journal!Junk, FALSE).closed
         /\ Journal!Torn(WithLine(f, Journal!Junk, FALSE))
         /\ Journal!Loadable(WithLine(f, Journal!Junk, FALSE))
         /\ Journal!Whole(WithLine(f, Journal!Junk, FALSE)) = f
         /\ CommitIds(f) \subseteq CommitIds(WithLine(f, Journal!Junk, FALSE))
<1> DEFINE g == WithLine(f, Journal!Junk, FALSE)
<1>1. f.lines \in Seq(Journal!Lines) /\ f.lines # <<>> /\ Len(f.lines) \in Nat /\ Len(f.lines) # 0
      /\ DOMAIN f.lines = 1 .. Len(f.lines)
  BY DEF Journal!Journals, Sound, Journal!Replays
<1>2. g.lines = Append(f.lines, Journal!Junk) /\ g.closed = FALSE
  BY DEF WithLine
<1>3. g \in Journal!Journals
  BY <1>1, LineAppended, LineTypes DEF WithLine, Journal!Journals
<1> HIDE DEF g
<1>4. /\ Journal!Front(g.lines) = f.lines /\ Journal!Last(g.lines) = Journal!Junk
      /\ Len(g.lines) = Len(f.lines) + 1 /\ DOMAIN g.lines = 1 .. Len(f.lines) + 1
      /\ \A i \in 1 .. Len(f.lines) : g.lines[i] = f.lines[i]
  BY <1>1, <1>2, LineAppended, LineTypes
<1>5. Journal!Torn(g)
  BY <1>1, <1>2, <1>4 DEF Journal!Torn, Sound
<1>6. Journal!Whole(g) = [lines |-> f.lines, closed |-> TRUE]
  BY <1>4, <1>5 DEF Journal!Whole
<1>7. f = [lines |-> f.lines, closed |-> TRUE]
  BY DEF Journal!Journals, Sound
<1>8. CommitIds(f) \subseteq CommitIds(g)
  BY <1>1, <1>4 DEF CommitIds
<1>9. Journal!Loadable(g) /\ Journal!Whole(g) = f
  BY <1>5, <1>6, <1>7 DEF Journal!Loadable
<1> QED BY <1>2, <1>3, <1>5, <1>8, <1>9 DEF g

\* A commit with the next revision replays, its newline written or not.
LEMMA CommitReplays ==
  ASSUME NEW f \in Journal!Journals, Sound(f), NEW c, Follows(c, f), NEW b \in BOOLEAN
  PROVE  /\ WithLine(f, c, b) \in Journal!Journals /\ WithLine(f, c, b).closed = b
         /\ Journal!Loadable(WithLine(f, c, b)) /\ ~Journal!Torn(WithLine(f, c, b))
         /\ Journal!Whole(WithLine(f, c, b)) = WithLine(f, c, TRUE)
         /\ Sound(WithLine(f, c, TRUE))
         /\ CommitIds(WithLine(f, c, b)) = CommitIds(f) \union {c.id}
<1> DEFINE g == WithLine(f, c, b)
<1>1. f.lines \in Seq(Journal!Lines) /\ f.lines # <<>> /\ Len(f.lines) \in Nat /\ Len(f.lines) # 0
      /\ DOMAIN f.lines = 1 .. Len(f.lines)
  BY DEF Journal!Journals, Sound, Journal!Replays
<1>2. g.lines = Append(f.lines, c) /\ g.closed = b /\ WithLine(f, c, TRUE).lines = Append(f.lines, c)
      /\ WithLine(f, c, TRUE).closed = TRUE
  BY DEF WithLine
<1>3. c \in Journal!Lines /\ c.rev = Len(f.lines)
  BY <1>1 DEF Follows, Journal!LastRev
<1>4. g \in Journal!Journals
  BY <1>1, <1>3, LineAppended DEF WithLine, Journal!Journals
<1>5. \A i \in 1 .. Len(f.lines) : f.lines[i].rev = i - 1
  BY <1>1 DEF Sound, Journal!Replays
<1>6. Journal!Replays(Append(f.lines, c))
  <2>1. ASSUME NEW i \in 1 .. Len(f.lines) + 1 PROVE Append(f.lines, c)[i].rev = i - 1
    <3>1. CASE i \in 1 .. Len(f.lines)
      BY <1>1, <1>3, <1>5, <3>1, LineAppended
    <3>2. CASE i = Len(f.lines) + 1
      BY <1>1, <1>3, <3>2, LineAppended
    <3> QED BY <1>1, <3>1, <3>2
  <2> QED BY <1>1, <1>3, <2>1, LineAppended DEF Journal!Replays
<1>7. ~Journal!Torn(g)
  <2>1. Journal!Last(g.lines) = c /\ c # Journal!Junk
    BY <1>1, <1>2, <1>3, LineAppended, LineTypes
  <2> QED BY <2>1 DEF Journal!Torn
<1>8. Journal!Whole(g) = [lines |-> Append(f.lines, c), closed |-> TRUE]
  BY <1>2, <1>7 DEF Journal!Whole
<1>9. CommitIds(g) = CommitIds(f) \union {c.id}
  <2>1. 1 .. Len(f.lines) + 1 = (1 .. Len(f.lines)) \union {Len(f.lines) + 1}
    BY <1>1
  <2> QED BY <1>1, <1>2, <1>3, <2>1, LineAppended DEF CommitIds
<1> HIDE DEF g
<1>10. Journal!Loadable(g) /\ Journal!Whole(g) = WithLine(f, c, TRUE) /\ Sound(WithLine(f, c, TRUE))
  BY <1>2, <1>6, <1>8 DEF WithLine, Sound, Journal!Loadable
<1> QED BY <1>2, <1>4, <1>7, <1>9, <1>10 DEF g

\* What can be loaded, without its torn tail.
LEMMA WholeIsSound ==
  ASSUME NEW f \in Journal!Journals, Journal!Loadable(f)
  PROVE  /\ Journal!Whole(f) \in Journal!Journals /\ Sound(Journal!Whole(f))
         /\ Journal!Whole(f).closed
         /\ CommitIds(Journal!Whole(f)) \subseteq CommitIds(f)
<1> DEFINE l == f.lines
<1>1. l \in Seq(Journal!Lines) /\ Len(l) \in Nat /\ DOMAIN l = 1 .. Len(l)
  BY DEF Journal!Journals
<1>2. CASE Journal!Torn(f)
  <2>1. Journal!Whole(f) = [lines |-> Journal!Front(l), closed |-> TRUE] /\ Journal!Replays(Journal!Front(l))
    BY <1>2 DEF Journal!Whole, Journal!Torn
  <2>2. Len(l) > 1
    BY <1>2 DEF Journal!Torn
  <2>3. /\ Journal!Front(l) \in Seq(Journal!Lines) /\ Len(Journal!Front(l)) = Len(l) - 1
        /\ \A i \in 1 .. Len(l) - 1 : Journal!Front(l)[i] = l[i]
    BY <1>1, <2>2 DEF Journal!Front
  <2>4. DOMAIN Journal!Front(l) = 1 .. Len(l) - 1 /\ 1 .. Len(l) - 1 \subseteq 1 .. Len(l)
    BY <1>1, <2>2, <2>3
  <2>5. CommitIds(Journal!Whole(f)) \subseteq CommitIds(f)
    <3> DEFINE front == Journal!Front(l)
    <3>1. Journal!Whole(f).lines = front
      BY <2>1
    <3>2. \A i \in DOMAIN front : i \in DOMAIN l /\ front[i].id = l[i].id
      BY <1>1, <2>3, <2>4
    <3> HIDE DEF front
    <3> QED BY <3>1, <3>2 DEF CommitIds
  <2>6. Journal!Whole(f) \in Journal!Journals /\ Sound(Journal!Whole(f)) /\ Journal!Whole(f).closed
    BY <2>1, <2>3 DEF Sound, Journal!Journals
  <2> QED BY <2>5, <2>6
<1>3. CASE ~Journal!Torn(f)
  <2>1. Journal!Whole(f) = [lines |-> l, closed |-> TRUE] /\ Journal!Replays(l)
    BY <1>3 DEF Journal!Whole, Journal!Loadable
  <2> QED BY <1>1, <2>1 DEF Sound, Journal!Journals, CommitIds
<1> QED BY <1>2, <1>3

LEMMA NoneIsNoJournal == None \notin Journal!Journals
BY RunPartsAssumption DEF Journal!JournalAssumption

---------------------------------------------------------------------------

JournalLoads ==
  [at : {"idle", "read", "whole", "checked"}, file : Journal!Journals,
   why : {None, "save", "list", "delete"}]
Loaders == {Journal!Locked, Journal!Free}

JournalTypeOK ==
  /\ file \in Journal!Journals
  /\ projection # None => projection \in Journal!Journals /\ projection.closed
  /\ load \in [Loaders -> JournalLoads]
  /\ next \in Nat
  /\ journalExcused \in BOOLEAN /\ deleted \in BOOLEAN /\ failed \in BOOLEAN

\* a sidecar was written for a journal of whole lines
MetaFits == meta # None => meta.rev \in Int /\ meta.size = 2 * (meta.rev + 1)

LEMMA MetaOfClosed ==
  ASSUME NEW f \in Journal!Journals, f.closed
  PROVE  Journal!Meta(f).rev \in Int /\ Journal!Meta(f).size = 2 * (Journal!Meta(f).rev + 1)
<1>1. Len(f.lines) \in Nat
  BY DEF Journal!Journals
<1> QED BY <1>1 DEF Journal!Meta, Journal!Size, Journal!LastRev

LEMMA FrontTypes ==
  ASSUME NEW s \in Seq(Journal!Lines)
  PROVE  Journal!Front(s) \in Seq(Journal!Lines)
<1>1. Len(s) \in Nat
  OBVIOUS
<1>2. CASE Len(s) = 0
  <2>1. SubSeq(s, 1, Len(s) - 1) = <<>>
    BY <1>2
  <2> QED BY <2>1 DEF Journal!Front
<1>3. CASE Len(s) # 0
  <2>1. Len(s) - 1 \in Nat /\ Len(s) - 1 <= Len(s)
    BY <1>1, <1>3
  <2> QED BY <2>1 DEF Journal!Front
<1> QED BY <1>2, <1>3

LEMMA AppendedTypes ==
  ASSUME NEW f \in Journal!Journals, NEW line \in Journal!Lines, NEW b \in BOOLEAN
  PROVE  Journal!Appended(f, line, b) \in Journal!Journals
<1>1. f.lines \in Seq(Journal!Lines) /\ Journal!Front(f.lines) \in Seq(Journal!Lines)
  BY FrontTypes DEF Journal!Journals
<1>2. /\ Append(f.lines, line) \in Seq(Journal!Lines)
      /\ Append(Journal!Front(f.lines), Journal!Junk) \in Seq(Journal!Lines)
  BY <1>1, LineTypes
<1> QED BY <1>2 DEF Journal!Appended, Journal!Journals

LEMMA WholeTypes ==
  ASSUME NEW f \in Journal!Journals
  PROVE  Journal!Whole(f) \in Journal!Journals /\ Journal!Whole(f).closed
<1>1. f.lines \in Seq(Journal!Lines) /\ Journal!Front(f.lines) \in Seq(Journal!Lines)
  BY FrontTypes DEF Journal!Journals
<1> QED BY <1>1 DEF Journal!Whole, Journal!Journals

LEMMA NewlineTypes ==
  ASSUME NEW f \in Journal!Journals
  PROVE  Journal!Newline(f) \in Journal!Journals
<1>1. [f EXCEPT !.closed = TRUE] \in Journal!Journals
  BY DEF Journal!Journals
<1> QED BY <1>1, AppendedTypes, LineTypes DEF Journal!Newline

LEMMA CommitTypes ==
  ASSUME JournalTypeOK, projection # None
  PROVE  Journal!Commit \in Journal!Lines /\ Journal!Commit.id = next /\ Follows(Journal!Commit, projection)
<1>1. Len(projection.lines) \in Nat /\ next \in Nat
  BY DEF JournalTypeOK, Journal!Journals
<1>2. Journal!LastRev(projection) + 1 \in Int
  BY <1>1 DEF Journal!LastRev
<1> QED BY <1>1, <1>2 DEF Journal!Commit, Journal!Lines, Follows

LEMMA ResidueTypes ==
  ASSUME JournalTypeOK, projection # None, NEW f \in Journal!Residues(file)
  PROVE  f \in Journal!Journals
BY CommitTypes, AppendedTypes, LineTypes DEF Journal!Residues, JournalTypeOK

LEMMA NoLoadTypes ==
  /\ Journal!NoLoad \in JournalLoads /\ Journal!NoLoad.at = "idle"
  /\ [Journal!NoLoad EXCEPT !.at = "checked"] \in JournalLoads
  /\ Journal!Absent \in Journal!Journals
<1>1. <<>> \in Seq(Journal!Lines)
  OBVIOUS
<1>2. Journal!Absent \in Journal!Journals
  BY <1>1 DEF Journal!Absent, Journal!Journals
<1> QED BY <1>2 DEF Journal!NoLoad, JournalLoads

LEMMA ReadFileTypes ==
  ASSUME JournalTypeOK, NEW x \in Loaders, NEW why \in {"save", "list", "delete"},
         Journal!ReadFile(x, why)
  PROVE  /\ load' \in [Loaders -> JournalLoads]
         /\ \A y \in Loaders \ {x} : load'[y] = load[y]
         /\ IF Journal!Loadable(file)
            THEN load'[x].at = "read" /\ load'[x].file = file
            ELSE load'[x] = Journal!NoLoad
<1>1. [at |-> "read", file |-> file, why |-> why] \in JournalLoads
  BY DEF JournalTypeOK, JournalLoads
<1> QED BY <1>1, NoLoadTypes DEF Journal!ReadFile, JournalTypeOK

LEMMA JournalTypesStay ==
  ASSUME JournalTypeOK, MetaFits, [Journal!Next]_(Journal!vars)
  PROVE  JournalTypeOK' /\ MetaFits'
<1> USE DEF JournalTypeOK
<1>a. \A x \in Loaders : load[x] \in JournalLoads /\ load[x].file \in Journal!Journals
  BY DEF JournalLoads
<1>b. \A b \in BOOLEAN : [load EXCEPT ![Journal!Free] = Journal!NoLoad] \in [Loaders -> JournalLoads]
  BY NoLoadTypes DEF Loaders
<1>1. CASE UNCHANGED Journal!vars
  BY <1>1 DEF Journal!vars, MetaFits
<1>2. ASSUME NEW x \in Loaders, Journal!Repair(x) PROVE JournalTypeOK' /\ MetaFits'
  <2> DEFINE read == load[x].file
  <2>1. /\ UNCHANGED <<meta, projection, deleted, failed, next>>
        /\ load' = [load EXCEPT ![x].at = "whole"]
        /\ \/ file' = Journal!Whole(read) /\ journalExcused' = (journalExcused \/ file \notin {read, Journal!Whole(read)})
           \/ file' = Journal!Newline(file) /\ journalExcused' = (journalExcused \/ file # read)
           \/ file' = file /\ journalExcused' = journalExcused
    BY <1>2 DEF Journal!Repair
  <2>2. read \in Journal!Journals
    BY <1>a
  <2> HIDE DEF read
  <2>3. file' \in Journal!Journals /\ journalExcused' \in BOOLEAN
    BY <2>1, <2>2, WholeTypes, NewlineTypes
  <2>4. [load[x] EXCEPT !.at = "whole"] \in JournalLoads
    BY <1>a DEF JournalLoads
  <2>5. load' \in [Loaders -> JournalLoads]
    BY <2>1, <2>4
  <2> QED BY <2>1, <2>3, <2>5 DEF MetaFits
<1>3. ASSUME NEW x \in Loaders, Journal!Loaded(x) PROVE JournalTypeOK' /\ MetaFits'
  <2> DEFINE f == Journal!Whole(load[x].file)
  <2>1. /\ UNCHANGED <<file, deleted, failed, next>> /\ projection' = f /\ meta' \in {meta, Journal!Meta(f)}
        /\ load' = [load EXCEPT ![x] = IF @.why = "delete" THEN [@ EXCEPT !.at = "checked"] ELSE Journal!NoLoad]
        /\ journalExcused' = (journalExcused \/ (projection # None /\ projection # f))
    BY <1>3 DEF Journal!Loaded
  <2>2. f \in Journal!Journals /\ f.closed
    BY <1>a, WholeTypes
  <2> HIDE DEF f
  <2>3. [load[x] EXCEPT !.at = "checked"] \in JournalLoads
    BY <1>a DEF JournalLoads
  <2>4. load' \in [Loaders -> JournalLoads]
    BY <2>1, <2>3, NoLoadTypes
  <2>5. MetaFits'
    BY <2>1, <2>2, MetaOfClosed DEF MetaFits
  <2> QED BY <2>1, <2>2, <2>4, <2>5
<1>4. CASE Journal!Create
  <2> DEFINE f == [lines |-> <<Journal!Header>>, closed |-> TRUE]
  <2>1. /\ UNCHANGED <<load, deleted, failed, journalExcused, next>> /\ file' = f /\ projection' = f
        /\ meta' \in {meta, Journal!Meta(f)}
    BY <1>4 DEF Journal!Create
  <2>2. <<Journal!Header>> \in Seq(Journal!Lines)
    BY LineTypes
  <2>3. f \in Journal!Journals /\ f.closed
    BY <2>2 DEF Journal!Journals
  <2> HIDE DEF f
  <2> QED BY <2>1, <2>3, MetaOfClosed DEF MetaFits
<1>5. CASE Journal!TakeLock
  <2>1. UNCHANGED <<file, meta, projection, deleted, failed, journalExcused, next>>
    BY <1>5 DEF Journal!TakeLock
  <2>2. load' = load \/ Journal!ReadFile(Journal!Locked, "save")
    BY <1>5 DEF Journal!TakeLock
  <2>3. load' \in [Loaders -> JournalLoads]
    BY <2>2, ReadFileTypes DEF Loaders
  <2> QED BY <2>1, <2>3 DEF MetaFits
<1>6. CASE Journal!ReleaseLock
  BY <1>6 DEF Journal!ReleaseLock, MetaFits
<1>7. CASE Journal!AppendLands
  <2>1. /\ UNCHANGED <<meta, projection, load, deleted, failed, next>> /\ projection # None
        /\ file' = Journal!Appended(file, Journal!Commit, TRUE) /\ journalExcused' = (journalExcused \/ failed)
    BY <1>7 DEF Journal!AppendLands
  <2> QED BY <2>1, CommitTypes, AppendedTypes DEF MetaFits
<1>8. CASE Journal!Saved
  <2>1. /\ UNCHANGED <<file, load, deleted, failed, journalExcused>> /\ projection # None
        /\ projection' = Journal!Appended(projection, Journal!Commit, TRUE)
        /\ meta' \in {meta, Journal!Meta(projection')} /\ next' = next + 1
    BY <1>8 DEF Journal!Saved
  <2>2. projection' \in Journal!Journals /\ projection'.closed
    <3>1. projection' \in Journal!Journals
      BY <2>1, CommitTypes, AppendedTypes
    <3> QED BY <2>1, <3>1 DEF Journal!Appended
  <2>3. MetaFits'
    BY <2>1, <2>2, MetaOfClosed DEF MetaFits
  <2>4. next' \in Nat
    BY <2>1
  <2> QED BY <2>1, <2>2, <2>3, <2>4
<1>9. CASE Journal!AppendFails
  <2>1. /\ UNCHANGED <<meta, projection, load, deleted>> /\ projection # None /\ next' = next + 1
        /\ file' \in Journal!Residues(file) /\ failed' = (failed \/ file' # file)
        /\ journalExcused' = (journalExcused \/ (failed /\ file' # file))
    BY <1>9 DEF Journal!AppendFails
  <2> QED BY <2>1, ResidueTypes DEF MetaFits
<1>10. CASE Journal!LoadMeta
  <2>1. UNCHANGED <<file, projection, deleted, failed, journalExcused, next>>
    BY <1>10 DEF Journal!LoadMeta
  <2>2. \/ projection # None /\ meta' \in {meta, Journal!Meta(projection)} /\ load' = load
        \/ Journal!ReadFile(Journal!Free, "list") /\ meta' = meta
    BY <1>10 DEF Journal!LoadMeta
  <2>3. load' \in [Loaders -> JournalLoads]
    BY <2>2, ReadFileTypes DEF Loaders
  <2>4. MetaFits'
    BY <2>2, MetaOfClosed DEF MetaFits
  <2> QED BY <2>1, <2>3, <2>4
<1>11. CASE Journal!DeleteCheck
  <2>1. UNCHANGED <<file, meta, projection, deleted, failed, journalExcused, next>>
    BY <1>11 DEF Journal!DeleteCheck
  <2>2. \/ load' = [load EXCEPT ![Journal!Free] = [Journal!NoLoad EXCEPT !.at = "checked"]]
        \/ Journal!ReadFile(Journal!Free, "delete")
    BY <1>11 DEF Journal!DeleteCheck
  <2>3. load' \in [Loaders -> JournalLoads]
    BY <2>2, ReadFileTypes, NoLoadTypes DEF Loaders
  <2> QED BY <2>1, <2>3 DEF MetaFits
<1>12. CASE Journal!Delete
  <2>1. /\ load' = [load EXCEPT ![Journal!Free] = Journal!NoLoad] /\ file' = Journal!Absent
        /\ meta' = None /\ projection' = None /\ deleted' = TRUE /\ UNCHANGED <<failed, next>>
        /\ journalExcused' = (journalExcused \/ op # "idle")
    BY <1>12 DEF Journal!Delete
  <2> QED BY <2>1, <1>b, NoLoadTypes DEF MetaFits
<1>13. CASE Journal!Restart
  <2>1. /\ file' \in {file}
             \union (IF op = "loaded" /\ projection # None /\ next <= MaxCommits THEN Journal!Residues(file) ELSE {})
             \union (IF file = Journal!Absent /\ ~deleted
                     THEN [lines : {<<Journal!Junk>>, <<Journal!Header>>}, closed : {FALSE}] ELSE {})
        /\ journalExcused' = (journalExcused \/ (failed /\ file' # file))
        /\ next' \in {next, next + 1} /\ projection' = None /\ failed' = FALSE
        /\ load' = [x \in {Journal!Locked, Journal!Free} |-> Journal!NoLoad] /\ UNCHANGED <<meta, deleted>>
    BY <1>13 DEF Journal!Restart
  <2>2. load' \in [Loaders -> JournalLoads] /\ next' \in Nat
    BY <2>1, NoLoadTypes DEF Loaders
  <2>3. file' \in Journal!Journals
    <3>1. /\ <<Journal!Junk>> \in Seq(Journal!Lines) /\ <<Journal!Header>> \in Seq(Journal!Lines)
      BY LineTypes
    <3>2. [lines : {<<Journal!Junk>>, <<Journal!Header>>}, closed : {FALSE}] \subseteq Journal!Journals
      BY <3>1 DEF Journal!Journals
    <3> QED BY <2>1, <3>2, ResidueTypes
  <2> QED BY <2>1, <2>2, <2>3 DEF MetaFits
<1> QED BY <1>1, <1>2, <1>3, <1>4, <1>5, <1>6, <1>7, <1>8, <1>9, <1>10, <1>11, <1>12, <1>13
        DEF Journal!Next, Loaders

---------------------------------------------------------------------------

\* what an append that fails can make of a journal, and a newline make of that
IsLeftover(g, f) ==
  \/ g = f
  \/ g = WithLine(f, Journal!Junk, FALSE)
  \/ \E c \in Journal!Lines, b \in BOOLEAN : Follows(c, f) /\ g = WithLine(f, c, b)

\* a Session that was deleted has no journal, and nobody is at work on it
DeletedIsGone ==
  deleted =>
    /\ file = Journal!Absent /\ op = "idle" /\ projection = None
    /\ \A x \in Loaders : load[x] = Journal!NoLoad

\* until a projection is kept, what a load has read is the journal, repaired or not
LoadsAgree ==
  projection = None =>
    \A x \in Loaders :
      /\ load[x].at \in {"read", "whole"} => Journal!Loadable(load[x].file)
      /\ load[x].at = "read" => file \in {load[x].file, Journal!Whole(load[x].file)}
      /\ load[x].at = "whole" => file = Journal!Whole(load[x].file)

\* a projection is the journal, but for the line that was or is being appended
ProjectionHolds ==
  projection # None =>
    /\ Sound(projection) /\ ~deleted
    /\ op = "appended" => ~failed /\ file = WithLine(projection, Journal!Commit, TRUE)
    /\ op # "appended" /\ ~failed => file = projection
    /\ op # "appended" /\ failed => IsLeftover(file, projection)

\* who has the lock has a projection, or loads it
LockIsHeld ==
  /\ op \in {"loaded", "appended"} => projection # None
  /\ op # "loading" => load[Journal!Locked] = Journal!NoLoad
  /\ load[Journal!Locked] = Journal!NoLoad \/ load[Journal!Locked].why = "save"
  /\ failed => projection # None \/ deleted

AckedIsHere ==
  acked # {} =>
    /\ Journal!Loadable(file)
    /\ acked \subseteq CommitIds(IF projection # None THEN projection ELSE Journal!Whole(file))

JournalSafe == DeletedIsGone /\ LoadsAgree /\ ProjectionHolds /\ LockIsHeld /\ AckedIsHere
JournalIInv == JournalTypeOK /\ MetaFits /\ (~journalExcused => JournalSafe)

LEMMA LeftoverLoads ==
  ASSUME NEW f \in Journal!Journals, Sound(f), NEW g, IsLeftover(g, f)
  PROVE  /\ g \in Journal!Journals /\ Journal!Loadable(g)
         /\ CommitIds(f) \subseteq CommitIds(g)
         /\ CommitIds(f) \subseteq CommitIds(Journal!Whole(g))
         /\ IsLeftover(Journal!Whole(g), f)
<1>1. CASE g = f
  BY <1>1, SoundIsWhole DEF IsLeftover
<1>2. CASE g = WithLine(f, Journal!Junk, FALSE)
  BY <1>2, JunkIsTorn DEF IsLeftover
<1>3. CASE \E c \in Journal!Lines, b \in BOOLEAN : Follows(c, f) /\ g = WithLine(f, c, b)
  <2>1. PICK c \in Journal!Lines, b \in BOOLEAN : Follows(c, f) /\ g = WithLine(f, c, b)
    BY <1>3
  <2>2. /\ g \in Journal!Journals /\ Journal!Loadable(g) /\ CommitIds(f) \subseteq CommitIds(g)
        /\ Journal!Whole(g) = WithLine(f, c, TRUE)
    BY <2>1, CommitReplays
  <2>3. CommitIds(f) \subseteq CommitIds(WithLine(f, c, TRUE))
    BY <2>1, CommitReplays
  <2> QED BY <2>1, <2>2, <2>3 DEF IsLeftover
<1> QED BY <1>1, <1>2, <1>3 DEF IsLeftover

LEMMA FileIsLeftover ==
  ASSUME JournalTypeOK, projection # None, ProjectionHolds
  PROVE  projection \in Journal!Journals /\ Sound(projection) /\ IsLeftover(file, projection)
<1>1. projection \in Journal!Journals /\ Sound(projection)
  BY DEF JournalTypeOK, ProjectionHolds
<1>2. IsLeftover(WithLine(projection, Journal!Commit, TRUE), projection)
  BY CommitTypes DEF IsLeftover
<1>3. IsLeftover(projection, projection)
  BY DEF IsLeftover
<1> QED BY <1>1, <1>2, <1>3 DEF ProjectionHolds, JournalTypeOK

LEMMA ResidueIsLeftover ==
  ASSUME JournalTypeOK, projection # None, Sound(projection), file = projection,
         NEW f \in Journal!Residues(file)
  PROVE  IsLeftover(f, projection)
<1>1. \A line, b : Journal!Appended(file, line, b) = WithLine(projection, line, b)
  BY DEF Journal!Appended, WithLine, Sound
<1>2. f \in {projection, WithLine(projection, Journal!Junk, FALSE),
             WithLine(projection, Journal!Commit, FALSE), WithLine(projection, Journal!Commit, TRUE)}
  BY <1>1 DEF Journal!Residues
<1> QED BY <1>2, CommitTypes DEF IsLeftover

\* A repair leaves the journal, or drops what was cut short of it.
LEMMA RepairWrites ==
  ASSUME JournalTypeOK, NEW x \in Loaders, Journal!Repair(x), ~journalExcused'
  PROVE  /\ \/ file' = file
            \/ file = load[x].file /\ ~file.closed /\ file' = Journal!Whole(file)
         /\ Journal!Loadable(load[x].file) /\ file \in {load[x].file, Journal!Whole(load[x].file)}
              => file' = Journal!Whole(load[x].file)
<1> DEFINE read == load[x].file
<1>0. read \in Journal!Journals
  BY DEF JournalTypeOK, JournalLoads
<1>1. CASE Journal!Torn(read)
  <2>1. file' = Journal!Whole(read) /\ file \in {read, Journal!Whole(read)} /\ ~read.closed
    BY <1>1 DEF Journal!Repair, Journal!Torn
  <2> QED BY <2>1
<1>2. CASE ~Journal!Torn(read) /\ ~read.closed
  <2>1. file' = Journal!Newline(file) /\ file = read
    BY <1>2 DEF Journal!Repair
  <2>2. Journal!Newline(read) = [read EXCEPT !.closed = TRUE]
    BY <1>2 DEF Journal!Newline
  <2>3. Journal!Whole(read) = [lines |-> read.lines, closed |-> TRUE]
    BY <1>2 DEF Journal!Whole
  <2>4. Journal!Newline(read) = Journal!Whole(read)
    BY <1>0, <2>2, <2>3 DEF Journal!Journals
  <2> HIDE DEF read
  <2> QED BY <1>2, <2>1, <2>4 DEF read
<1>3. CASE read.closed
  <2>1. file' = file /\ ~Journal!Torn(read)
    BY <1>3 DEF Journal!Repair, Journal!Torn
  <2>2. Journal!Loadable(read) => Journal!Whole(read) = read
    BY <1>0, <1>3, <2>1, SoundIsWhole DEF Sound, Journal!Loadable
  <2> QED BY <2>1, <2>2
<1> QED BY <1>1, <1>2, <1>3

---------------------------------------------------------------------------

LEMMA WholeTwice ==
  ASSUME NEW f \in Journal!Journals, Journal!Loadable(f)
  PROVE  Journal!Whole(Journal!Whole(f)) = Journal!Whole(f) /\ Journal!Loadable(Journal!Whole(f))
BY WholeIsSound, SoundIsWhole

LEMMA AbsentIsEmpty == ~Journal!Loadable(Journal!Absent)
BY DEF Journal!Absent, Journal!Loadable, Journal!Torn, Journal!Replays

LEMMA LoadFiles ==
  ASSUME JournalTypeOK, NEW x \in Loaders
  PROVE  load[x] \in JournalLoads /\ load[x].file \in Journal!Journals
BY DEF JournalTypeOK, JournalLoads

LEMMA RepairIsSafe ==
  ASSUME JournalTypeOK, JournalTypeOK', JournalSafe, ~journalExcused', NEW x \in Loaders, Journal!Repair(x)
  PROVE  JournalSafe'
<1> DEFINE read == load[x].file
<1>1. /\ UNCHANGED <<meta, projection, op, acked, deleted, failed, next>>
      /\ load[x].at = "read" /\ load' = [load EXCEPT ![x].at = "whole"]
  BY DEF Journal!Repair
<1>2. ~deleted /\ load[x] # Journal!NoLoad
  BY <1>1, NoLoadTypes DEF JournalSafe, DeletedIsGone
<1>3. /\ load \in [Loaders -> JournalLoads] /\ \A y \in Loaders \ {x} : load'[y] = load[y]
      /\ load'[x].at = "whole" /\ load'[x].file = read /\ load'[x].why = load[x].why
      /\ read \in Journal!Journals
  <2>1. load[x] \in JournalLoads /\ load'[x] = [load[x] EXCEPT !.at = "whole"]
    BY <1>1 DEF JournalTypeOK
  <2>2. /\ load'[x].at = "whole" /\ load'[x].file = load[x].file /\ load'[x].why = load[x].why
        /\ load[x].file \in Journal!Journals
    BY <2>1 DEF JournalLoads
  <2> QED BY <1>1, <2>2 DEF JournalTypeOK
<1>4. LockIsHeld'
  <2>1. x = Journal!Locked => op = "loading"
    BY <1>2 DEF JournalSafe, LockIsHeld
  <2>2. x # Journal!Locked => load'[Journal!Locked] = load[Journal!Locked]
    BY <1>3 DEF Loaders
  <2> QED BY <1>1, <1>2, <1>3, <2>1, <2>2 DEF JournalSafe, LockIsHeld
<1>5. CASE projection = None
  <2>1. Journal!Loadable(read) /\ file \in {read, Journal!Whole(read)} /\ file' = Journal!Whole(read)
    BY <1>1, <1>5, RepairWrites DEF JournalSafe, LoadsAgree
  <2>2. /\ file' = Journal!Whole(file) /\ Journal!Loadable(file') /\ Journal!Whole(file') = file'
    BY <1>3, <2>1, WholeTwice
  <2>3. LoadsAgree'
    <3>1. ASSUME NEW y \in Loaders \ {x}
          PROVE  /\ load'[y].at \in {"read", "whole"} => Journal!Loadable(load'[y].file)
                 /\ load'[y].at = "read" => file' \in {load'[y].file, Journal!Whole(load'[y].file)}
                 /\ load'[y].at = "whole" => file' = Journal!Whole(load'[y].file)
      <4>1. load'[y] = load[y] /\ load[y].file \in Journal!Journals
        BY <1>3, LoadFiles
      <4>2. /\ load[y].at \in {"read", "whole"} => Journal!Loadable(load[y].file)
            /\ load[y].at = "read" => file \in {load[y].file, Journal!Whole(load[y].file)}
            /\ load[y].at = "whole" => file = Journal!Whole(load[y].file)
        BY <1>5 DEF JournalSafe, LoadsAgree
      <4>3. load[y].at \in {"read", "whole"} => file' = Journal!Whole(load[y].file)
        BY <2>2, <4>1, <4>2, WholeTwice
      <4> QED BY <4>1, <4>2, <4>3
    <3> QED BY <1>3, <2>1, <3>1 DEF LoadsAgree
  <2>4. AckedIsHere'
    BY <1>1, <1>5, <2>2 DEF JournalSafe, AckedIsHere
  <2> QED BY <1>1, <1>2, <1>4, <1>5, <2>3, <2>4 DEF JournalSafe, DeletedIsGone, ProjectionHolds
<1>6. CASE projection # None
  <2>1. projection \in Journal!Journals /\ Sound(projection) /\ IsLeftover(file, projection)
    BY <1>6, FileIsLeftover DEF JournalSafe
  <2>2. file' = file \/ (~file.closed /\ file' = Journal!Whole(file))
    BY RepairWrites
  <2>3. IsLeftover(file', projection)
    BY <2>1, <2>2, LeftoverLoads
  <2>4. Journal!Loadable(file')
    BY <2>1, <2>3, LeftoverLoads
  <2>5. op = "appended" \/ ~failed => file.closed
    BY <1>6, <2>1 DEF JournalSafe, ProjectionHolds, WithLine, Sound
  <2>6. Journal!Commit' = Journal!Commit
    BY <1>1 DEF Journal!Commit
  <2>7. ProjectionHolds'
    BY <1>1, <1>6, <2>2, <2>3, <2>5, <2>6 DEF JournalSafe, ProjectionHolds
  <2>8. AckedIsHere'
    BY <1>1, <1>6, <2>4 DEF JournalSafe, AckedIsHere
  <2> QED BY <1>1, <1>2, <1>4, <1>6, <2>7, <2>8 DEF JournalSafe, DeletedIsGone, LoadsAgree
<1> QED BY <1>5, <1>6

LEMMA LoadedIsSafe ==
  ASSUME JournalTypeOK, JournalTypeOK', JournalSafe, ~journalExcused', NEW x \in Loaders, Journal!Loaded(x)
  PROVE  JournalSafe'
<1> DEFINE f == Journal!Whole(load[x].file)
<1>1. /\ UNCHANGED <<file, acked, deleted, failed, next>> /\ projection' = f
      /\ load[x].at = "whole" /\ ~(projection # None /\ projection # f)
      /\ load' = [load EXCEPT ![x] = IF @.why = "delete" THEN [@ EXCEPT !.at = "checked"] ELSE Journal!NoLoad]
      /\ op' = IF x = Journal!Locked THEN "loaded" ELSE op
  BY DEF Journal!Loaded
<1>2. ~deleted /\ load[x] # Journal!NoLoad
  BY <1>1, NoLoadTypes DEF JournalSafe, DeletedIsGone
<1>3. f \in Journal!Journals /\ f # None
  BY LoadFiles, WholeTypes, NoneIsNoJournal
<1>4. x = Journal!Locked => op = "loading" /\ load'[x] = Journal!NoLoad
  <2>1. x = Journal!Locked => op = "loading" /\ load[x].why = "save"
    BY <1>2 DEF JournalSafe, LockIsHeld
  <2> QED BY <1>1, <2>1 DEF JournalTypeOK
<1>5. x # Journal!Locked => load'[Journal!Locked] = load[Journal!Locked]
  BY <1>1 DEF JournalTypeOK, Loaders
<1> HIDE DEF f
<1>6. LockIsHeld'
  BY <1>1, <1>2, <1>3, <1>4, <1>5 DEF JournalSafe, LockIsHeld
<1>7. LoadsAgree' /\ DeletedIsGone'
  BY <1>1, <1>2, <1>3 DEF LoadsAgree, DeletedIsGone
<1>8. CASE projection = None
  <2>1. file = f /\ Journal!Loadable(load[x].file)
    BY <1>1, <1>8 DEF f, JournalSafe, LoadsAgree
  <2>2. Sound(f) /\ Journal!Loadable(f) /\ Journal!Whole(f) = f
    BY <2>1, LoadFiles, WholeIsSound, SoundIsWhole DEF f
  <2>3. ~failed /\ op # "appended" /\ op # "loaded"
    BY <1>2, <1>8 DEF JournalSafe, LockIsHeld
  <2>4. ProjectionHolds'
    BY <1>1, <1>2, <1>4, <2>1, <2>2, <2>3 DEF ProjectionHolds
  <2>5. AckedIsHere'
    BY <1>1, <1>3, <1>8, <2>1, <2>2 DEF JournalSafe, AckedIsHere
  <2> QED BY <1>6, <1>7, <2>4, <2>5 DEF JournalSafe
<1>9. CASE projection # None
  <2>1. projection' = projection
    BY <1>1, <1>9
  <2>2. op' = op \/ (op = "loading" /\ op' = "loaded")
    BY <1>1, <1>4
  <2>3. Journal!Commit' = Journal!Commit
    BY <1>1, <2>1 DEF Journal!Commit
  <2>4. ProjectionHolds'
    BY <1>1, <2>1, <2>2, <2>3 DEF JournalSafe, ProjectionHolds
  <2>5. AckedIsHere'
    BY <1>1, <1>9, <2>1 DEF JournalSafe, AckedIsHere
  <2> QED BY <1>6, <1>7, <2>4, <2>5 DEF JournalSafe
<1> QED BY <1>8, <1>9

LEMMA CreateIsSafe ==
  ASSUME JournalTypeOK, JournalTypeOK', JournalSafe, ~journalExcused', Journal!Create
  PROVE  JournalSafe'
<1>1. /\ UNCHANGED <<load, acked, deleted, failed, next>>
      /\ op = "idle" /\ file = Journal!Absent /\ ~deleted /\ projection = None
      /\ file' = [lines |-> <<Journal!Header>>, closed |-> TRUE] /\ projection' = file' /\ op' = "loaded"
  BY DEF Journal!Create
<1>2. projection' # None
  BY <1>1, NoneIsNoJournal DEF JournalTypeOK
<1>3. Sound(projection')
  BY <1>1, LineTypes DEF Sound, Journal!Replays
<1>4. acked = {}
  BY <1>1, AbsentIsEmpty DEF JournalSafe, AckedIsHere
<1>5. ~failed /\ load[Journal!Locked] = Journal!NoLoad
  BY <1>1 DEF JournalSafe, LockIsHeld
<1>6. LockIsHeld' /\ ProjectionHolds'
  BY <1>1, <1>2, <1>3, <1>5 DEF LockIsHeld, ProjectionHolds
<1>7. LoadsAgree' /\ DeletedIsGone' /\ AckedIsHere'
  BY <1>1, <1>2, <1>4 DEF LoadsAgree, DeletedIsGone, AckedIsHere
<1> QED BY <1>6, <1>7 DEF JournalSafe

LEMMA TakeLockIsSafe ==
  ASSUME JournalTypeOK, JournalTypeOK', JournalSafe, ~journalExcused', Journal!TakeLock
  PROVE  JournalSafe'
<1>1. UNCHANGED <<file, meta, projection, acked, deleted, failed, next>> /\ op = "idle"
  BY DEF Journal!TakeLock
<1>2. load[Journal!Locked] = Journal!NoLoad
  BY <1>1 DEF JournalSafe, LockIsHeld
<1>3. AckedIsHere'
  BY <1>1 DEF JournalSafe, AckedIsHere
<1>4. CASE projection # None
  <2>1. op' = "loaded" /\ load' = load /\ ~deleted
    BY <1>4 DEF Journal!TakeLock, JournalSafe, ProjectionHolds
  <2>2. ProjectionHolds'
    BY <1>1, <2>1 DEF JournalSafe, ProjectionHolds
  <2>3. LockIsHeld' /\ LoadsAgree' /\ DeletedIsGone'
    BY <1>1, <1>2, <1>4, <2>1 DEF JournalSafe, LockIsHeld, LoadsAgree, DeletedIsGone
  <2> QED BY <1>3, <2>2, <2>3 DEF JournalSafe
<1>5. CASE projection = None
  <2>1. Journal!Loadable(file) /\ Journal!ReadFile(Journal!Locked, "save") /\ op' = "loading"
    BY <1>5 DEF Journal!TakeLock
  <2>2. load' = [load EXCEPT ![Journal!Locked] = [at |-> "read", file |-> file, why |-> "save"]]
    BY <2>1 DEF Journal!ReadFile
  <2>3. /\ load'[Journal!Locked].at = "read" /\ load'[Journal!Locked].file = file
        /\ load'[Journal!Locked].why = "save"
        /\ \A y \in Loaders \ {Journal!Locked} : load'[y] = load[y]
    BY <2>2 DEF JournalTypeOK, Loaders
  <2>4. ~deleted
    BY <2>1, AbsentIsEmpty DEF JournalSafe, DeletedIsGone
  <2>5. LoadsAgree'
    BY <1>1, <1>5, <2>1, <2>3 DEF JournalSafe, LoadsAgree
  <2>6. LockIsHeld'
    BY <1>1, <1>5, <2>1, <2>3 DEF JournalSafe, LockIsHeld
  <2>7. ProjectionHolds' /\ DeletedIsGone'
    BY <1>1, <1>5, <2>4 DEF ProjectionHolds, DeletedIsGone
  <2> QED BY <1>3, <2>5, <2>6, <2>7 DEF JournalSafe
<1> QED BY <1>4, <1>5

LEMMA ReleaseLockIsSafe ==
  ASSUME JournalTypeOK, JournalTypeOK', JournalSafe, ~journalExcused', Journal!ReleaseLock
  PROVE  JournalSafe'
<1>1. /\ UNCHANGED <<file, meta, projection, load, acked, deleted, failed, next>>
      /\ op = "loaded" /\ op' = "idle"
  BY DEF Journal!ReleaseLock
<1>2. ProjectionHolds' /\ AckedIsHere' /\ LoadsAgree'
  BY <1>1 DEF JournalSafe, ProjectionHolds, AckedIsHere, LoadsAgree
<1>3. LockIsHeld' /\ DeletedIsGone'
  BY <1>1 DEF JournalSafe, LockIsHeld, DeletedIsGone
<1> QED BY <1>2, <1>3 DEF JournalSafe

LEMMA AppendLandsIsSafe ==
  ASSUME JournalTypeOK, JournalTypeOK', JournalSafe, ~journalExcused', Journal!AppendLands
  PROVE  JournalSafe'
<1>1. /\ UNCHANGED <<meta, projection, load, acked, deleted, failed, next>>
      /\ op = "loaded" /\ op' = "appended" /\ projection # None /\ ~failed
      /\ file' = Journal!Appended(file, Journal!Commit, TRUE)
  BY DEF Journal!AppendLands
<1>2. file = projection /\ Sound(projection) /\ projection \in Journal!Journals /\ ~deleted
  BY <1>1 DEF JournalSafe, ProjectionHolds, JournalTypeOK
<1>3. file' = WithLine(projection, Journal!Commit, TRUE) /\ Journal!Commit' = Journal!Commit
  BY <1>1, <1>2 DEF Journal!Appended, WithLine, Sound, Journal!Commit
<1>4. Journal!Loadable(file')
  BY <1>1, <1>2, <1>3, CommitTypes, CommitReplays
<1>5. ProjectionHolds' /\ AckedIsHere' /\ LoadsAgree'
  BY <1>1, <1>2, <1>3, <1>4 DEF JournalSafe, ProjectionHolds, AckedIsHere, LoadsAgree
<1>6. LockIsHeld' /\ DeletedIsGone'
  BY <1>1, <1>2 DEF JournalSafe, LockIsHeld, DeletedIsGone
<1> QED BY <1>5, <1>6 DEF JournalSafe

LEMMA SavedIsSafe ==
  ASSUME JournalTypeOK, JournalTypeOK', JournalSafe, ~journalExcused', Journal!Saved
  PROVE  JournalSafe'
<1>1. /\ UNCHANGED <<file, load, deleted, failed>>
      /\ op = "appended" /\ op' = "idle" /\ projection # None /\ acked' = acked \union {next}
      /\ projection' = Journal!Appended(projection, Journal!Commit, TRUE)
  BY DEF Journal!Saved
<1>2. /\ Sound(projection) /\ projection \in Journal!Journals /\ ~deleted /\ ~failed
      /\ file = WithLine(projection, Journal!Commit, TRUE)
  BY <1>1 DEF JournalSafe, ProjectionHolds, JournalTypeOK
<1>3. projection' = WithLine(projection, Journal!Commit, TRUE)
  BY <1>1, <1>2 DEF Journal!Appended, WithLine, Sound
<1>4. /\ Journal!Loadable(file) /\ Sound(projection') /\ projection' = file
      /\ CommitIds(projection') = CommitIds(projection) \union {next}
  BY <1>1, <1>2, <1>3, CommitTypes, CommitReplays
<1>5. projection' # None
  BY <1>4, NoneIsNoJournal DEF JournalTypeOK
<1>6. acked \subseteq CommitIds(projection)
  BY <1>1 DEF JournalSafe, AckedIsHere
<1>7. ProjectionHolds' /\ AckedIsHere' /\ LoadsAgree'
  BY <1>1, <1>2, <1>4, <1>5, <1>6 DEF ProjectionHolds, AckedIsHere, LoadsAgree
<1>8. LockIsHeld' /\ DeletedIsGone'
  BY <1>1, <1>2, <1>5 DEF JournalSafe, LockIsHeld, DeletedIsGone
<1> QED BY <1>7, <1>8 DEF JournalSafe

LEMMA AppendFailsIsSafe ==
  ASSUME JournalTypeOK, JournalTypeOK', JournalSafe, ~journalExcused', Journal!AppendFails
  PROVE  JournalSafe'
<1>1. /\ UNCHANGED <<meta, projection, load, acked, deleted>>
      /\ op = "loaded" /\ op' = "idle" /\ projection # None
      /\ file' \in Journal!Residues(file) /\ failed' = (failed \/ file' # file)
      /\ ~(failed /\ file' # file)
  BY DEF Journal!AppendFails
<1>2. /\ Sound(projection) /\ projection \in Journal!Journals /\ ~deleted
      /\ ~failed => file = projection
      /\ failed => IsLeftover(file, projection)
  BY <1>1 DEF JournalSafe, ProjectionHolds, JournalTypeOK
<1>3. IsLeftover(file', projection)
  BY <1>1, <1>2, ResidueIsLeftover
<1>4. Journal!Loadable(file')
  BY <1>2, <1>3, LeftoverLoads
<1>5. ProjectionHolds' /\ AckedIsHere' /\ LoadsAgree'
  BY <1>1, <1>2, <1>3, <1>4 DEF JournalSafe, ProjectionHolds, AckedIsHere, LoadsAgree
<1>6. LockIsHeld' /\ DeletedIsGone'
  BY <1>1, <1>2 DEF JournalSafe, LockIsHeld, DeletedIsGone
<1> QED BY <1>5, <1>6 DEF JournalSafe

\* A load made without the lock, or none.
LEMMA FreeLoadIsSafe ==
  ASSUME JournalTypeOK, JournalTypeOK', JournalSafe, ~deleted,
         UNCHANGED <<file, projection, op, acked, deleted, failed, next>>,
         \A y \in Loaders \ {Journal!Free} : load'[y] = load[y],
         projection = None => \/ load'[Journal!Free] = load[Journal!Free]
                              \/ load'[Journal!Free] = Journal!NoLoad
                              \/ /\ Journal!Loadable(file) /\ load'[Journal!Free].at = "read"
                                 /\ load'[Journal!Free].file = file
  PROVE  JournalSafe'
<1>1. Loaders \ {Journal!Free} = {Journal!Locked}
  BY DEF Loaders, Journal!Free, Journal!Locked
<1>2. load'[Journal!Locked] = load[Journal!Locked]
  BY <1>1
<1>3. LockIsHeld'
  BY <1>2 DEF JournalSafe, LockIsHeld
<1>4. LoadsAgree'
  <2>1. ASSUME projection = None, NEW y \in Loaders
        PROVE  /\ load'[y].at \in {"read", "whole"} => Journal!Loadable(load'[y].file)
               /\ load'[y].at = "read" => file \in {load'[y].file, Journal!Whole(load'[y].file)}
               /\ load'[y].at = "whole" => file = Journal!Whole(load'[y].file)
    <3>1. /\ load[y].at \in {"read", "whole"} => Journal!Loadable(load[y].file)
          /\ load[y].at = "read" => file \in {load[y].file, Journal!Whole(load[y].file)}
          /\ load[y].at = "whole" => file = Journal!Whole(load[y].file)
      BY <2>1 DEF JournalSafe, LoadsAgree
    <3>2. \/ load'[y] = load[y] \/ load'[y] = Journal!NoLoad
          \/ Journal!Loadable(file) /\ load'[y].at = "read" /\ load'[y].file = file
      BY <2>1
    <3> QED BY <3>1, <3>2, NoLoadTypes
  <2> QED BY <2>1 DEF LoadsAgree
<1>5. Journal!Commit' = Journal!Commit
  BY DEF Journal!Commit
<1>6. ProjectionHolds' /\ AckedIsHere' /\ DeletedIsGone'
  BY <1>5 DEF JournalSafe, ProjectionHolds, AckedIsHere, DeletedIsGone
<1> QED BY <1>3, <1>4, <1>6 DEF JournalSafe

LEMMA FreeIsLoader == Journal!Free \in Loaders /\ Journal!Locked \in Loaders
BY DEF Loaders

LEMMA LoadMetaIsSafe ==
  ASSUME JournalTypeOK, JournalTypeOK', JournalSafe, ~journalExcused', Journal!LoadMeta
  PROVE  JournalSafe'
<1>1. /\ UNCHANGED <<file, projection, op, acked, deleted, failed, next>> /\ file # Journal!Absent
      /\ load' = load \/ (projection = None /\ Journal!ReadFile(Journal!Free, "list"))
  BY DEF Journal!LoadMeta
<1>2. ~deleted
  BY <1>1 DEF JournalSafe, DeletedIsGone
<1>3. CASE load' = load
  BY <1>1, <1>2, <1>3, FreeLoadIsSafe
<1>4. CASE Journal!ReadFile(Journal!Free, "list")
  BY <1>1, <1>2, <1>4, FreeIsLoader, ReadFileTypes, FreeLoadIsSafe
<1> QED BY <1>1, <1>3, <1>4

LEMMA DeleteCheckIsSafe ==
  ASSUME JournalTypeOK, JournalTypeOK', JournalSafe, ~journalExcused', Journal!DeleteCheck
  PROVE  JournalSafe'
<1>1. /\ UNCHANGED <<file, projection, op, acked, deleted, failed, next>> /\ file # Journal!Absent
      /\ \/ projection # None /\ load' = [load EXCEPT ![Journal!Free] = [Journal!NoLoad EXCEPT !.at = "checked"]]
         \/ projection = None /\ Journal!ReadFile(Journal!Free, "delete")
  BY DEF Journal!DeleteCheck
<1>2. ~deleted
  BY <1>1 DEF JournalSafe, DeletedIsGone
<1>3. CASE projection # None
  <2>1. \A y \in Loaders \ {Journal!Free} : load'[y] = load[y]
    BY <1>1, <1>3 DEF JournalTypeOK
  <2> QED BY <1>1, <1>2, <1>3, <2>1, FreeLoadIsSafe
<1>4. CASE Journal!ReadFile(Journal!Free, "delete")
  BY <1>1, <1>2, <1>4, FreeIsLoader, ReadFileTypes, FreeLoadIsSafe
<1> QED BY <1>1, <1>3, <1>4

LEMMA DeleteIsSafe ==
  ASSUME JournalTypeOK, JournalTypeOK', JournalSafe, ~journalExcused', Journal!Delete
  PROVE  JournalSafe'
<1>1. /\ load' = [load EXCEPT ![Journal!Free] = Journal!NoLoad] /\ file' = Journal!Absent
      /\ projection' = None /\ acked' = {} /\ deleted' = TRUE /\ op = "idle" /\ UNCHANGED <<op, failed>>
  BY DEF Journal!Delete
<1>2. load[Journal!Locked] = Journal!NoLoad
  BY <1>1 DEF JournalSafe, LockIsHeld
<1>3. \A y \in Loaders : load'[y] = Journal!NoLoad
  BY <1>1, <1>2 DEF JournalTypeOK, Loaders
<1>4. load'[Journal!Locked] = Journal!NoLoad
  BY <1>3, FreeIsLoader
<1>5. DeletedIsGone' /\ LoadsAgree'
  BY <1>1, <1>3, NoLoadTypes DEF DeletedIsGone, LoadsAgree
<1>6. ProjectionHolds' /\ AckedIsHere'
  BY <1>1 DEF ProjectionHolds, AckedIsHere
<1>7. LockIsHeld'
  BY <1>1, <1>4 DEF LockIsHeld
<1> QED BY <1>5, <1>6, <1>7 DEF JournalSafe

---------------------------------------------------------------------------

LEMMA RestartIsSafe ==
  ASSUME JournalTypeOK, JournalTypeOK', JournalSafe, ~journalExcused', Journal!Restart
  PROVE  JournalSafe'
<1>1. /\ file' \in {file}
           \union (IF op = "loaded" /\ projection # None /\ next <= MaxCommits THEN Journal!Residues(file) ELSE {})
           \union (IF file = Journal!Absent /\ ~deleted
                   THEN [lines : {<<Journal!Junk>>, <<Journal!Header>>}, closed : {FALSE}] ELSE {})
      /\ ~(failed /\ file' # file) /\ projection' = None /\ failed' = FALSE /\ op' = "idle"
      /\ load' = [x \in {Journal!Locked, Journal!Free} |-> Journal!NoLoad] /\ UNCHANGED <<acked, deleted>>
  BY DEF Journal!Restart
<1>2. \A x \in Loaders : load'[x] = Journal!NoLoad
  BY <1>1 DEF Loaders
<1>3. LockIsHeld' /\ LoadsAgree' /\ ProjectionHolds'
  BY <1>1, <1>2, FreeIsLoader, NoLoadTypes DEF LockIsHeld, LoadsAgree, ProjectionHolds
<1>4. DeletedIsGone'
  BY <1>1, <1>2 DEF JournalSafe, DeletedIsGone
<1>5. ASSUME acked # {}
      PROVE  Journal!Loadable(file') /\ acked \subseteq CommitIds(Journal!Whole(file'))
  <2>1. Journal!Loadable(file) /\ file # Journal!Absent
        /\ acked \subseteq CommitIds(IF projection # None THEN projection ELSE Journal!Whole(file))
    BY <1>5, AbsentIsEmpty DEF JournalSafe, AckedIsHere
  <2>2. CASE projection = None
    BY <1>1, <2>1, <2>2
  <2>3. CASE projection # None
    <3>1. projection \in Journal!Journals /\ Sound(projection) /\ IsLeftover(file, projection)
      BY <2>3, FileIsLeftover DEF JournalSafe
    <3>2. IsLeftover(file', projection)
      <4>1. CASE file' = file
        BY <3>1, <4>1
      <4>2. CASE file' # file
        <5>1. op = "loaded" /\ file' \in Journal!Residues(file) /\ ~failed
          BY <1>1, <2>1, <4>2
        <5>2. file = projection
          BY <2>3, <5>1 DEF JournalSafe, ProjectionHolds
        <5> QED BY <2>3, <3>1, <5>1, <5>2, ResidueIsLeftover
      <4> QED BY <4>1, <4>2
    <3>3. Journal!Loadable(file') /\ CommitIds(projection) \subseteq CommitIds(Journal!Whole(file'))
      BY <3>1, <3>2, LeftoverLoads
    <3> QED BY <2>1, <2>3, <3>3
  <2> QED BY <2>2, <2>3
<1>6. AckedIsHere'
  BY <1>1, <1>5 DEF AckedIsHere
<1> QED BY <1>3, <1>4, <1>6 DEF JournalSafe

LEMMA ExcusesStay ==
  ASSUME JournalTypeOK, Journal!Next, ~journalExcused'
  PROVE  ~journalExcused
<1>1. ASSUME NEW x \in Loaders, Journal!Repair(x) \/ Journal!Loaded(x) PROVE ~journalExcused
  BY <1>1 DEF Journal!Repair, Journal!Loaded
<1>2. CASE Journal!Create \/ Journal!TakeLock \/ Journal!ReleaseLock \/ Journal!AppendLands
  BY <1>2 DEF Journal!Create, Journal!TakeLock, Journal!ReleaseLock, Journal!AppendLands
<1>3. CASE Journal!Saved \/ Journal!AppendFails \/ Journal!LoadMeta
  BY <1>3 DEF Journal!Saved, Journal!AppendFails, Journal!LoadMeta
<1>4. CASE Journal!DeleteCheck \/ Journal!Delete \/ Journal!Restart
  BY <1>4 DEF Journal!DeleteCheck, Journal!Delete, Journal!Restart
<1> QED BY <1>1, <1>2, <1>3, <1>4 DEF Journal!Next, Loaders

LEMMA JournalInitially == Journal!Init => JournalIInv
<1> SUFFICES ASSUME Journal!Init PROVE JournalIInv
  OBVIOUS
<1>1. /\ file = Journal!Absent /\ meta = None /\ projection = None /\ op = "idle"
      /\ load = [x \in {Journal!Locked, Journal!Free} |-> Journal!NoLoad]
      /\ acked = {} /\ deleted = FALSE /\ failed = FALSE /\ journalExcused = FALSE /\ next = 1
  BY DEF Journal!Init
<1>2. \A x \in Loaders : load[x] = Journal!NoLoad
  BY <1>1 DEF Loaders
<1>3. JournalTypeOK /\ MetaFits
  BY <1>1, NoLoadTypes DEF JournalTypeOK, MetaFits, Loaders
<1>4. DeletedIsGone /\ LoadsAgree /\ ProjectionHolds /\ AckedIsHere
  BY <1>1, <1>2, NoLoadTypes DEF DeletedIsGone, LoadsAgree, ProjectionHolds, AckedIsHere
<1>5. LockIsHeld
  BY <1>1, <1>2, FreeIsLoader DEF LockIsHeld
<1> QED BY <1>3, <1>4, <1>5 DEF JournalIInv, JournalSafe

LEMMA JournalSteps == JournalIInv /\ [Journal!Next]_(Journal!vars) => JournalIInv'
<1> SUFFICES ASSUME JournalIInv, [Journal!Next]_(Journal!vars) PROVE JournalIInv'
  OBVIOUS
<1>1. JournalTypeOK /\ JournalTypeOK' /\ MetaFits'
  BY JournalTypesStay DEF JournalIInv
<1>2. ASSUME ~journalExcused' PROVE JournalSafe'
  <2>1. CASE UNCHANGED Journal!vars
    <3>1. /\ UNCHANGED <<file, projection, load, op, acked, deleted, failed, next>> /\ ~journalExcused
      BY <1>2, <2>1 DEF Journal!vars
    <3>2. JournalSafe
      BY <3>1 DEF JournalIInv
    <3>3. ProjectionHolds' /\ AckedIsHere' /\ LoadsAgree'
      BY <3>1, <3>2 DEF JournalSafe, ProjectionHolds, AckedIsHere, LoadsAgree, Journal!Commit
    <3>4. LockIsHeld' /\ DeletedIsGone'
      BY <3>1, <3>2 DEF JournalSafe, LockIsHeld, DeletedIsGone
    <3> QED BY <3>3, <3>4 DEF JournalSafe
  <2>2. CASE Journal!Next
    <3>1. JournalSafe
      <4>1. ~journalExcused
        BY <1>1, <1>2, <2>2, ExcusesStay
      <4> QED BY <4>1 DEF JournalIInv
    <3>2. ASSUME NEW x \in Loaders, Journal!Repair(x) \/ Journal!Loaded(x) PROVE JournalSafe'
      BY <1>1, <1>2, <3>1, <3>2, RepairIsSafe, LoadedIsSafe
    <3>3. CASE Journal!Create \/ Journal!TakeLock \/ Journal!ReleaseLock \/ Journal!AppendLands
      BY <1>1, <1>2, <3>1, <3>3, CreateIsSafe, TakeLockIsSafe, ReleaseLockIsSafe, AppendLandsIsSafe
    <3>4. CASE Journal!Saved \/ Journal!AppendFails \/ Journal!LoadMeta
      BY <1>1, <1>2, <3>1, <3>4, SavedIsSafe, AppendFailsIsSafe, LoadMetaIsSafe
    <3>5. CASE Journal!DeleteCheck \/ Journal!Delete \/ Journal!Restart
      BY <1>1, <1>2, <3>1, <3>5, DeleteCheckIsSafe, DeleteIsSafe, RestartIsSafe
    <3> QED BY <2>2, <3>2, <3>3, <3>4, <3>5 DEF Journal!Next, Loaders
  <2> QED BY <2>1, <2>2
<1> QED BY <1>1, <1>2 DEF JournalIInv

\* What a caller was told is committed stays in the journal and can be loaded, a trusted
\* sidecar has its revision, and a deleted Session stays away, but for the excused cases.
LEMMA AcknowledgedIsKept == Journal!Spec => []Journal!AcknowledgedStays
<1>1. JournalIInv => Journal!AcknowledgedStays
  <2> SUFFICES ASSUME JournalIInv, ~journalExcused PROVE Journal!AcknowledgedStays
    BY DEF Journal!AcknowledgedStays
  <2>1. JournalTypeOK /\ MetaFits /\ JournalSafe
    BY DEF JournalIInv
  <2>2. acked # {} => Journal!Loadable(file) /\ acked \subseteq CommitIds(file)
    <3>1. CASE projection = None
      BY <2>1, <3>1, WholeIsSound DEF JournalSafe, AckedIsHere, JournalTypeOK
    <3>2. CASE projection # None
      <4>1. CommitIds(projection) \subseteq CommitIds(file)
        BY <2>1, <3>2, FileIsLeftover, LeftoverLoads DEF JournalSafe
      <4> QED BY <2>1, <3>2, <4>1 DEF JournalSafe, AckedIsHere
    <3> QED BY <3>1, <3>2
  <2>3. meta # None /\ meta.size = Journal!Size(file) => meta.rev = Journal!LastRev(file)
    <3>1. Len(file.lines) \in Nat
      BY <2>1 DEF JournalTypeOK, Journal!Journals
    <3>2. Journal!Size(file) \in {2 * Len(file.lines), 2 * Len(file.lines) - 1}
      <4>1. CASE file.closed
        <5>1. Journal!Size(file) = 2 * Len(file.lines) - 0
          BY <4>1 DEF Journal!Size
        <5> QED BY <3>1, <5>1
      <4>2. CASE ~file.closed
        <5>1. Journal!Size(file) = 2 * Len(file.lines) - 1
          BY <4>2 DEF Journal!Size
        <5> QED BY <5>1
      <4> QED BY <4>1, <4>2
    <3>3. Journal!LastRev(file) = Len(file.lines) - 1
      BY DEF Journal!LastRev
    <3> DEFINE n == Len(file.lines)
               m == meta.rev
               z == meta.size
               b == Journal!Size(file)
    <3>4. meta # None => m \in Int /\ z = 2 * (m + 1)
      BY <2>1 DEF MetaFits
    <3> HIDE DEF n, m, z, b
    <3>5. n \in Nat /\ b \in {2 * n, 2 * n - 1}
      BY <3>1, <3>2 DEF n, b
    <3>6. meta # None /\ z = b => m = n - 1
      BY <3>4, <3>5
    <3> QED BY <3>3, <3>6 DEF n, m, z, b
  <2>4. deleted => file = Journal!Absent
    BY <2>1 DEF JournalSafe, DeletedIsGone
  <2> QED BY <2>2, <2>3, <2>4 DEF Journal!AcknowledgedStays, CommitIds
<1>2. Journal!Spec => []JournalIInv
  BY JournalInitially, JournalSteps, PTL DEF Journal!Spec
<1> QED BY <1>1, <1>2, PTL

(* Every set of natural numbers has a least one. *)

LEMMA NaturalsHaveMin ==
  ASSUME NEW S \in SUBSET Nat, S # {}
  PROVE  \E x \in S : \A y \in S : x <= y
<1>1. PICK x \in S : \A y \in S : <<y, x>> \notin OpToRel(<, Nat)
  BY NatLessThanWellFounded, WFMin
<1>2. \A y \in S : ~(y < x)
  BY <1>1 DEF OpToRel
<1> QED BY <1>2

-------------------------------------------------------------------------------
(* The definitions of sub agents *)

Known == AgentNames \union {BuiltinAgent}
Trees == [AgentNames -> AgentBodies \union {None}]
Reloads ==
  [at : {"idle", "asked", "scanned", "installed", "read"}, files : Trees \union {None},
   state : SUBSET Known]
Mutations ==
  [op : {None, "create", "update", "enable", "disable", "remove"}, name : Known \union {None},
   body : AgentBodies \union {None},
   at : {"idle", "file", "changed", "writing", "reload", "done"}, disabled : SUBSET Known]

\* what a mutation makes of the files and of the disabled names
OfFile(m) == m.op \in {"create", "update", "remove"}
FilesAfter(m, tree) == IF OfFile(m) THEN [tree EXCEPT ![m.name] = m.body] ELSE tree
StateAfter(m, off) ==
  IF m.op = "disable" THEN off \union {m.name}
  ELSE IF m.op \in {"enable", "remove"} THEN off \ {m.name} ELSE off

FileIsChanged(m) == OfFile(m) /\ m.at \in {"changed", "writing", "reload", "done"}
StateIsWritten(m) == m.at \in {"reload", "done"}
Unwritten(m) == m.at \in {"changed", "writing"}
HasFile(n) == n \in AgentNames /\ agentFiles[n] # None

DefinitionsTypeOK ==
  /\ agentFiles \in Trees /\ agentState \in SUBSET Known /\ disabled \in SUBSET Known
  /\ answered \in [files : Trees, state : SUBSET Known]
  /\ reloading \in [{"mutation", "list"} -> Reloads]
  /\ change \in Mutations

\* the steps each mutation has
MutationSteps ==
  /\ change.at = "idle" => change.name = None
  /\ change.at # "idle" => change.op \in {"create", "update", "enable", "disable", "remove"}
  /\ change.at # "idle" /\ change.op \in {"create", "update"} =>
       change.at \in {"file", "reload", "done"} /\ change.name \in AgentNames /\ change.body \in AgentBodies
  /\ change.at # "idle" /\ change.op = "remove" => change.name \in AgentNames /\ change.body = None
  /\ change.at # "idle" /\ change.op \in {"enable", "disable"} =>
       change.at \in {"changed", "writing", "done"} /\ change.name \in Known
  /\ reloading["mutation"].at # "idle" <=> change.at = "reload"

FilesAreAnswered ==
  agentFiles = IF FileIsChanged(change) THEN FilesAfter(change, answered.files) ELSE answered.files
StateIsAnswered ==
  agentState = IF StateIsWritten(change) THEN StateAfter(change, answered.state) ELSE answered.state
DisabledIsState ==
  /\ disabled = IF Unwritten(change) THEN StateAfter(change, agentState) ELSE agentState
  /\ change.at = "writing" => change.disabled = disabled

\* until a mutation has loaded what it changed
DefinitionsAreLoaded ==
  \/ definitions = Definitions!Accepted(agentFiles)
  \/ FileIsChanged(change) /\ change.at # "done" /\ reloading["mutation"].at \notin {"installed", "read"}

StateHasFiles ==
  /\ \A k \in agentState :
       k = BuiltinAgent \/ HasFile(k) \/ (change.op = "remove" /\ Unwritten(change) /\ k = change.name)
  /\ change.at # "idle" /\ change.op = "create" => change.name \notin agentState
  /\ change.at # "idle" /\ change.op = "disable" => change.name = BuiltinAgent \/ HasFile(change.name)

Accordant ==
  /\ DefinitionsTypeOK /\ MutationSteps /\ FilesAreAnswered /\ StateIsAnswered /\ DisabledIsState
  /\ DefinitionsAreLoaded /\ StateHasFiles
DefinitionsIInv == agentsExcused \/ Accordant

LEMMA AgentConstants ==
  /\ AgentNames \subseteq Nat /\ IsFiniteSet(AgentNames) /\ MaxCustom \in Nat
  /\ None \notin AgentBodies /\ None \notin AgentNames /\ None # BuiltinAgent /\ BuiltinAgent \notin AgentNames
<1>1. Definitions!IsFiniteSet(AgentNames) <=> IsFiniteSet(AgentNames)
  BY DEF Definitions!IsFiniteSet, IsFiniteSet
<1> QED BY <1>1, SettingsAssumption DEF Definitions!DefinitionsAssumption

LEMMA SameCardinality == ASSUME NEW S PROVE Definitions!Cardinality(S) = Cardinality(S)
BY DEF Definitions!Cardinality, Cardinality

\* While fewer custom definitions are accepted than the limit, all that have a file are.
LEMMA AllAreAccepted ==
  ASSUME NEW tree \in Trees,
         Cardinality({k \in AgentNames : Definitions!Accepted(tree)[k] # None}) < MaxCustom
  PROVE  Definitions!Accepted(tree) = tree
<1> DEFINE kept == Definitions!Accepted(tree)
           Taken == {k \in AgentNames : kept[k] # None}
           Out == {n \in AgentNames : tree[n] # None /\ kept[n] = None}
           Before(n) == {k \in AgentNames : k < n /\ tree[k] # None}
<1>1. kept = [n \in AgentNames |-> IF Cardinality(Before(n)) < MaxCustom THEN tree[n] ELSE None]
  <2>1. kept = [n \in AgentNames |-> IF Definitions!Cardinality(Before(n)) < MaxCustom THEN tree[n] ELSE None]
    BY DEF Definitions!Accepted
  <2> HIDE DEF Before, kept
  <2>2. \A n \in AgentNames : Definitions!Cardinality(Before(n)) = Cardinality(Before(n))
    BY SameCardinality
  <2> QED BY <2>1, <2>2
<1>2. Out = {}
  <2> SUFFICES ASSUME Out # {} PROVE FALSE
    OBVIOUS
  <2>1. Out \in SUBSET Nat /\ IsFiniteSet(Out) /\ IsFiniteSet(Taken)
    BY AgentConstants, FS_Subset
  <2>2. PICK n \in Out : \A m \in Out : n <= m
    BY <2>1, NaturalsHaveMin
  <2>3. ASSUME NEW k \in Before(n) PROVE k \in Taken
    <3>1. k \in AgentNames /\ k \in Int /\ n \in Int /\ k < n /\ tree[k] # None
      BY <2>1, <2>2, AgentConstants
    <3>2. k \notin Out
      BY <2>2, <3>1
    <3> QED BY <3>1, <3>2
  <2>4. Cardinality(Before(n)) <= Cardinality(Taken) /\ Cardinality(Before(n)) \in Nat /\ Cardinality(Taken) \in Nat
    <3>1. Before(n) \subseteq Taken
      BY <2>3
    <3> QED BY <2>1, <3>1, FS_Subset, FS_CardinalityType
  <2>5. Cardinality(Taken) < MaxCustom
    OBVIOUS
  <2>6. Cardinality(Before(n)) < MaxCustom
    BY <2>4, <2>5, AgentConstants
  <2>7. kept[n] = tree[n]
    BY <1>1, <2>2, <2>6
  <2> QED BY <2>2, <2>7
<1>3. ASSUME NEW n \in AgentNames PROVE kept[n] = tree[n]
  <2>1. kept[n] = None \/ kept[n] = tree[n]
    BY <1>1
  <2> QED BY <1>2, <2>1
<1>4. kept = [n \in AgentNames |-> kept[n]]
  BY <1>1
<1>5. tree = [n \in AgentNames |-> tree[n]]
  BY DEF Trees
<1> HIDE DEF kept
<1>6. kept = tree
  BY <1>3, <1>4, <1>5
<1> QED BY <1>6 DEF kept

LEMMA AcceptedHasFile ==
  ASSUME NEW tree, NEW n \in AgentNames, Definitions!Accepted(tree)[n] # None
  PROVE  tree[n] # None
BY DEF Definitions!Accepted

\* A mutation goes to its next step.
LEMMA MutationMoves ==
  ASSUME DefinitionsTypeOK, NEW step \in {"idle", "file", "changed", "writing", "reload", "done"},
         change' = [change EXCEPT !.at = step]
  PROVE  /\ change' \in Mutations /\ change'.at = step /\ change'.op = change.op
         /\ change'.name = change.name /\ change'.body = change.body /\ change'.disabled = change.disabled
<1>1. change \in Mutations
  BY DEF DefinitionsTypeOK
<1> QED BY <1>1 DEF Mutations

\* and asks for a reload.
LEMMA ReloadIsAsked ==
  ASSUME DefinitionsTypeOK, Definitions!Reload
  PROVE  reloading' \in [{"mutation", "list"} -> Reloads] /\ reloading'["mutation"].at = "asked"
<1>1. reloading \in [{"mutation", "list"} -> Reloads] /\ reloading["mutation"] \in Reloads
  BY DEF DefinitionsTypeOK
<1>2. reloading' = [reloading EXCEPT !["mutation"].at = "asked"]
  BY DEF Definitions!Reload, Definitions!Mutating
<1>3. reloading'["mutation"] = [reloading["mutation"] EXCEPT !.at = "asked"]
  BY <1>1, <1>2
<1>4. [reloading["mutation"] EXCEPT !.at = "asked"] \in Reloads /\ reloading'["mutation"].at = "asked"
  BY <1>1, <1>3 DEF Reloads
<1> QED BY <1>1, <1>2, <1>4

---------------------------------------------------------------------------
(* reload *)

LEMMA ReloadMoves ==
  ASSUME Accordant, NEW x \in {"mutation", "list"}, NEW r \in Reloads,
         reloading' = [reloading EXCEPT ![x] = r],
         x = "mutation" => r.at # "idle" /\ reloading[x].at # "idle",
         DefinitionsAreLoaded',
         UNCHANGED <<agentFiles, agentState, disabled, change, answered>>
  PROVE  Accordant'
<1>1. reloading' \in [{"mutation", "list"} -> Reloads]
      /\ (reloading'["mutation"].at # "idle" <=> reloading["mutation"].at # "idle")
  BY DEF Accordant, DefinitionsTypeOK
<1>2. DefinitionsTypeOK' /\ MutationSteps'
  BY <1>1 DEF Accordant, DefinitionsTypeOK, MutationSteps
<1>3. FilesAreAnswered' /\ StateIsAnswered' /\ DisabledIsState'
  BY DEF Accordant, FilesAreAnswered, StateIsAnswered, DisabledIsState, FileIsChanged, StateIsWritten,
         Unwritten, FilesAfter, StateAfter, OfFile
<1>4. StateHasFiles'
  BY DEF Accordant, StateHasFiles, HasFile, Unwritten
<1> QED BY <1>2, <1>3, <1>4 DEF Accordant

LEMMA ScanKeeps ==
  ASSUME Accordant, NEW x \in {"mutation", "list"}, Definitions!Scan(x)
  PROVE  Accordant'
<1> DEFINE r == [at |-> "scanned", files |-> agentFiles, state |-> reloading[x].state]
<1>1. /\ reloading[x].at = "asked" /\ reloading' = [reloading EXCEPT ![x] = r]
      /\ UNCHANGED <<agentFiles, agentState, definitions, disabled, change, answered>>
  BY DEF Definitions!Scan, Accordant, DefinitionsTypeOK
<1>2. r \in Reloads /\ r.at = "scanned" /\ reloading \in [{"mutation", "list"} -> Reloads]
  BY DEF Accordant, DefinitionsTypeOK, Reloads
<1> HIDE DEF r
<1>3. reloading'["mutation"].at \in {"installed", "read"} => reloading["mutation"].at = reloading'["mutation"].at
  BY <1>1, <1>2
<1>4. DefinitionsAreLoaded'
  BY <1>1, <1>3 DEF Accordant, DefinitionsAreLoaded, FileIsChanged, OfFile
<1> QED BY <1>1, <1>2, <1>4, ReloadMoves

LEMMA InstallKeeps ==
  ASSUME Accordant, NEW x \in {"mutation", "list"}, Definitions!Install(x), ~agentsExcused'
  PROVE  Accordant'
<1> DEFINE r == [reloading[x] EXCEPT !.at = "installed"]
<1>1. /\ reloading[x].at = "scanned" /\ reloading' = [reloading EXCEPT ![x] = r]
      /\ definitions' = Definitions!Accepted(reloading[x].files) /\ reloading[x].files = agentFiles
      /\ UNCHANGED <<agentFiles, agentState, disabled, change, answered>>
  BY DEF Definitions!Install, Accordant, DefinitionsTypeOK
<1>2. reloading[x] \in Reloads
  BY DEF Accordant, DefinitionsTypeOK
<1>3. r \in Reloads /\ r.at = "installed"
  BY <1>2 DEF Reloads
<1> HIDE DEF r
<1>4. definitions' = Definitions!Accepted(agentFiles')
  BY <1>1
<1>5. DefinitionsAreLoaded'
  BY <1>4 DEF DefinitionsAreLoaded
<1> QED BY <1>1, <1>3, <1>5, ReloadMoves

LEMMA ReadStateKeeps ==
  ASSUME Accordant, NEW x \in {"mutation", "list"}, Definitions!ReadState(x)
  PROVE  Accordant'
<1> DEFINE r == [at |-> "read", files |-> reloading[x].files, state |-> agentState]
<1>1. /\ reloading[x].at = "installed" /\ reloading' = [reloading EXCEPT ![x] = r]
      /\ UNCHANGED <<agentFiles, agentState, definitions, disabled, change, answered>>
  BY DEF Definitions!ReadState, Accordant, DefinitionsTypeOK
<1>2. r \in Reloads /\ r.at = "read" /\ reloading \in [{"mutation", "list"} -> Reloads]
  BY DEF Accordant, DefinitionsTypeOK, Reloads
<1> HIDE DEF r
<1>3. reloading'["mutation"].at \in {"installed", "read"} => reloading["mutation"].at \in {"installed", "read"}
  BY <1>1, <1>2
<1>4. DefinitionsAreLoaded'
  BY <1>1, <1>3 DEF Accordant, DefinitionsAreLoaded, FileIsChanged, OfFile
<1> QED BY <1>1, <1>2, <1>4, ReloadMoves

LEMMA ListKeeps ==
  ASSUME Accordant, Definitions!List
  PROVE  Accordant'
<1> DEFINE r == [reloading["list"] EXCEPT !.at = "asked"]
<1>1. /\ reloading' = [reloading EXCEPT !["list"] = r]
      /\ UNCHANGED <<agentFiles, agentState, definitions, disabled, change, answered>>
  BY DEF Definitions!List, Definitions!Listing, Accordant, DefinitionsTypeOK
<1>2. reloading["list"] \in Reloads /\ reloading \in [{"mutation", "list"} -> Reloads]
  BY DEF Accordant, DefinitionsTypeOK
<1>3. r \in Reloads
  BY <1>2 DEF Reloads
<1> HIDE DEF r
<1>4. reloading'["mutation"] = reloading["mutation"]
  BY <1>1, <1>2
<1>5. DefinitionsAreLoaded'
  BY <1>1, <1>4 DEF Accordant, DefinitionsAreLoaded, FileIsChanged, OfFile
<1> QED BY <1>1, <1>3, <1>5, ReloadMoves

\* What a step leaves of a mutation and its files.
LEMMA SetDisabledKeeps ==
  ASSUME Accordant, NEW x \in {"mutation", "list"}, Definitions!SetDisabled(x), ~agentsExcused'
  PROVE  Accordant'
<1>1. /\ reloading[x].at = "read" /\ reloading' = [reloading EXCEPT ![x] = Definitions!NoReload]
      /\ disabled' = reloading[x].state /\ disabled' = agentState
      /\ Unwritten(change) => disabled' = disabled
      /\ change' = IF x = "mutation" THEN [change EXCEPT !.at = "done"] ELSE change
      /\ UNCHANGED <<agentFiles, agentState, definitions, answered>>
  BY DEF Definitions!SetDisabled, Definitions!Mutating, Unwritten
<1>2. DefinitionsTypeOK
  BY DEF Accordant
<1>3. /\ reloading' \in [{"mutation", "list"} -> Reloads] /\ reloading'[x].at = "idle"
      /\ x = "list" => reloading'["mutation"] = reloading["mutation"]
  <2>1. Definitions!NoReload \in Reloads /\ Definitions!NoReload.at = "idle"
    BY DEF Definitions!NoReload, Reloads
  <2> QED BY <1>1, <1>2, <2>1 DEF DefinitionsTypeOK
<1>4. CASE x = "list"
  <2>1. change' = change
    BY <1>1, <1>4
  <2>2. DefinitionsTypeOK' /\ MutationSteps'
    BY <1>1, <1>2, <1>3, <1>4, <2>1 DEF Accordant, DefinitionsTypeOK, MutationSteps
  <2>3. FilesAreAnswered' /\ StateIsAnswered'
    BY <1>1, <2>1 DEF Accordant, FilesAreAnswered, StateIsAnswered, FileIsChanged, StateIsWritten,
           FilesAfter, StateAfter, OfFile
  <2>4. DisabledIsState'
    <3>1. disabled' = disabled
      BY <1>1 DEF Accordant, DisabledIsState
    <3> QED BY <1>1, <2>1, <3>1 DEF Accordant, DisabledIsState, StateAfter, Unwritten
  <2>5. DefinitionsAreLoaded' /\ StateHasFiles'
    BY <1>1, <1>3, <1>4, <2>1 DEF Accordant, DefinitionsAreLoaded, StateHasFiles, HasFile, Unwritten,
           FileIsChanged, OfFile
  <2> QED BY <2>2, <2>3, <2>4, <2>5 DEF Accordant
<1>5. CASE x = "mutation"
  <2>1. change.at = "reload"
    BY <1>1, <1>5 DEF Accordant, MutationSteps
  <2>2. /\ change' \in Mutations /\ change'.at = "done" /\ change'.op = change.op
        /\ change'.name = change.name /\ change'.body = change.body
    BY <1>1, <1>2, <1>5, MutationMoves
  <2>3. DefinitionsTypeOK'
    BY <1>1, <1>2, <1>3, <2>2 DEF DefinitionsTypeOK
  <2>4. OfFile(change) /\ MutationSteps'
    <3>2. OfFile(change)
      BY <2>1 DEF Accordant, MutationSteps, OfFile
    <3> QED BY <1>3, <1>5, <2>1, <2>2, <3>2 DEF Accordant, MutationSteps, OfFile
  <2>5. FilesAreAnswered' /\ StateIsAnswered' /\ DisabledIsState'
    BY <1>1, <2>1, <2>2, <2>4 DEF Accordant, FilesAreAnswered, StateIsAnswered, DisabledIsState, FileIsChanged,
           StateIsWritten, FilesAfter, StateAfter, OfFile, Unwritten
  <2>6. DefinitionsAreLoaded'
    BY <1>1, <1>5, <2>1 DEF Accordant, DefinitionsAreLoaded
  <2>7. StateHasFiles'
    BY <1>1, <2>1, <2>2 DEF Accordant, StateHasFiles, HasFile, Unwritten
  <2> QED BY <2>3, <2>4, <2>5, <2>6, <2>7 DEF Accordant
<1> QED BY <1>4, <1>5

---------------------------------------------------------------------------
(* create, update, setEnabled, remove *)

\* A mutation begins: nothing is changed but, by setEnabled, disabled.
LEMMA MutationBegins ==
  ASSUME Accordant, NEW kind \in {"create", "update", "enable", "disable", "remove"},
         NEW n \in Known, NEW body \in AgentBodies \union {None}, NEW step \in {"file", "changed"},
         change.at = "idle",
         change' = [op |-> kind, name |-> n, body |-> body, at |-> step, disabled |-> {}],
         kind \in {"create", "update"} => n \in AgentNames /\ body \in AgentBodies /\ step = "file",
         kind = "remove" => n \in AgentNames /\ body = None /\ step = "file",
         kind \in {"enable", "disable"} => step = "changed",
         kind = "create" => n \notin agentState,
         kind = "disable" => n = BuiltinAgent \/ HasFile(n),
         disabled' = IF step = "changed" THEN StateAfter(change', disabled) ELSE disabled,
         UNCHANGED <<agentFiles, agentState, definitions, reloading, answered>>
  PROVE  Accordant'
<1>1. DefinitionsTypeOK
  BY DEF Accordant
<1>2. ~FileIsChanged(change) /\ ~StateIsWritten(change) /\ ~Unwritten(change)
  BY DEF FileIsChanged, StateIsWritten, Unwritten
<1>3. /\ change' \in Mutations /\ change'.op = kind /\ change'.name = n /\ change'.body = body
      /\ change'.at = step
  BY DEF Mutations
<1>4. ~FileIsChanged(change') /\ ~StateIsWritten(change')
  BY <1>3 DEF FileIsChanged, StateIsWritten, OfFile
<1>5. disabled = agentState
  BY <1>2 DEF Accordant, DisabledIsState
<1>6. disabled' \in SUBSET Known
  BY <1>1, <1>3 DEF StateAfter, DefinitionsTypeOK
<1>7. DefinitionsTypeOK'
  BY <1>1, <1>3, <1>6 DEF DefinitionsTypeOK
<1>8. MutationSteps'
  <2>1. reloading["mutation"].at = "idle"
    BY DEF Accordant, MutationSteps
  <2> QED BY <1>3, <2>1 DEF MutationSteps
<1>9. FilesAreAnswered' /\ StateIsAnswered'
  BY <1>2, <1>4 DEF Accordant, FilesAreAnswered, StateIsAnswered
<1>10. DisabledIsState'
  BY <1>3, <1>5 DEF DisabledIsState, Unwritten
<1>11. DefinitionsAreLoaded'
  BY <1>2 DEF Accordant, DefinitionsAreLoaded
<1>12. StateHasFiles'
  BY <1>2, <1>3 DEF Accordant, StateHasFiles, HasFile
<1> QED BY <1>7, <1>8, <1>9, <1>10, <1>11, <1>12 DEF Accordant

LEMMA CreateKeeps ==
  ASSUME Accordant, NEW n \in AgentNames, NEW body \in AgentBodies, Definitions!Create(n, body)
  PROVE  Accordant'
<1>1. /\ ~Definitions!Custom(n)
      /\ Definitions!Cardinality({k \in AgentNames : Definitions!Custom(k)}) < MaxCustom
      /\ change.at = "idle"
      /\ change' = [op |-> "create", name |-> n, body |-> body, at |-> "file", disabled |-> {}]
      /\ UNCHANGED <<agentFiles, agentState, definitions, disabled, reloading, answered>>
  BY DEF Definitions!Create, Definitions!Begin
<1>2. agentFiles \in Trees /\ agentState \in SUBSET Known
  BY DEF Accordant, DefinitionsTypeOK
<1>3. definitions = Definitions!Accepted(agentFiles)
  BY <1>1 DEF Accordant, DefinitionsAreLoaded, FileIsChanged
<1>4. {k \in AgentNames : Definitions!Custom(k)} = {k \in AgentNames : Definitions!Accepted(agentFiles)[k] # None}
  BY <1>3 DEF Definitions!Custom
<1>5. definitions = agentFiles
  BY <1>1, <1>2, <1>3, <1>4, SameCardinality, AllAreAccepted
<1>6. n \notin agentState
  BY <1>1, <1>5, AgentConstants DEF Accordant, StateHasFiles, HasFile, Unwritten, Definitions!Custom
<1> QED BY <1>1, <1>6, MutationBegins DEF Known

LEMMA UpdateKeeps ==
  ASSUME Accordant, NEW n \in AgentNames, NEW body \in AgentBodies, Definitions!Update(n, body)
  PROVE  Accordant'
<1>1. /\ change.at = "idle"
      /\ change' = [op |-> "update", name |-> n, body |-> body, at |-> "file", disabled |-> {}]
      /\ UNCHANGED <<agentFiles, agentState, definitions, disabled, reloading, answered>>
  BY DEF Definitions!Update, Definitions!Begin
<1> QED BY <1>1, MutationBegins DEF Known

LEMMA RemoveKeeps ==
  ASSUME Accordant, NEW n \in AgentNames, Definitions!Remove(n)
  PROVE  Accordant'
<1>1. /\ change.at = "idle"
      /\ change' = [op |-> "remove", name |-> n, body |-> None, at |-> "file", disabled |-> {}]
      /\ UNCHANGED <<agentFiles, agentState, definitions, disabled, reloading, answered>>
  BY DEF Definitions!Remove, Definitions!Begin
<1> QED BY <1>1, MutationBegins DEF Known

LEMMA SetEnabledKeeps ==
  ASSUME Accordant, NEW n \in AgentNames \union Definitions!Builtins, NEW on \in BOOLEAN,
         Definitions!SetEnabled(n, on)
  PROVE  Accordant'
<1> DEFINE kind == IF on THEN "enable" ELSE "disable"
<1>1. /\ Definitions!Has(n) /\ change.at = "idle"
      /\ change' = [op |-> kind, name |-> n, body |-> None, at |-> "changed", disabled |-> {}]
      /\ disabled' = IF on THEN disabled \ {n} ELSE disabled \union {n}
      /\ UNCHANGED <<agentFiles, agentState, definitions, reloading, answered>>
  BY DEF Definitions!SetEnabled, Definitions!Begin
<1>2. n \in Known /\ kind \in {"enable", "disable"}
  BY DEF Known, Definitions!Builtins
<1>3. definitions = Definitions!Accepted(agentFiles)
  BY <1>1 DEF Accordant, DefinitionsAreLoaded, FileIsChanged
<1>4. n = BuiltinAgent \/ HasFile(n)
  BY <1>1, <1>3, AcceptedHasFile DEF Definitions!Has, Definitions!Custom, Definitions!Builtins, HasFile
<1>5. disabled' = StateAfter(change', disabled)
  BY <1>1 DEF StateAfter
<1> HIDE DEF kind
<1> QED BY <1>1, <1>2, <1>4, <1>5, MutationBegins

LEMMA ChangeFileKeeps ==
  ASSUME Accordant, Definitions!ChangeFile
  PROVE  Accordant'
<1> DEFINE n == change.name
           step == IF change.op = "remove" THEN "changed" ELSE "reload"
<1>1. /\ change.at = "file" /\ agentFiles' = [agentFiles EXCEPT ![n] = change.body]
      /\ disabled' = IF change.op = "update" THEN disabled ELSE disabled \ {n}
      /\ change' = [change EXCEPT !.at = step]
      /\ IF change.op = "remove" THEN reloading' = reloading ELSE Definitions!Reload
      /\ UNCHANGED <<agentState, definitions, answered>>
  BY DEF Definitions!ChangeFile
<1>2. /\ DefinitionsTypeOK /\ reloading["mutation"].at = "idle" /\ OfFile(change)
      /\ n \in AgentNames /\ (change.op = "remove" \/ change.body \in AgentBodies)
      /\ (change.op = "remove" => change.body = None)
  BY <1>1 DEF Accordant, MutationSteps, OfFile
<1>3. step \in {"changed", "reload"} /\ (step = "changed" <=> change.op = "remove")
  OBVIOUS
<1> HIDE DEF n, step
<1>4. /\ change' \in Mutations /\ change'.at = step /\ change'.op = change.op
      /\ change'.name = change.name /\ change'.body = change.body
  BY <1>1, <1>2, <1>3, MutationMoves
<1>5. /\ reloading' \in [{"mutation", "list"} -> Reloads]
      /\ reloading'["mutation"].at = IF step = "changed" THEN "idle" ELSE "asked"
  <2>1. CASE change.op = "remove"
    BY <1>1, <1>2, <1>3, <2>1 DEF DefinitionsTypeOK
  <2>2. CASE change.op # "remove"
    BY <1>1, <1>2, <1>3, <2>2, ReloadIsAsked
  <2> QED BY <2>1, <2>2
<1>6. change.body \in AgentBodies \union {None}
  BY <1>2
<1>7. DefinitionsTypeOK'
  <2>1. agentFiles' \in Trees
    BY <1>1, <1>2, <1>6 DEF DefinitionsTypeOK, Trees
  <2>2. disabled' \in SUBSET Known
    BY <1>1, <1>2 DEF DefinitionsTypeOK
  <2> QED BY <1>1, <1>2, <1>4, <1>5, <2>1, <2>2 DEF DefinitionsTypeOK
<1>8. MutationSteps'
  <2>1. change.op \in {"create", "update", "remove"}
    BY <1>2 DEF OfFile
  <2> QED BY <1>1, <1>2, <1>3, <1>4, <1>5, <2>1 DEF Accordant, MutationSteps, n
<1>9. ~FileIsChanged(change) /\ FileIsChanged(change') /\ ~StateIsWritten(change) /\ ~Unwritten(change)
  BY <1>1, <1>2, <1>3, <1>4 DEF FileIsChanged, OfFile, StateIsWritten, Unwritten
<1>10. FilesAreAnswered'
  BY <1>1, <1>2, <1>4, <1>9 DEF Accordant, FilesAreAnswered, FilesAfter, OfFile, n
<1>11. StateIsAnswered'
  <2>1. agentState = answered.state
    BY <1>9 DEF Accordant, StateIsAnswered
  <2>2. StateIsWritten(change') => StateAfter(change', answered.state) = answered.state
    BY <1>2, <1>3, <1>4 DEF StateIsWritten, StateAfter, OfFile
  <2> QED BY <1>1, <2>1, <2>2 DEF StateIsAnswered
<1>12. disabled = agentState
  BY <1>9 DEF Accordant, DisabledIsState
<1>13. DisabledIsState'
  <2>1. CASE change.op = "remove"
    BY <1>1, <1>3, <1>4, <1>12, <2>1 DEF DisabledIsState, Unwritten, StateAfter, n
  <2>2. CASE change.op = "update"
    BY <1>1, <1>3, <1>4, <1>12, <2>2 DEF DisabledIsState, Unwritten
  <2>3. CASE change.op = "create"
    <3>1. n \notin agentState
      BY <1>1, <2>3 DEF Accordant, StateHasFiles, n
    <3>2. disabled' = agentState
      BY <1>1, <1>12, <2>3, <3>1
    <3> QED BY <1>1, <1>3, <1>4, <2>3, <3>2 DEF DisabledIsState, Unwritten
  <2> QED BY <1>2, <2>1, <2>2, <2>3 DEF OfFile
<1>14. DefinitionsAreLoaded'
  BY <1>3, <1>4, <1>5, <1>9 DEF DefinitionsAreLoaded
<1>15. StateHasFiles'
  <2>1. ASSUME NEW k \in agentState
        PROVE  k = BuiltinAgent \/ HasFile(k)' \/ (change'.op = "remove" /\ Unwritten(change') /\ k = change'.name)
    <3>1. k = BuiltinAgent \/ HasFile(k)
      BY <1>9 DEF Accordant, StateHasFiles
    <3>2. CASE k # n
      BY <1>1, <1>2, <3>1, <3>2 DEF HasFile, DefinitionsTypeOK, Trees
    <3>3. CASE k = n
      <4>1. change.op # "create"
        BY <1>1, <2>1, <3>3 DEF Accordant, StateHasFiles, n
      <4>2. CASE change.op = "remove"
        BY <1>3, <1>4, <3>3, <4>2 DEF Unwritten, n
      <4>3. CASE change.op = "update"
        BY <1>1, <1>2, <3>3, <4>3, AgentConstants DEF HasFile, DefinitionsTypeOK, Trees
      <4> QED BY <1>2, <4>1, <4>2, <4>3 DEF OfFile
    <3> QED BY <3>2, <3>3
  <2>2. change'.op = "create" => change'.name \notin agentState
    BY <1>1, <1>4 DEF Accordant, StateHasFiles
  <2>3. change'.op # "disable"
    BY <1>2, <1>4 DEF OfFile
  <2> QED BY <1>1, <2>1, <2>2, <2>3 DEF StateHasFiles
<1> QED BY <1>7, <1>8, <1>10, <1>11, <1>13, <1>14, <1>15 DEF Accordant

LEMMA SerializeKeeps ==
  ASSUME Accordant, Definitions!Serialize
  PROVE  Accordant'
<1>1. /\ change.at = "changed" /\ change' = [change EXCEPT !.at = "writing", !.disabled = disabled]
      /\ UNCHANGED <<agentFiles, agentState, definitions, disabled, reloading, answered>>
  BY DEF Definitions!Serialize
<1>2. DefinitionsTypeOK
  BY DEF Accordant
<1>3. /\ change' \in Mutations /\ change'.at = "writing" /\ change'.op = change.op
      /\ change'.name = change.name /\ change'.body = change.body /\ change'.disabled = disabled
  BY <1>1, <1>2 DEF DefinitionsTypeOK, Mutations
<1>4. DefinitionsTypeOK' /\ MutationSteps'
  <2>1. DefinitionsTypeOK'
    BY <1>1, <1>2, <1>3 DEF DefinitionsTypeOK
  <2>2. MutationSteps'
    BY <1>1, <1>3 DEF Accordant, MutationSteps
  <2> QED BY <2>1, <2>2
<1>5. /\ FileIsChanged(change') = FileIsChanged(change) /\ ~StateIsWritten(change) /\ ~StateIsWritten(change')
      /\ Unwritten(change) /\ Unwritten(change')
  BY <1>1, <1>3 DEF FileIsChanged, StateIsWritten, Unwritten, OfFile
<1>6. FilesAreAnswered' /\ StateIsAnswered' /\ DisabledIsState'
  BY <1>1, <1>3, <1>5 DEF Accordant, FilesAreAnswered, StateIsAnswered, DisabledIsState, FilesAfter, StateAfter, OfFile
<1>7. DefinitionsAreLoaded' /\ StateHasFiles'
  BY <1>1, <1>3, <1>5 DEF Accordant, DefinitionsAreLoaded, StateHasFiles, HasFile
<1> QED BY <1>4, <1>6, <1>7 DEF Accordant

LEMMA WriteStateKeeps ==
  ASSUME Accordant, Definitions!WriteState
  PROVE  Accordant'
<1> DEFINE step == IF change.op = "remove" THEN "reload" ELSE "done"
           n == change.name
<1>1. /\ change.at = "writing" /\ agentState' = change.disabled /\ change' = [change EXCEPT !.at = step]
      /\ IF change.op = "remove" THEN Definitions!Reload ELSE reloading' = reloading
      /\ UNCHANGED <<agentFiles, definitions, disabled, answered>>
  BY DEF Definitions!WriteState
<1>2. /\ DefinitionsTypeOK /\ reloading["mutation"].at = "idle" /\ change.op \in {"remove", "enable", "disable"}
  BY <1>1 DEF Accordant, MutationSteps
<1>3. step \in {"done", "reload"} /\ (step = "reload" <=> change.op = "remove")
  OBVIOUS
<1> HIDE DEF step
<1>4. /\ change' \in Mutations /\ change'.at = step /\ change'.op = change.op
      /\ change'.name = change.name /\ change'.body = change.body
  BY <1>1, <1>2, <1>3, MutationMoves
<1>5. /\ reloading' \in [{"mutation", "list"} -> Reloads]
      /\ reloading'["mutation"].at = IF step = "reload" THEN "asked" ELSE "idle"
  <2>1. CASE change.op = "remove"
    BY <1>1, <1>2, <1>3, <2>1, ReloadIsAsked
  <2>2. CASE change.op # "remove"
    BY <1>1, <1>2, <1>3, <2>2 DEF DefinitionsTypeOK
  <2> QED BY <2>1, <2>2
<1>6. Unwritten(change) /\ ~StateIsWritten(change) /\ StateIsWritten(change') /\ ~Unwritten(change')
      /\ FileIsChanged(change') = FileIsChanged(change)
  BY <1>1, <1>2, <1>3, <1>4 DEF FileIsChanged, OfFile, StateIsWritten, Unwritten
<1>7. agentState' = StateAfter(change, agentState) /\ disabled' = agentState' /\ agentState = answered.state
  BY <1>1, <1>6 DEF Accordant, DisabledIsState, StateIsAnswered
<1>8. DefinitionsTypeOK'
  BY <1>1, <1>2, <1>4, <1>5, <1>7 DEF DefinitionsTypeOK
<1>9. MutationSteps'
  BY <1>1, <1>2, <1>3, <1>4, <1>5 DEF Accordant, MutationSteps
<1>10. FilesAreAnswered' /\ StateIsAnswered' /\ DisabledIsState'
  BY <1>1, <1>3, <1>4, <1>6, <1>7 DEF Accordant, FilesAreAnswered, StateIsAnswered, DisabledIsState, FilesAfter,
     StateAfter, OfFile
<1>11. DefinitionsAreLoaded'
  <2>1. CASE change.op = "remove"
    BY <1>1, <1>3, <1>4, <1>5, <2>1 DEF DefinitionsAreLoaded, FileIsChanged, OfFile
  <2>2. CASE change.op # "remove"
    BY <1>1, <1>2, <2>2 DEF Accordant, DefinitionsAreLoaded, FileIsChanged, OfFile
  <2> QED BY <2>1, <2>2
<1>12. StateHasFiles'
  <2>1. ASSUME NEW k \in agentState' PROVE k = BuiltinAgent \/ HasFile(k)'
    <3>1. CASE k \in agentState /\ ~(change.op = "remove" /\ k = n)
      BY <1>1, <3>1 DEF Accordant, StateHasFiles, HasFile
    <3>2. CASE change.op = "disable" /\ k = n
      BY <1>1, <3>2 DEF Accordant, StateHasFiles, HasFile
    <3> QED BY <1>2, <1>7, <2>1, <3>1, <3>2 DEF StateAfter
  <2>2. change'.op # "create" /\ (change'.op = "disable" => change'.name = BuiltinAgent \/ HasFile(change.name)')
    BY <1>1, <1>2, <1>4 DEF Accordant, StateHasFiles, HasFile
  <2> QED BY <2>1, <2>2 DEF StateHasFiles
<1> QED BY <1>8, <1>9, <1>10, <1>11, <1>12 DEF Accordant

\* A mutation that is over leaves what is on disk, and answered, as it is.
LEMMA MutationEnds ==
  ASSUME Accordant, change' = Definitions!NoMutation,
         reloading' \in [{"mutation", "list"} -> Reloads], reloading'["mutation"].at = "idle",
         answered' = [files |-> agentFiles, state |-> agentState],
         definitions' = Definitions!Accepted(agentFiles), disabled' = agentState,
         \A k \in agentState : k = BuiltinAgent \/ HasFile(k),
         UNCHANGED <<agentFiles, agentState>>
  PROVE  Accordant'
<1>1. /\ change' \in Mutations /\ change'.at = "idle" /\ change'.name = None
  BY DEF Definitions!NoMutation, Mutations
<1>2. ~FileIsChanged(change') /\ ~StateIsWritten(change') /\ ~Unwritten(change')
  BY <1>1 DEF FileIsChanged, StateIsWritten, Unwritten
<1>3. answered' \in [files : Trees, state : SUBSET Known] /\ answered'.files = agentFiles /\ answered'.state = agentState
  BY DEF Accordant, DefinitionsTypeOK
<1>4. DefinitionsTypeOK' /\ MutationSteps'
  BY <1>1, <1>3 DEF Accordant, DefinitionsTypeOK, MutationSteps
<1>5. FilesAreAnswered' /\ StateIsAnswered' /\ DisabledIsState' /\ DefinitionsAreLoaded'
  BY <1>1, <1>2, <1>3 DEF FilesAreAnswered, StateIsAnswered, DisabledIsState, DefinitionsAreLoaded
<1>6. StateHasFiles'
  BY <1>1 DEF StateHasFiles, HasFile
<1> QED BY <1>4, <1>5, <1>6 DEF Accordant

LEMMA RecordsAreAnswered ==
  ASSUME DefinitionsTypeOK, answered.files = agentFiles, answered.state = agentState
  PROVE  answered = [files |-> agentFiles, state |-> agentState]
BY DEF DefinitionsTypeOK

LEMMA AnswerKeeps ==
  ASSUME Accordant, Definitions!Answer
  PROVE  Accordant'
<1> DEFINE n == change.name
           tree == IF change.op \in {"enable", "disable"} THEN answered.files
                   ELSE [answered.files EXCEPT ![n] = change.body]
           off == IF change.op = "disable" THEN answered.state \union {n}
                  ELSE IF change.op = "update" THEN answered.state ELSE answered.state \ {n}
<1>1. /\ change.at = "done" /\ change' = Definitions!NoMutation
      /\ answered' = [files |-> tree, state |-> off]
      /\ UNCHANGED <<agentFiles, agentState, definitions, disabled, reloading>>
  <2>1. (CASE change.op = "disable" -> answered.state \union {change.name}
           [] change.op = "update" -> answered.state
           [] OTHER -> answered.state \ {change.name}) = off
    OBVIOUS
  <2> QED BY <2>1 DEF Definitions!Answer
<1>2. /\ change.op \in {"create", "update", "remove", "enable", "disable"} /\ reloading["mutation"].at = "idle"
      /\ DefinitionsTypeOK
  BY <1>1 DEF Accordant, MutationSteps
<1>3. ~Unwritten(change) /\ StateIsWritten(change) /\ (FileIsChanged(change) <=> OfFile(change))
  BY <1>1 DEF Unwritten, StateIsWritten, FileIsChanged
<1>4. tree = agentFiles
  BY <1>2, <1>3 DEF Accordant, FilesAreAnswered, FilesAfter, OfFile
<1>5. off = agentState
  <2>1. CASE change.op = "create"
    <3>1. agentState = answered.state /\ n \notin agentState
      BY <1>1, <1>3, <2>1 DEF Accordant, StateIsAnswered, StateAfter, StateHasFiles
    <3> QED BY <2>1, <3>1
  <2>2. CASE change.op # "create"
    BY <1>2, <1>3, <2>2 DEF Accordant, StateIsAnswered, StateAfter
  <2> QED BY <2>1, <2>2
<1> HIDE DEF tree, off
<1>6. definitions = Definitions!Accepted(agentFiles) /\ disabled = agentState
  BY <1>1, <1>3 DEF Accordant, DefinitionsAreLoaded, DisabledIsState
<1>7. \A k \in agentState : k = BuiltinAgent \/ HasFile(k)
  BY <1>3 DEF Accordant, StateHasFiles
<1>8. reloading' \in [{"mutation", "list"} -> Reloads] /\ reloading'["mutation"].at = "idle"
  BY <1>1, <1>2 DEF DefinitionsTypeOK
<1> QED BY <1>1, <1>4, <1>5, <1>6, <1>7, <1>8, MutationEnds

LEMMA FirstWriteFails ==
  ASSUME Accordant, Definitions!WriteFails, ~agentsExcused'
  PROVE  Accordant'
<1>1. /\ change.at = "file" /\ change' = Definitions!NoMutation
      /\ UNCHANGED <<agentFiles, agentState, definitions, disabled, reloading, answered>>
  BY DEF Definitions!WriteFails
<1>2. ~Unwritten(change) /\ ~StateIsWritten(change) /\ ~FileIsChanged(change)
  BY <1>1 DEF Unwritten, StateIsWritten, FileIsChanged
<1>3. /\ answered.files = agentFiles /\ answered.state = agentState /\ disabled = agentState
      /\ definitions = Definitions!Accepted(agentFiles)
  BY <1>2 DEF Accordant, FilesAreAnswered, StateIsAnswered, DisabledIsState, DefinitionsAreLoaded
<1>4. answered = [files |-> agentFiles, state |-> agentState]
  BY <1>3, RecordsAreAnswered DEF Accordant
<1>5. \A k \in agentState : k = BuiltinAgent \/ HasFile(k)
  BY <1>2 DEF Accordant, StateHasFiles
<1>6. reloading' \in [{"mutation", "list"} -> Reloads] /\ reloading'["mutation"].at = "idle"
  BY <1>1 DEF Accordant, DefinitionsTypeOK, MutationSteps
<1> QED BY <1>1, <1>3, <1>4, <1>5, <1>6, MutationEnds

LEMMA DefinitionsRestart ==
  ASSUME Accordant, Definitions!Restart, ~agentsExcused'
  PROVE  Accordant'
<1> DEFINE n == change.name
           tree == IF n \in AgentNames THEN [answered.files EXCEPT ![n] = agentFiles[n]] ELSE answered.files
           off == (answered.state \ {n}) \union (agentState \intersect {n})
<1>1. /\ definitions' = Definitions!Accepted(agentFiles) /\ disabled' = agentState
      /\ change' = Definitions!NoMutation
      /\ reloading' = [x \in {"mutation", "list"} |-> Definitions!NoReload]
      /\ answered' = [files |-> tree, state |-> off]
      /\ ~(change.op = "remove" /\ change.at \in {"changed", "writing"} /\ n \in agentState)
      /\ UNCHANGED <<agentFiles, agentState>>
  BY DEF Definitions!Restart, Definitions!Mutating, Definitions!Listing
<1>2. /\ DefinitionsTypeOK /\ agentFiles \in Trees /\ answered.files \in Trees
      /\ agentState \in SUBSET Known /\ answered.state \in SUBSET Known
  BY DEF Accordant, DefinitionsTypeOK
<1>3. tree = agentFiles
  <2>1. CASE FileIsChanged(change)
    <3>1. n \in AgentNames
      BY <2>1 DEF Accordant, MutationSteps, FileIsChanged, OfFile
    <3>2. agentFiles = [answered.files EXCEPT ![n] = change.body]
      BY <2>1 DEF Accordant, FilesAreAnswered, FileIsChanged, FilesAfter
    <3>3. agentFiles[n] = change.body
      BY <1>2, <3>1, <3>2 DEF Trees
    <3> QED BY <3>1, <3>2, <3>3
  <2>2. CASE ~FileIsChanged(change)
    <3>1. agentFiles = answered.files
      BY <2>2 DEF Accordant, FilesAreAnswered
    <3> QED BY <1>2, <3>1 DEF Trees
  <2> QED BY <2>1, <2>2
<1>4. off = agentState
  <2>1. agentState = answered.state \/ agentState = StateAfter(change, answered.state)
    BY DEF Accordant, StateIsAnswered
  <2>2. \A k \in agentState \union answered.state : k # n => (k \in agentState <=> k \in answered.state)
    BY <2>1 DEF StateAfter
  <2> QED BY <2>2
<1>5. \A k \in agentState : k = BuiltinAgent \/ HasFile(k)
  BY <1>1 DEF Accordant, StateHasFiles, Unwritten
<1> HIDE DEF tree, off
<1>6. reloading' \in [{"mutation", "list"} -> Reloads] /\ reloading'["mutation"].at = "idle"
  <2>1. Definitions!NoReload \in Reloads /\ Definitions!NoReload.at = "idle"
    BY DEF Definitions!NoReload, Reloads
  <2> QED BY <1>1, <2>1
<1> QED BY <1>1, <1>3, <1>4, <1>5, <1>6, MutationEnds

LEMMA DefinitionsInitially == Definitions!Init => DefinitionsIInv
<1> SUFFICES ASSUME Definitions!Init PROVE Accordant
  BY DEF DefinitionsIInv
<1>1. /\ agentFiles \in Trees /\ agentState = {} /\ definitions = Definitions!Accepted(agentFiles)
      /\ disabled = {} /\ change = Definitions!NoMutation
      /\ reloading = [x \in {"mutation", "list"} |-> Definitions!NoReload]
      /\ answered = [files |-> agentFiles, state |-> {}]
  BY DEF Definitions!Init, Definitions!Mutating, Definitions!Listing, Trees
<1>2. change \in Mutations /\ change.at = "idle" /\ change.name = None
  BY <1>1 DEF Definitions!NoMutation, Mutations
<1>3. reloading \in [{"mutation", "list"} -> Reloads] /\ reloading["mutation"].at = "idle"
  <2>1. Definitions!NoReload \in Reloads /\ Definitions!NoReload.at = "idle"
    BY DEF Definitions!NoReload, Reloads
  <2> QED BY <1>1, <2>1
<1>4. answered \in [files : Trees, state : SUBSET Known] /\ answered.files = agentFiles /\ answered.state = {}
  BY <1>1
<1>5. DefinitionsTypeOK /\ MutationSteps
  BY <1>1, <1>2, <1>3, <1>4 DEF DefinitionsTypeOK, MutationSteps
<1>6. FilesAreAnswered /\ StateIsAnswered /\ DisabledIsState /\ DefinitionsAreLoaded /\ StateHasFiles
  BY <1>1, <1>2, <1>4 DEF FilesAreAnswered, StateIsAnswered, DisabledIsState, DefinitionsAreLoaded, StateHasFiles,
     FileIsChanged, StateIsWritten, Unwritten
<1> QED BY <1>5, <1>6 DEF Accordant

LEMMA DefinitionsSteps == DefinitionsIInv /\ [Definitions!Next]_(Definitions!vars) => DefinitionsIInv'
<1> SUFFICES ASSUME DefinitionsIInv, [Definitions!Next]_(Definitions!vars), ~agentsExcused'
             PROVE  Accordant'
  BY DEF DefinitionsIInv
<1>1. CASE UNCHANGED Definitions!vars
  <2>1. UNCHANGED <<agentFiles, agentState, definitions, disabled, change, reloading, answered, agentsExcused>>
    BY <1>1 DEF Definitions!vars
  <2>2. Accordant
    BY <2>1 DEF DefinitionsIInv
  <2>3. DefinitionsTypeOK' /\ MutationSteps'
    BY <2>1, <2>2 DEF Accordant, DefinitionsTypeOK, MutationSteps
  <2>4. FilesAreAnswered' /\ StateIsAnswered' /\ DisabledIsState'
    BY <2>1, <2>2 DEF Accordant, FilesAreAnswered, StateIsAnswered, DisabledIsState, FileIsChanged, StateIsWritten,
         Unwritten, FilesAfter, StateAfter, OfFile
  <2>5. DefinitionsAreLoaded' /\ StateHasFiles'
    BY <2>1, <2>2 DEF Accordant, DefinitionsAreLoaded, StateHasFiles, HasFile, FileIsChanged, OfFile, Unwritten
  <2> QED BY <2>3, <2>4, <2>5 DEF Accordant
<1>2. ASSUME NEW x \in {"mutation", "list"},
             \/ Definitions!Scan(x) \/ Definitions!Install(x) \/ Definitions!ReadState(x)
             \/ Definitions!SetDisabled(x)
      PROVE  Accordant'
  <2>1. CASE Definitions!Scan(x)
    <3>1. Accordant
      BY <2>1 DEF Definitions!Scan, DefinitionsIInv
    <3> QED BY <2>1, <3>1, ScanKeeps
  <2>2. CASE Definitions!Install(x)
    <3>1. Accordant
      BY <2>2 DEF Definitions!Install, DefinitionsIInv
    <3> QED BY <2>2, <3>1, InstallKeeps
  <2>3. CASE Definitions!ReadState(x)
    <3>1. Accordant
      BY <2>3 DEF Definitions!ReadState, DefinitionsIInv
    <3> QED BY <2>3, <3>1, ReadStateKeeps
  <2>4. CASE Definitions!SetDisabled(x)
    <3>1. Accordant
      BY <2>4 DEF Definitions!SetDisabled, DefinitionsIInv
    <3> QED BY <2>4, <3>1, SetDisabledKeeps
  <2> QED BY <1>2, <2>1, <2>2, <2>3, <2>4
<1>3. ASSUME NEW n \in AgentNames, NEW body \in AgentBodies,
             Definitions!Create(n, body) \/ Definitions!Update(n, body)
      PROVE  Accordant'
  <2>1. Accordant
    BY <1>3 DEF Definitions!Create, Definitions!Update, DefinitionsIInv
  <2>2. CASE Definitions!Create(n, body)
    BY <2>1, <2>2, CreateKeeps
  <2>3. CASE Definitions!Update(n, body)
    BY <2>1, <2>3, UpdateKeeps
  <2> QED BY <1>3, <2>2, <2>3
<1>4. ASSUME NEW n \in AgentNames \union Definitions!Builtins, NEW on \in BOOLEAN, Definitions!SetEnabled(n, on)
      PROVE  Accordant'
  <2>1. Accordant
    BY <1>4 DEF Definitions!SetEnabled, DefinitionsIInv
  <2> QED BY <1>4, <2>1, SetEnabledKeeps
<1>5. ASSUME NEW n \in AgentNames, Definitions!Remove(n)
      PROVE  Accordant'
  <2>1. Accordant
    BY <1>5 DEF Definitions!Remove, DefinitionsIInv
  <2> QED BY <1>5, <2>1, RemoveKeeps
<1>6. CASE \/ Definitions!List \/ Definitions!ChangeFile \/ Definitions!Serialize \/ Definitions!WriteState
           \/ Definitions!Answer
  <2>1. Accordant
    <3>1. agentsExcused' = agentsExcused
      BY <1>6 DEF Definitions!List, Definitions!ChangeFile, Definitions!Serialize, Definitions!WriteState,
                  Definitions!Answer
    <3> QED BY <3>1 DEF DefinitionsIInv
  <2>2. CASE Definitions!List
    BY <2>1, <2>2, ListKeeps
  <2>3. CASE Definitions!ChangeFile
    BY <2>1, <2>3, ChangeFileKeeps
  <2>4. CASE Definitions!Serialize
    BY <2>1, <2>4, SerializeKeeps
  <2>5. CASE Definitions!WriteState
    BY <2>1, <2>5, WriteStateKeeps
  <2>6. CASE Definitions!Answer
    BY <2>1, <2>6, AnswerKeeps
  <2> QED BY <1>6, <2>2, <2>3, <2>4, <2>5, <2>6
<1>7. CASE Definitions!WriteFails
  <2>1. Accordant
    BY <1>7 DEF Definitions!WriteFails, DefinitionsIInv
  <2> QED BY <1>7, <2>1, FirstWriteFails
<1>8. CASE Definitions!Restart
  <2>1. Accordant
    BY <1>8 DEF Definitions!Restart, DefinitionsIInv
  <2> QED BY <1>8, <2>1, DefinitionsRestart
<1>9. CASE Definitions!Next
  BY <1>2, <1>3, <1>4, <1>5, <1>6, <1>7, <1>8, <1>9
  DEF Definitions!Next, Definitions!Mutating, Definitions!Listing
<1> QED BY <1>1, <1>9

LEMMA DefinitionsFollow == Definitions!Spec => []Definitions!RegistryFollowsDisk
<1>1. DefinitionsIInv => Definitions!RegistryFollowsDisk
  <2> SUFFICES ASSUME Accordant, change.at = "idle" PROVE
        /\ answered = [files |-> agentFiles, state |-> agentState]
        /\ definitions = Definitions!Accepted(agentFiles) /\ disabled = agentState
        /\ \A n \in agentState : n \in Definitions!Builtins \/ agentFiles[n] # None
    BY DEF Definitions!RegistryFollowsDisk, DefinitionsIInv
  <2>1. ~Unwritten(change) /\ ~StateIsWritten(change) /\ ~FileIsChanged(change)
    BY DEF Unwritten, StateIsWritten, FileIsChanged
  <2>2. /\ answered.files = agentFiles /\ answered.state = agentState /\ disabled = agentState
        /\ definitions = Definitions!Accepted(agentFiles)
    BY <2>1 DEF Accordant, FilesAreAnswered, StateIsAnswered, DisabledIsState, DefinitionsAreLoaded
  <2>3. answered = [files |-> agentFiles, state |-> agentState]
    BY <2>2, RecordsAreAnswered DEF Accordant
  <2>4. \A n \in agentState : n \in Definitions!Builtins \/ agentFiles[n] # None
    BY <2>1 DEF Accordant, StateHasFiles, HasFile, Definitions!Builtins
  <2> QED BY <2>2, <2>3, <2>4
<1>2. Definitions!Spec => []DefinitionsIInv
  BY DefinitionsInitially, DefinitionsSteps, PTL DEF Definitions!Spec
<1> QED BY <1>1, <1>2, PTL

-------------------------------------------------------------------------------
\* what a sequence holds
Entries(s) == {s[i] : i \in DOMAIN s}

(* The list of MCP servers: sequences that carry each element of a set once *)

Rows == [name : ServerNames, body : ServerBodies \union {Off, None}]
Once(ts) == \A i, j \in DOMAIN ts : ts[i] = ts[j] => i = j
Carries(ts, S) == {ts[i] : i \in DOMAIN ts} = S /\ Once(ts)

LEMMA SetToSeqCarries ==
  ASSUME NEW S, IsFiniteSet(S)
  PROVE  Servers!SetToSeq(S) \in Seq(S) /\ Carries(Servers!SetToSeq(S), S)
<1> DEFINE n == Cardinality(S)
           g == Servers!SetToSeq(S)
<1>1. n \in Nat /\ ExistsBijection(1..n, S) /\ Servers!Cardinality(S) = n
  <2>1. Servers!Cardinality(S) = Cardinality(S)
    BY DEF Servers!Cardinality, Cardinality
  <2> QED BY <2>1, FS_CardinalityType
<1> HIDE DEF n
<1>2. g = CHOOSE f \in [1..n -> S] : Servers!IsInjective(f)
  BY <1>1 DEF Servers!SetToSeq
<1> HIDE DEF g
<1>3. g \in [1..n -> S] /\ Servers!IsInjective(g)
  <2>1. PICK f \in Bijection(1..n, S) : TRUE
    BY <1>1 DEF ExistsBijection
  <2>2. f \in [1..n -> S] /\ Servers!IsInjective(f)
    BY <2>1 DEF Bijection, Injection, IsInjective, Servers!IsInjective
  <2> QED BY <1>2, <2>2
<1>4. g \in Injection(1..n, S)
  BY <1>3 DEF Injection, IsInjective, Servers!IsInjective
<1>5. Cardinality(1..n) = Cardinality(S)
  BY <1>1, FS_Interval DEF n
<1>6. g \in Surjection(1..n, S)
  BY <1>4, <1>5, FS_Injection
<1>7. g \in Seq(S)
  BY <1>1, <1>3
<1>8. {g[i] : i \in DOMAIN g} = S
  BY <1>3, <1>6 DEF Surjection
<1>9. Once(g)
  BY <1>3 DEF Once, Servers!IsInjective
<1> QED BY <1>7, <1>8, <1>9 DEF Carries, g

LEMMA CarriesLength ==
  ASSUME NEW S, NEW T, NEW ts \in Seq(T), Carries(ts, S)
  PROVE  Len(ts) = Cardinality(S)
<1>1. Len(ts) \in Nat /\ DOMAIN ts = 1..Len(ts)
  OBVIOUS
<1>2. ts \in [1..Len(ts) -> S]
  BY <1>1 DEF Carries
<1>3. ts \in Bijection(1..Len(ts), S)
  BY <1>1, <1>2 DEF Carries, Once, Bijection, Injection, IsInjective, Surjection
<1> QED BY <1>1, <1>3, FS_CountingElements DEF ExistsBijection

IsWithout(rs, ts, i) ==
  /\ rs \in Seq(Rows) /\ Len(rs) = Len(ts) - 1
  /\ \A j \in 1..(Len(ts) - 1) : rs[j] = IF j < i THEN ts[j] ELSE ts[j + 1]

\* Removed takes the first server of the name.
LEMMA RemovedFirst ==
  ASSUME NEW ts \in Seq(Rows), NEW n, NEW k \in DOMAIN ts, ts[k].name = n
  PROVE  \E i \in 1..Len(ts) :
           ts[i].name = n /\ i <= k /\ IsWithout(Servers!Removed(ts, n), ts, i)
<1> DEFINE named == Servers!Named(ts, n)
           i == CHOOSE i \in named : \A j \in named : i <= j
<1>1. named \in SUBSET Int /\ named # {} /\ IsFiniteSet(named) /\ named \in SUBSET (1..Len(ts)) /\ k \in named
  <2>1. named \in SUBSET (1..Len(ts)) /\ k \in named /\ Len(ts) \in Nat
    BY DEF Servers!Named
  <2>2. IsFiniteSet(1..Len(ts))
    BY <2>1, FS_Interval
  <2> HIDE DEF named
  <2>3. IsFiniteSet(named)
    BY <2>1, <2>2, FS_Subset
  <2> QED BY <2>1, <2>3
<1>2. i \in named /\ \A j \in named : i <= j
  <2> HIDE DEF named
  <2>1. \E x \in named : \A y \in named : x <= y
    BY <1>1, NaturalsHaveMin
  <2> QED BY <2>1
<1>3. i \in 1..Len(ts) /\ i <= k /\ ts[i].name = n
  BY <1>1, <1>2 DEF Servers!Named
<1>4. Servers!Removed(ts, n) = SubSeq(ts, 1, i - 1) \o SubSeq(ts, i + 1, Len(ts))
  BY <1>1 DEF Servers!Removed, Servers!RemoveAt
<1> HIDE DEF i, named
<1> DEFINE a == SubSeq(ts, 1, i - 1)
           b == SubSeq(ts, i + 1, Len(ts))
<1>5. /\ a \in Seq(Rows) /\ Len(a) = i - 1 /\ \A j \in 1..(i - 1) : a[j] = ts[j]
      /\ b \in Seq(Rows) /\ Len(b) = Len(ts) - i /\ \A j \in 1..(Len(ts) - i) : b[j] = ts[j + i]
  <2>1. Len(ts) \in Nat /\ \A j \in 1..Len(ts) : ts[j] \in Rows
    BY ElementOfSeq
  <2>2. a \in Seq(Rows) /\ Len(a) = i - 1 /\ \A j \in 1..(i - 1) : a[j] = ts[j]
    BY <1>3, <2>1
  <2>3. b \in Seq(Rows) /\ Len(b) = Len(ts) - i /\ \A j \in 1..(Len(ts) - i) : b[j] = ts[j + i]
    BY <1>3, <2>1
  <2> QED BY <2>2, <2>3
<1> HIDE DEF a, b
<1>6. /\ a \o b \in Seq(Rows) /\ Len(a \o b) = Len(ts) - 1
      /\ \A j \in 1..(Len(ts) - 1) : (a \o b)[j] = IF j < i THEN ts[j] ELSE ts[j + 1]
  <2>0. a \in Seq(Rows) /\ b \in Seq(Rows) /\ Len(ts) \in Nat
    BY <1>5
  <2>1. a \o b \in Seq(Rows) /\ Len(a \o b) = Len(a) + Len(b) /\ Len(ts) \in Nat
        /\ \A j \in 1..(Len(a) + Len(b)) : (a \o b)[j] = IF j <= Len(a) THEN a[j] ELSE b[j - Len(a)]
    BY <2>0, ConcatProperties
  <2>2. ASSUME NEW j \in 1..(Len(ts) - 1)
        PROVE  (a \o b)[j] = IF j < i THEN ts[j] ELSE ts[j + 1]
    <3>1. (a \o b)[j] = IF j <= i - 1 THEN a[j] ELSE b[j - (i - 1)]
      BY <1>3, <1>5, <2>1
    <3>2. CASE j < i
      BY <1>3, <1>5, <2>1, <3>1, <3>2
    <3>3. CASE ~(j < i)
      <4>1. j - (i - 1) \in 1..(Len(ts) - i) /\ (j - (i - 1)) + i = j + 1
        BY <1>3, <2>1, <3>3
      <4>2. b[j - (i - 1)] = ts[(j - (i - 1)) + i]
        BY <1>5, <4>1
      <4> QED BY <1>3, <2>1, <3>1, <3>3, <4>1, <4>2
    <3> QED BY <3>2, <3>3
  <2> QED BY <1>3, <1>5, <2>1, <2>2
<1> QED BY <1>3, <1>4, <1>6 DEF a, b, IsWithout

LEMMA NoneNamed ==
  ASSUME NEW ts, NEW n, \A k \in DOMAIN ts : ts[k].name # n
  PROVE  Servers!Removed(ts, n) = ts
BY DEF Servers!Removed, Servers!Named

LEMMA RemovedIsSeq ==
  ASSUME NEW ts \in Seq(Rows), NEW n
  PROVE  Servers!Removed(ts, n) \in Seq(Rows)
<1>1. CASE \E k \in DOMAIN ts : ts[k].name = n
  BY <1>1, RemovedFirst DEF IsWithout
<1>2. CASE \A k \in DOMAIN ts : ts[k].name # n
  BY <1>2, NoneNamed
<1> QED BY <1>1, <1>2

\* Of servers with names of their own none of the name is left.
LEMMA RemovedCarries ==
  ASSUME NEW ts \in Seq(Rows), NEW n, NEW S, Carries(ts, S),
         \A a, b \in S : a.name = b.name => a = b
  PROVE  Carries(Servers!Removed(ts, n), {a \in S : a.name # n})
<1>1. CASE \A k \in DOMAIN ts : ts[k].name # n
  <2>1. Servers!Removed(ts, n) = ts
    BY <1>1, NoneNamed
  <2> QED BY <1>1, <2>1 DEF Carries
<1>2. CASE \E k \in DOMAIN ts : ts[k].name = n
  <2> DEFINE rs == Servers!Removed(ts, n)
  <2>0. PICK m \in DOMAIN ts : ts[m].name = n
    BY <1>2
  <2>01. PICK i \in 1..Len(ts) : ts[i].name = n /\ i <= m /\ IsWithout(rs, ts, i)
    BY <2>0, RemovedFirst
  <2> HIDE DEF rs
  <2>1. /\ ts[i].name = n /\ rs \in Seq(Rows) /\ Len(rs) = Len(ts) - 1
        /\ \A j \in 1..(Len(ts) - 1) : rs[j] = IF j < i THEN ts[j] ELSE ts[j + 1]
    BY <2>01 DEF IsWithout
  <2>2. Len(ts) \in Nat /\ DOMAIN ts = 1..Len(ts) /\ DOMAIN rs = 1..(Len(ts) - 1)
    BY <2>1
  <2>3. ASSUME NEW j \in 1..Len(ts), ts[j].name = n PROVE j = i
    <3>1. ts[j] \in S /\ ts[i] \in S
      BY <2>1, <2>2 DEF Carries
    <3>2. ts[j] = ts[i]
      BY <2>1, <2>3, <3>1
    <3> QED BY <2>1, <2>2, <3>2 DEF Carries, Once
  <2>4. ASSUME NEW j \in DOMAIN rs
        PROVE  \E k \in DOMAIN ts : k # i /\ rs[j] = ts[k] /\ k = IF j < i THEN j ELSE j + 1
    <3>1. CASE j < i
      BY <2>1, <2>2, <3>1
    <3>2. CASE ~(j < i)
      <4>1. j + 1 \in DOMAIN ts /\ j + 1 # i
        BY <2>1, <2>2, <3>2
      <4> QED BY <2>1, <2>2, <3>2, <4>1
    <3> QED BY <3>1, <3>2
  <2>5. ASSUME NEW k \in DOMAIN ts, k # i PROVE \E j \in DOMAIN rs : rs[j] = ts[k]
    <3>1. CASE k < i
      <4>1. k \in 1..(Len(ts) - 1)
        BY <2>1, <2>2, <3>1
      <4> QED BY <2>1, <2>2, <3>1, <4>1
    <3>2. CASE k > i
      <4>1. k - 1 \in 1..(Len(ts) - 1) /\ ~(k - 1 < i) /\ (k - 1) + 1 = k
        BY <2>1, <2>2, <3>2
      <4>2. rs[k - 1] = ts[(k - 1) + 1]
        BY <2>1, <4>1
      <4> QED BY <2>2, <4>1, <4>2
    <3> QED BY <2>1, <2>2, <2>5, <3>1, <3>2
  <2>6. {rs[j] : j \in DOMAIN rs} = {a \in S : a.name # n}
    <3>1. ASSUME NEW j \in DOMAIN rs PROVE rs[j] \in S /\ rs[j].name # n
      BY <2>2, <2>3, <2>4 DEF Carries
    <3>2. ASSUME NEW a \in S, a.name # n PROVE \E j \in DOMAIN rs : rs[j] = a
      <4>1. PICK k \in DOMAIN ts : ts[k] = a
        BY DEF Carries
      <4> QED BY <2>1, <2>5, <3>2, <4>1
    <3> QED BY <3>1, <3>2
  <2>7. Once(rs)
    <3> SUFFICES ASSUME NEW j \in DOMAIN rs, NEW q \in DOMAIN rs, rs[j] = rs[q] PROVE j = q
      BY DEF Once
    <3>1. PICK k \in DOMAIN ts : rs[j] = ts[k] /\ k = IF j < i THEN j ELSE j + 1
      BY <2>4
    <3>2. PICK l \in DOMAIN ts : rs[q] = ts[l] /\ l = IF q < i THEN q ELSE q + 1
      BY <2>4
    <3>3. k = l
      BY <3>1, <3>2 DEF Carries, Once
    <3> QED BY <2>1, <2>2, <3>1, <3>2, <3>3
  <2> QED BY <2>6, <2>7 DEF Carries, rs
<1> QED BY <1>1, <1>2

LEMMA AppendCarries ==
  ASSUME NEW T, NEW ts \in Seq(T), NEW S, Carries(ts, S), NEW x \in T, x \notin S
  PROVE  Append(ts, x) \in Seq(T) /\ Carries(Append(ts, x), S \union {x})
<1> DEFINE us == Append(ts, x)
<1>1. /\ us \in Seq(T) /\ Len(ts) \in Nat /\ DOMAIN ts = 1..Len(ts) /\ DOMAIN us = 1..(Len(ts) + 1)
      /\ us[Len(ts) + 1] = x /\ \A i \in 1..Len(ts) : us[i] = ts[i]
  OBVIOUS
<1> HIDE DEF us
<1>2. \A i \in 1..Len(ts) : us[i] \in S
  BY <1>1 DEF Carries
<1>3. {us[i] : i \in DOMAIN us} = S \union {x}
  <2>1. ASSUME NEW i \in DOMAIN us PROVE us[i] \in S \union {x}
    BY <1>1, <1>2
  <2>2. ASSUME NEW a \in S PROVE \E i \in DOMAIN us : us[i] = a
    <3>1. PICK i \in DOMAIN ts : ts[i] = a
      BY DEF Carries
    <3> QED BY <1>1, <3>1
  <2>3. x \in {us[i] : i \in DOMAIN us}
    BY <1>1
  <2> QED BY <2>1, <2>2, <2>3
<1>4. Once(us)
  <2> SUFFICES ASSUME NEW i \in DOMAIN us, NEW j \in DOMAIN us, us[i] = us[j] PROVE i = j
    BY DEF Once
  <2>1. CASE i \in 1..Len(ts) /\ j \in 1..Len(ts)
    BY <1>1, <2>1 DEF Carries, Once
  <2>2. CASE i = Len(ts) + 1 \/ j = Len(ts) + 1
    BY <1>1, <1>2, <2>2
  <2> QED BY <1>1, <2>1, <2>2
<1> QED BY <1>1, <1>3, <1>4 DEF Carries, us

LEMMA TailCarries ==
  ASSUME NEW T, NEW ts \in Seq(T), ts # <<>>, NEW S, Carries(ts, S)
  PROVE  Head(ts) \in S /\ Carries(Tail(ts), S \ {Head(ts)})
<1> DEFINE us == Tail(ts)
           h == Head(ts)
<1>1. /\ us \in Seq(T) /\ Len(ts) \in Nat /\ Len(ts) >= 1 /\ DOMAIN ts = 1..Len(ts) /\ DOMAIN us = 1..(Len(ts) - 1)
      /\ h = ts[1] /\ \A i \in 1..(Len(ts) - 1) : us[i] = ts[i + 1]
  OBVIOUS
<1> HIDE DEF us, h
<1>2. ASSUME NEW i \in DOMAIN us PROVE us[i] \in S /\ us[i] # h
  <2>1. i + 1 \in DOMAIN ts /\ 1 \in DOMAIN ts /\ i + 1 # 1 /\ us[i] = ts[i + 1]
    BY <1>1
  <2> QED BY <1>1, <2>1 DEF Carries, Once
<1>3. ASSUME NEW a \in S, a # h PROVE \E i \in DOMAIN us : us[i] = a
  <2>1. PICK k \in DOMAIN ts : ts[k] = a
    BY DEF Carries
  <2>2. k - 1 \in DOMAIN us /\ (k - 1) + 1 = k
    BY <1>1, <1>3, <2>1
  <2> QED BY <1>1, <2>1, <2>2
<1>4. Once(us)
  <2> SUFFICES ASSUME NEW i \in DOMAIN us, NEW j \in DOMAIN us, us[i] = us[j] PROVE i = j
    BY DEF Once
  <2>1. i + 1 \in DOMAIN ts /\ j + 1 \in DOMAIN ts /\ ts[i + 1] = ts[j + 1] /\ i \in Int /\ j \in Int
    BY <1>1
  <2>2. i + 1 = j + 1
    BY <2>1 DEF Carries, Once
  <2> QED BY <2>1, <2>2
<1>5. h \in S
  BY <1>1 DEF Carries
<1>6. {us[i] : i \in DOMAIN us} = S \ {h}
  BY <1>2, <1>3
<1> QED BY <1>4, <1>5, <1>6 DEF Carries, us, h

---------------------------------------------------------------------------
(* a request alone keeps what is attached in step with the list *)

SyncWork ==
  [at : {"idle", "write", "remove", "renew", "attach"}, whole : BOOLEAN, next : Servers!Lists \union {None},
   todo : Seq(ServerNames), alone : BOOLEAN]
IsBusy(q) == serverRequest[q].at # "idle"


ServersTypeOK ==
  /\ serverFile \in Servers!Lists /\ configs \in Servers!Lists /\ transports \in Seq(Rows)
  /\ serverRequest \in [Syncs -> SyncWork] /\ torn \in BOOLEAN
  /\ \A q \in Syncs :
       /\ IsBusy(q) => serverRequest[q].next \in Servers!Lists
       /\ serverRequest[q].at \in {"renew", "attach"} => serverRequest[q].todo # <<>>

\* who is alone is the only one
SyncsAreAlone ==
  /\ \A p, q \in Syncs : IsBusy(p) /\ IsBusy(q) /\ serverRequest[p].alone => p = q
  /\ ~torn => \A q \in Syncs : IsBusy(q) => serverRequest[q].alone

InOrder == configs = serverFile /\ Carries(transports, Servers!Attached(serverFile))

\* the request takes one server from the list in memory
TakesOne(q) ==
  \E n \in ServerNames :
    serverRequest[q].next = [configs EXCEPT ![n] = None] /\ serverRequest[q].todo = <<n>>

InWrite(q) ==
  serverRequest[q].at = "write" => (~torn => InOrder) /\ (~serverRequest[q].whole => TakesOne(q))
InRemove(q) ==
  serverRequest[q].at = "remove" =>
    /\ serverFile = serverRequest[q].next
    /\ serverRequest[q].whole =>
         /\ Len(serverRequest[q].todo) = Len(transports)
         /\ \A i \in 1..Len(transports) : serverRequest[q].todo[i] = transports[i].name
    /\ ~serverRequest[q].whole /\ ~torn =>
         \/ serverRequest[q].todo = <<>> /\ Carries(transports, Servers!Attached(serverRequest[q].next))
         \/ TakesOne(q) /\ Carries(transports, Servers!Attached(configs))
InRenew(q) ==
  serverRequest[q].at \in {"renew", "attach"} =>
    /\ serverRequest[q].whole /\ serverFile = serverRequest[q].next /\ configs = serverRequest[q].next
    /\ Once(serverRequest[q].todo)
    /\ Entries(serverRequest[q].todo) \subseteq Servers!Enabled(serverRequest[q].next)
    /\ Carries(transports, {a \in Servers!Attached(serverRequest[q].next) :
                              a.name \notin Entries(serverRequest[q].todo)})
Orderly(q) == InWrite(q) /\ InRemove(q) /\ InRenew(q)

ServersIInv ==
  /\ ServersTypeOK /\ SyncsAreAlone
  /\ \A q \in Syncs : IsBusy(q) /\ serverRequest[q].alone => Orderly(q)
  /\ (\A q \in Syncs : ~IsBusy(q)) /\ ~torn => InOrder

LEMMA ServerConstants ==
  IsFiniteSet(ServerNames) /\ Off \notin ServerBodies /\ None \notin ServerBodies
<1>1. Servers!IsFiniteSet(ServerNames) <=> IsFiniteSet(ServerNames)
  BY DEF Servers!IsFiniteSet, IsFiniteSet
<1> QED BY <1>1, SettingsAssumption DEF Servers!ServersAssumption

LEMMA AttachedRows ==
  ASSUME NEW list \in Servers!Lists
  PROVE  /\ Servers!Attached(list) \subseteq Rows
         /\ \A a, b \in Servers!Attached(list) : a.name = b.name => a = b
         /\ \A a \in Servers!Attached(list) : a.name \in Servers!Enabled(list)
         /\ IsFiniteSet(Servers!Attached(list)) /\ IsFiniteSet(Servers!Enabled(list))
         /\ Servers!Enabled(list) \subseteq ServerNames
<1> DEFINE names == Servers!Enabled(list)
           f == [n \in names |-> [name |-> n, body |-> list[n]]]
<1>1. names \subseteq ServerNames /\ IsFiniteSet(names)
  BY ServerConstants, FS_Subset DEF Servers!Enabled
<1>2. Servers!Attached(list) = {[name |-> n, body |-> list[n]] : n \in names}
  BY DEF Servers!Attached
<1>3. \A n \in names : [name |-> n, body |-> list[n]] \in Rows
  BY <1>1 DEF Rows, Servers!Lists
<1>4. f \in Surjection(names, Servers!Attached(list))
  <2>1. f \in [names -> Servers!Attached(list)]
    BY <1>2
  <2>2. \A a \in Servers!Attached(list) : \E n \in names : f[n] = a
    BY <1>2
  <2> QED BY <2>1, <2>2 DEF Surjection
<1>5. IsFiniteSet(Servers!Attached(list))
  BY <1>1, <1>4, FS_Surjection
<1> HIDE DEF names
<1> QED BY <1>1, <1>2, <1>3, <1>5 DEF names

LEMMA OneLess ==
  ASSUME NEW list \in Servers!Lists, NEW n \in ServerNames
  PROVE  /\ [list EXCEPT ![n] = None] \in Servers!Lists
         /\ Servers!Attached([list EXCEPT ![n] = None]) = {a \in Servers!Attached(list) : a.name # n}
<1> DEFINE less == [list EXCEPT ![n] = None]
<1>1. /\ less \in Servers!Lists /\ less[n] = None /\ \A k \in ServerNames \ {n} : less[k] = list[k]
  BY DEF Servers!Lists
<1> HIDE DEF less
<1>2. Servers!Enabled(less) = Servers!Enabled(list) \ {n}
  BY <1>1 DEF Servers!Enabled
<1>3. ASSUME NEW a \in Servers!Attached(less) PROVE a \in Servers!Attached(list) /\ a.name # n
  BY <1>1, <1>2 DEF Servers!Attached, Servers!Enabled
<1>4. ASSUME NEW a \in Servers!Attached(list), a.name # n PROVE a \in Servers!Attached(less)
  <2>1. PICK k \in Servers!Enabled(list) : a = [name |-> k, body |-> list[k]]
    BY DEF Servers!Attached
  <2>2. k # n /\ k \in ServerNames
    BY <1>4, <2>1 DEF Servers!Enabled
  <2>3. k \in Servers!Enabled(less) /\ less[k] = list[k]
    BY <1>1, <1>2, <2>1, <2>2
  <2> QED BY <2>1, <2>3 DEF Servers!Attached
<1> QED BY <1>1, <1>3, <1>4 DEF less

\* Who is at work moves on: it is enough that it stays in order if it is alone.
LEMMA OneSyncMoves ==
  ASSUME ServersIInv, NEW q \in Syncs, NEW w \in SyncWork, IsBusy(q),
         serverRequest' = [serverRequest EXCEPT ![q] = w],
         w.at # "idle" => w.alone = serverRequest[q].alone /\ w.next \in Servers!Lists,
         w.at \in {"renew", "attach"} => w.todo # <<>>,
         serverFile' \in Servers!Lists, configs' \in Servers!Lists, transports' \in Seq(Rows),
         torn' = torn \/ (torn' = FALSE /\ serverRequest[q].alone /\ w.at = "idle"),
         serverRequest[q].alone =>
           (w.at # "idle" => Orderly(q)') /\ (w.at = "idle" /\ ~torn' => InOrder')
  PROVE  ServersIInv'
<1>1. /\ serverRequest \in [Syncs -> SyncWork] /\ torn \in BOOLEAN
      /\ \A p \in Syncs :
           /\ IsBusy(p) => serverRequest[p].next \in Servers!Lists
           /\ serverRequest[p].at \in {"renew", "attach"} => serverRequest[p].todo # <<>>
  BY DEF ServersIInv, ServersTypeOK
<1>2. /\ serverRequest' \in [Syncs -> SyncWork] /\ serverRequest'[q] = w
      /\ \A p \in Syncs \ {q} : serverRequest'[p] = serverRequest[p]
  BY <1>1
<1>3. /\ \A p \in Syncs : IsBusy(p)' => IsBusy(p) /\ serverRequest'[p].alone = serverRequest[p].alone
      /\ (IsBusy(q)' <=> w.at # "idle")
  BY <1>2 DEF IsBusy
<1>4. ServersTypeOK'
  <2>1. torn' \in BOOLEAN
    BY <1>1
  <2>2. ASSUME NEW p \in Syncs
        PROVE  /\ IsBusy(p)' => serverRequest'[p].next \in Servers!Lists
               /\ serverRequest'[p].at \in {"renew", "attach"} => serverRequest'[p].todo # <<>>
    <3>1. CASE p = q
      BY <1>2, <3>1 DEF IsBusy
    <3>2. CASE p # q
      BY <1>1, <1>2, <3>2 DEF IsBusy
    <3> QED BY <3>1, <3>2
  <2>3. Servers!Lists' = Servers!Lists
    BY DEF Servers!Lists
  <2> QED BY <1>2, <2>1, <2>2, <2>3 DEF ServersTypeOK
<1>5. ASSUME serverRequest[q].alone, NEW p \in Syncs, p # q PROVE ~IsBusy(p) /\ ~IsBusy(p)'
  BY <1>3, <1>5 DEF ServersIInv, SyncsAreAlone
<1>6. SyncsAreAlone'
  <2>1. \A p, s \in Syncs : IsBusy(p)' /\ IsBusy(s)' /\ serverRequest'[p].alone => p = s
    BY <1>3 DEF ServersIInv, SyncsAreAlone
  <2>2. ASSUME ~torn', NEW p \in Syncs, IsBusy(p)' PROVE serverRequest'[p].alone
    <3>1. CASE torn' = torn
      BY <1>3, <2>2, <3>1 DEF ServersIInv, SyncsAreAlone
    <3>2. CASE serverRequest[q].alone /\ w.at = "idle"
      BY <1>3, <1>5, <2>2, <3>2
    <3> QED BY <3>1, <3>2
  <2> QED BY <2>1, <2>2 DEF SyncsAreAlone
<1>7. ASSUME NEW p \in Syncs, IsBusy(p)', serverRequest'[p].alone PROVE Orderly(p)'
  <2>1. p = q /\ serverRequest[q].alone
    BY <1>3, <1>7 DEF ServersIInv, SyncsAreAlone
  <2> QED BY <1>3, <1>7, <2>1
<1>8. ASSUME \A p \in Syncs : ~IsBusy(p)', ~torn' PROVE InOrder'
  <2>1. w.at = "idle"
    BY <1>3, <1>8
  <2>2. serverRequest[q].alone
    BY <1>8 DEF ServersIInv, SyncsAreAlone
  <2> QED BY <1>8, <2>1, <2>2
<1> QED BY <1>4, <1>6, <1>7, <1>8 DEF ServersIInv

LEMMA SyncFields ==
  ASSUME ServersIInv, NEW q \in Syncs
  PROVE  /\ serverRequest[q] \in SyncWork /\ serverRequest \in [Syncs -> SyncWork]
         /\ serverRequest[q].todo \in Seq(ServerNames) /\ serverRequest[q].alone \in BOOLEAN
         /\ IsBusy(q) => serverRequest[q].next \in Servers!Lists
         /\ serverFile \in Servers!Lists /\ configs \in Servers!Lists /\ transports \in Seq(Rows)
         /\ torn \in BOOLEAN
BY DEF ServersIInv, ServersTypeOK, SyncWork

LEMMA IdleSync == Servers!Idle \in SyncWork /\ Servers!Idle.at = "idle"
<1>1. <<>> \in Seq(ServerNames)
  OBVIOUS
<1> QED BY <1>1 DEF Servers!Idle, SyncWork

\* A request comes.
LEMMA ServerRequestComes ==
  ASSUME ServersIInv, NEW q \in Syncs, NEW whole \in BOOLEAN, NEW list \in Servers!Lists,
         NEW gone \in Seq(ServerNames), Servers!Begin(q, whole, list, gone),
         ~whole => \E n \in ServerNames : list = [configs EXCEPT ![n] = None] /\ gone = <<n>>
  PROVE  ServersIInv'
<1> DEFINE w == [at |-> "write", whole |-> whole, next |-> list, todo |-> gone, alone |-> Servers!Busy = {}]
<1>1. /\ ~IsBusy(q)
      /\ serverRequest' = [p \in Syncs |->
           IF p = q THEN w
           ELSE [serverRequest[p] EXCEPT !.alone = serverRequest[p].alone /\ serverRequest[p].at = "idle"]]
      /\ torn' = (torn \/ Servers!Busy # {})
      /\ UNCHANGED <<serverFile, configs, transports>>
  BY DEF Servers!Begin, IsBusy
<1>2. /\ serverRequest \in [Syncs -> SyncWork] /\ torn \in BOOLEAN
      /\ serverFile \in Servers!Lists /\ configs \in Servers!Lists /\ transports \in Seq(Rows)
  BY DEF ServersIInv, ServersTypeOK
<1>3. /\ w \in SyncWork /\ w.at = "write" /\ w.whole = whole /\ w.next = list /\ w.todo = gone
      /\ w.alone = (Servers!Busy = {})
  BY DEF SyncWork
<1> HIDE DEF w
<1>4. ASSUME NEW p \in Syncs, p # q
      PROVE  /\ serverRequest'[p] \in SyncWork /\ serverRequest'[p].at = serverRequest[p].at
             /\ serverRequest'[p].next = serverRequest[p].next /\ serverRequest'[p].todo = serverRequest[p].todo
             /\ (serverRequest'[p].at # "idle" => ~serverRequest'[p].alone)
  <2>1. /\ serverRequest[p] \in SyncWork
        /\ serverRequest'[p] = [serverRequest[p] EXCEPT !.alone = serverRequest[p].alone /\ serverRequest[p].at = "idle"]
    BY <1>1, <1>2, <1>4
  <2>2. (serverRequest[p].alone /\ serverRequest[p].at = "idle") \in BOOLEAN
    OBVIOUS
  <2> QED BY <2>1, <2>2 DEF SyncWork
<1>5. serverRequest'[q] = w
  BY <1>1
<1>6. serverRequest' \in [Syncs -> SyncWork]
  BY <1>1, <1>3, <1>4
<1>7. ServersTypeOK'
  <2>1. ASSUME NEW p \in Syncs
        PROVE  /\ IsBusy(p)' => serverRequest'[p].next \in Servers!Lists
               /\ serverRequest'[p].at \in {"renew", "attach"} => serverRequest'[p].todo # <<>>
    <3>1. CASE p = q
      BY <1>3, <1>5, <3>1
    <3>2. CASE p # q
      BY <1>4, <3>2 DEF ServersIInv, ServersTypeOK, IsBusy
    <3> QED BY <3>1, <3>2
  <2>2. torn' \in BOOLEAN
    BY <1>1
  <2>3. Servers!Lists' = Servers!Lists
    BY DEF Servers!Lists
  <2> QED BY <1>1, <1>2, <1>6, <2>1, <2>2, <2>3 DEF ServersTypeOK
<1>8. Servers!Busy = {} <=> \A p \in Syncs : ~IsBusy(p)
  BY DEF Servers!Busy, IsBusy
<1>9. IsBusy(q)' /\ \A p \in Syncs : p # q => (IsBusy(p)' <=> IsBusy(p))
  BY <1>3, <1>4, <1>5 DEF IsBusy
<1>10. \A p \in Syncs : IsBusy(p)' /\ serverRequest'[p].alone => p = q /\ Servers!Busy = {}
  BY <1>3, <1>4, <1>5 DEF IsBusy
<1>11. SyncsAreAlone'
  <2>1. \A p, s \in Syncs : IsBusy(p)' /\ IsBusy(s)' /\ serverRequest'[p].alone => p = s
    BY <1>8, <1>9, <1>10
  <2>2. ASSUME ~torn', NEW p \in Syncs, IsBusy(p)' PROVE serverRequest'[p].alone
    BY <1>1, <1>3, <1>5, <1>8, <1>9, <2>2
  <2> QED BY <2>1, <2>2 DEF SyncsAreAlone
<1>12. ASSUME NEW p \in Syncs, IsBusy(p)', serverRequest'[p].alone PROVE Orderly(p)'
  <2>1. p = q /\ \A s \in Syncs : ~IsBusy(s)
    BY <1>8, <1>10, <1>12
  <2>2. ~torn' => InOrder'
    BY <1>1, <2>1 DEF ServersIInv, InOrder
  <2>3. ~whole => TakesOne(q)'
    BY <1>1, <1>3, <1>5 DEF TakesOne
  <2>4. InWrite(q)'
    BY <1>3, <1>5, <2>2, <2>3 DEF InWrite
  <2>5. InRemove(q)' /\ InRenew(q)'
    BY <1>3, <1>5 DEF InRemove, InRenew
  <2> QED BY <2>1, <2>4, <2>5 DEF Orderly
<1> QED BY <1>7, <1>9, <1>11, <1>12 DEF ServersIInv

LEMMA PostKeeps ==
  ASSUME ServersIInv, NEW q \in Syncs, Servers!Post(q)
  PROVE  ServersIInv'
<1>1. PICK list \in Servers!Lists : Servers!Begin(q, TRUE, list, <<>>)
  BY DEF Servers!Post
<1>2. <<>> \in Seq(ServerNames)
  OBVIOUS
<1> QED BY <1>1, <1>2, ServerRequestComes

LEMMA DeleteKeeps ==
  ASSUME ServersIInv, NEW q \in Syncs, Servers!Delete(q)
  PROVE  ServersIInv'
<1>1. PICK n \in ServerNames : Servers!Begin(q, FALSE, [configs EXCEPT ![n] = None], <<n>>)
  BY DEF Servers!Delete
<1> DEFINE list == [configs EXCEPT ![n] = None]
           gone == <<n>>
<1>2. list \in Servers!Lists /\ gone \in Seq(ServerNames)
  <2>1. configs \in Servers!Lists
    BY SyncFields
  <2>2. list \in Servers!Lists
    BY <2>1, OneLess
  <2>3. gone \in Seq(ServerNames)
    OBVIOUS
  <2> QED BY <2>2, <2>3
<1>3. \E k \in ServerNames : list = [configs EXCEPT ![k] = None] /\ gone = <<k>>
  OBVIOUS
<1>4. Servers!Begin(q, FALSE, list, gone)
  BY <1>1
<1> HIDE DEF list, gone
<1> QED BY <1>2, <1>3, <1>4, ServerRequestComes

LEMMA WrittenKeeps ==
  ASSUME ServersIInv, NEW q \in Syncs, Servers!Written(q)
  PROVE  ServersIInv'
<1> DEFINE r == serverRequest[q]
           todo == Servers!ToRemove(q)
           w == [r EXCEPT !.at = "remove", !.todo = todo]
<1>1. /\ r.at = "write" /\ serverFile' = r.next /\ serverRequest' = [serverRequest EXCEPT ![q] = w]
      /\ UNCHANGED <<configs, transports, torn>>
  BY DEF Servers!Written, Servers!To
<1>2. /\ r \in SyncWork /\ r.next \in Servers!Lists /\ IsBusy(q)
      /\ configs \in Servers!Lists /\ transports \in Seq(Rows) /\ torn \in BOOLEAN
      /\ serverRequest \in [Syncs -> SyncWork] /\ r.todo \in Seq(ServerNames)
  BY <1>1, SyncFields DEF IsBusy
<1>3. /\ todo \in Seq(ServerNames)
      /\ r.whole => Len(todo) = Len(transports) /\ \A i \in 1..Len(transports) : todo[i] = transports[i].name
      /\ ~r.whole => todo = r.todo
  <2>1. CASE r.whole
    <3>1. todo = [i \in 1..Len(transports) |-> transports[i].name]
      BY <1>2, <2>1 DEF Servers!ToRemove
    <3>2. Len(transports) \in Nat /\ \A i \in 1..Len(transports) : transports[i].name \in ServerNames
      <4>1. Len(transports) \in Nat
        BY <1>2
      <4>2. ASSUME NEW i \in 1..Len(transports) PROVE transports[i].name \in ServerNames
        <5>1. transports[i] \in Rows
          BY <1>2, <4>2, ElementOfSeq
        <5> QED BY <5>1 DEF Rows
      <4> QED BY <4>1, <4>2
    <3> QED BY <2>1, <3>1, <3>2
  <2>2. CASE ~r.whole
    BY <1>2, <2>2 DEF Servers!ToRemove
  <2> QED BY <2>1, <2>2
<1> HIDE DEF todo
<1>4. /\ w \in SyncWork /\ w.at = "remove" /\ w.next = r.next /\ w.alone = r.alone /\ w.whole = r.whole
      /\ w.todo = todo
  BY <1>2, <1>3 DEF SyncWork
<1> HIDE DEF w
<1>5. serverRequest'[q] = w
  BY <1>1, <1>2
<1>6. ASSUME r.alone PROVE Orderly(q)'
  <2>1. InWrite(q)
    BY <1>2, <1>6 DEF ServersIInv, Orderly
  <2>2. ~r.whole /\ ~torn => TakesOne(q)' /\ Carries(transports, Servers!Attached(configs))
    BY <1>1, <1>3, <1>4, <1>5, <2>1 DEF InWrite, TakesOne, InOrder
  <2>3. InRemove(q)'
    BY <1>1, <1>3, <1>4, <1>5, <2>2 DEF InRemove
  <2>4. InWrite(q)' /\ InRenew(q)'
    BY <1>4, <1>5 DEF InWrite, InRenew
  <2> QED BY <2>3, <2>4 DEF Orderly
<1> QED BY <1>1, <1>2, <1>4, <1>6, OneSyncMoves

LEMMA ServerWriteFails ==
  ASSUME ServersIInv, NEW q \in Syncs, Servers!WriteFails(q)
  PROVE  ServersIInv'
<1> DEFINE w == Servers!Idle
<1>1. /\ serverRequest[q].at = "write" /\ serverRequest' = [serverRequest EXCEPT ![q] = w]
      /\ UNCHANGED <<serverFile, configs, transports, torn>>
  BY DEF Servers!WriteFails, Servers!To
<1>2. /\ IsBusy(q) /\ w \in SyncWork /\ w.at = "idle" /\ torn \in BOOLEAN
      /\ serverFile \in Servers!Lists /\ configs \in Servers!Lists /\ transports \in Seq(Rows)
  BY <1>1, SyncFields, IdleSync DEF IsBusy
<1> HIDE DEF w
<1>3. ASSUME serverRequest[q].alone, ~torn PROVE InOrder'
  BY <1>1, <1>2, <1>3 DEF ServersIInv, Orderly, InWrite, InOrder
<1> QED BY <1>1, <1>2, <1>3, OneSyncMoves

LEMMA RemoveServerKeeps ==
  ASSUME ServersIInv, NEW q \in Syncs, Servers!RemoveServer(q)
  PROVE  ServersIInv'
<1> DEFINE r == serverRequest[q]
           w == [r EXCEPT !.todo = Tail(r.todo)]
           n == Head(r.todo)
<1>1. /\ r.at = "remove" /\ r.todo # <<>> /\ transports' = Servers!Removed(transports, n)
      /\ UNCHANGED <<serverFile, configs, torn>>
  BY DEF Servers!RemoveServer
<1>2. /\ r \in SyncWork /\ r.next \in Servers!Lists /\ IsBusy(q)
      /\ serverFile \in Servers!Lists /\ configs \in Servers!Lists /\ transports \in Seq(Rows)
      /\ torn \in BOOLEAN /\ serverRequest \in [Syncs -> SyncWork] /\ r.todo \in Seq(ServerNames)
  BY <1>1, SyncFields DEF IsBusy
<1>3. serverRequest' = [serverRequest EXCEPT ![q] = w]
  BY DEF Servers!RemoveServer, Servers!To
<1>4. Tail(r.todo) \in Seq(ServerNames)
  BY <1>1, <1>2
<1>5. /\ w \in SyncWork /\ w.at = "remove" /\ w.next = r.next /\ w.alone = r.alone /\ w.whole = r.whole
      /\ w.todo = Tail(r.todo)
  BY <1>1, <1>2, <1>4 DEF SyncWork
<1>6. transports' \in Seq(Rows)
  BY <1>1, <1>2, RemovedIsSeq
<1> HIDE DEF w
<1>7. serverRequest'[q] = w
  BY <1>2, <1>3
<1>8. ASSUME r.alone PROVE Orderly(q)'
  <2>1. InRemove(q)
    BY <1>2, <1>8 DEF ServersIInv, Orderly
  <2>2. ASSUME r.whole
        PROVE  /\ Len(Tail(r.todo)) = Len(transports')
               /\ \A i \in 1..Len(transports') : Tail(r.todo)[i] = transports'[i].name
    <3>1. /\ Len(r.todo) = Len(transports) /\ \A i \in 1..Len(transports) : r.todo[i] = transports[i].name
      BY <1>1, <2>1, <2>2 DEF InRemove
    <3>2. Len(r.todo) \in Nat /\ Len(r.todo) >= 1
      BY <1>1, <1>2
    <3>3. 1 \in DOMAIN transports /\ transports[1].name = n
      BY <1>1, <1>2, <3>1, <3>2
    <3> HIDE DEF n
    <3>4. PICK i \in 1..Len(transports) : i <= 1 /\ IsWithout(Servers!Removed(transports, n), transports, i)
      BY <1>2, <3>3, RemovedFirst
    <3>5. i = 1
      BY <3>1, <3>2, <3>4
    <3>6. /\ Len(transports') = Len(transports) - 1
          /\ \A j \in 1..(Len(transports) - 1) : transports'[j] = transports[j + 1]
      BY <1>1, <3>4, <3>5 DEF IsWithout
    <3>7. /\ Len(Tail(r.todo)) = Len(r.todo) - 1
          /\ \A j \in 1..(Len(r.todo) - 1) : Tail(r.todo)[j] = r.todo[j + 1]
      BY <1>1, <1>2
    <3>8. ASSUME NEW j \in 1..Len(transports') PROVE Tail(r.todo)[j] = transports'[j].name
      <4>1. j \in 1..(Len(transports) - 1) /\ j + 1 \in 1..Len(transports)
        BY <3>1, <3>2, <3>6
      <4> QED BY <3>1, <3>6, <3>7, <4>1
    <3> QED BY <3>1, <3>6, <3>7, <3>8
  <2>3. ASSUME ~r.whole, ~torn
        PROVE  Tail(r.todo) = <<>> /\ Carries(transports', Servers!Attached(r.next))
    <3>1. TakesOne(q) /\ Carries(transports, Servers!Attached(configs))
      BY <1>1, <2>1, <2>3 DEF InRemove
    <3>2. PICK k \in ServerNames : r.next = [configs EXCEPT ![k] = None] /\ r.todo = <<k>>
      BY <3>1 DEF TakesOne
    <3>3. n = k /\ Tail(r.todo) = <<>>
      BY <3>2
    <3>4. Servers!Attached(r.next) = {a \in Servers!Attached(configs) : a.name # k}
      BY <1>2, <3>2, OneLess
    <3>5. transports' = Servers!Removed(transports, k)
      BY <1>1, <3>3
    <3>6. Carries(Servers!Removed(transports, k), {a \in Servers!Attached(configs) : a.name # k})
      BY <1>2, <3>1, AttachedRows, RemovedCarries
    <3> QED BY <3>3, <3>4, <3>5, <3>6
  <2>4. InRemove(q)'
    BY <1>1, <1>5, <1>7, <2>1, <2>2, <2>3 DEF InRemove
  <2>5. InWrite(q)' /\ InRenew(q)'
    BY <1>5, <1>7 DEF InWrite, InRenew
  <2> QED BY <2>4, <2>5 DEF Orderly
<1> QED BY <1>1, <1>2, <1>3, <1>5, <1>6, <1>8, OneSyncMoves

LEMMA KeepKeeps ==
  ASSUME ServersIInv, NEW q \in Syncs, Servers!Keep(q)
  PROVE  ServersIInv'
<1> DEFINE r == serverRequest[q]
           todo == IF r.whole THEN Servers!SetToSeq(Servers!Enabled(r.next)) ELSE <<>>
<1>1. /\ r.at = "remove" /\ r.todo = <<>> /\ configs' = r.next
      /\ UNCHANGED <<serverFile, transports>>
  BY DEF Servers!Keep
<1>2. /\ r \in SyncWork /\ r.next \in Servers!Lists /\ IsBusy(q)
      /\ serverFile \in Servers!Lists /\ configs \in Servers!Lists /\ transports \in Seq(Rows)
      /\ torn \in BOOLEAN /\ serverRequest \in [Syncs -> SyncWork]
  BY <1>1, SyncFields DEF IsBusy
<1>3. /\ todo \in Seq(ServerNames)
      /\ r.whole => Carries(todo, Servers!Enabled(r.next))
      /\ ~r.whole => todo = <<>>
  <2>1. CASE r.whole
    <3>1. IsFiniteSet(Servers!Enabled(r.next)) /\ Servers!Enabled(r.next) \subseteq ServerNames
      BY <1>2, AttachedRows
    <3>2. todo \in Seq(Servers!Enabled(r.next)) /\ Carries(todo, Servers!Enabled(r.next))
      BY <2>1, <3>1, SetToSeqCarries
    <3> HIDE DEF todo
    <3>3. todo \in Seq(ServerNames)
      BY <3>1, <3>2
    <3> QED BY <2>1, <3>2, <3>3
  <2>2. CASE ~r.whole
    <3>1. todo = <<>>
      BY <2>2
    <3>2. <<>> \in Seq(ServerNames)
      OBVIOUS
    <3> QED BY <2>2, <3>1, <3>2
  <2> QED BY <1>2, <2>1, <2>2 DEF SyncWork
<1>4. /\ todo = <<>> => Servers!Ends(q)
      /\ todo # <<>> => Servers!To(q, [r EXCEPT !.at = "renew", !.todo = todo]) /\ torn' = torn
  BY DEF Servers!Keep
<1> HIDE DEF todo
<1>5. r.alone => serverFile = r.next
  BY <1>1, <1>2 DEF ServersIInv, Orderly, InRemove
\* the removals have left nothing
<1>6. r.alone /\ r.whole => transports = <<>>
  <2>1. ASSUME r.alone, r.whole PROVE Len(transports) = 0
    BY <1>1, <1>2, <2>1 DEF ServersIInv, Orderly, InRemove
  <2> QED BY <1>2, <2>1
<1>7. ASSUME r.alone, ~r.whole, ~torn PROVE Carries(transports, Servers!Attached(r.next))
  <2>1. ~TakesOne(q)
    BY <1>1 DEF TakesOne
  <2> QED BY <1>1, <1>2, <1>7, <2>1 DEF ServersIInv, Orderly, InRemove
<1>8. CASE todo = <<>>
  <2> DEFINE w == Servers!Idle
  <2>1. /\ serverRequest' = [serverRequest EXCEPT ![q] = w] /\ torn' = (torn /\ ~(r.whole /\ r.alone))
    BY <1>4, <1>8 DEF Servers!Ends, Servers!To
  <2>2. w \in SyncWork /\ w.at = "idle"
    BY IdleSync
  <2> HIDE DEF w
  <2>3. torn' = torn \/ (torn' = FALSE /\ r.alone /\ w.at = "idle")
    BY <1>2, <2>1, <2>2
  <2>4. ASSUME r.alone, ~torn' PROVE InOrder'
    <3>1. CASE r.whole
      <4>1. Servers!Enabled(r.next) = {}
        BY <1>3, <1>8, <3>1 DEF Carries
      <4>2. Servers!Attached(r.next) = {}
        BY <4>1 DEF Servers!Attached
      <4>3. Carries(transports, {})
        BY <1>6, <2>4, <3>1 DEF Carries, Once
      <4>4. Carries(transports, Servers!Attached(r.next))
        BY <4>2, <4>3
      <4> QED BY <1>1, <1>5, <2>4, <4>4 DEF InOrder
    <3>2. CASE ~r.whole
      BY <1>1, <1>5, <1>7, <2>1, <2>4, <3>2 DEF InOrder
    <3> QED BY <3>1, <3>2
  <2> QED BY <1>1, <1>2, <2>1, <2>2, <2>3, <2>4, OneSyncMoves
<1>9. CASE todo # <<>>
  <2> DEFINE w == [r EXCEPT !.at = "renew", !.todo = todo]
  <2>1. serverRequest' = [serverRequest EXCEPT ![q] = w] /\ torn' = torn
    BY <1>4, <1>9 DEF Servers!To
  <2>2. /\ w \in SyncWork /\ w.at = "renew" /\ w.next = r.next /\ w.alone = r.alone /\ w.whole = r.whole
        /\ w.todo = todo
    BY <1>2, <1>3 DEF SyncWork
  <2> HIDE DEF w
  <2>3. serverRequest'[q] = w
    BY <1>2, <2>1
  <2>4. r.whole
    BY <1>3, <1>9
  <2>5. ASSUME r.alone PROVE Orderly(q)'
    <3>1. Entries(todo) = Servers!Enabled(r.next) /\ Once(todo)
      BY <1>3, <2>4 DEF Carries, Entries
    <3>2. {a \in Servers!Attached(r.next) : a.name \notin Entries(todo)} = {}
      BY <1>2, <3>1, AttachedRows
    <3>3. Carries(transports, {})
      BY <1>6, <2>4, <2>5 DEF Carries, Once
    <3>4. Carries(transports, {a \in Servers!Attached(r.next) : a.name \notin Entries(todo)})
      BY <3>2, <3>3
    <3>5. InRenew(q)'
      BY <1>1, <1>5, <2>2, <2>3, <2>4, <2>5, <3>1, <3>4 DEF InRenew
    <3>6. InWrite(q)' /\ InRemove(q)'
      BY <2>2, <2>3 DEF InWrite, InRemove
    <3> QED BY <3>5, <3>6 DEF Orderly
  <2> QED BY <1>1, <1>2, <1>9, <2>1, <2>2, <2>5, OneSyncMoves
<1> QED BY <1>8, <1>9

\* Nothing has the name, as every server was taken away.
LEMMA RenewKeeps ==
  ASSUME ServersIInv, NEW q \in Syncs, Servers!Renew(q)
  PROVE  ServersIInv'
<1> DEFINE r == serverRequest[q]
           w == [r EXCEPT !.at = "attach"]
           n == Head(r.todo)
<1>1. /\ r.at = "renew" /\ transports' = Servers!Removed(transports, n)
      /\ UNCHANGED <<serverFile, configs, torn>>
      /\ serverRequest' = [serverRequest EXCEPT ![q] = w]
  BY DEF Servers!Renew, Servers!To
<1>2. /\ r \in SyncWork /\ r.next \in Servers!Lists /\ IsBusy(q)
      /\ serverFile \in Servers!Lists /\ configs \in Servers!Lists /\ transports \in Seq(Rows)
      /\ torn \in BOOLEAN /\ serverRequest \in [Syncs -> SyncWork] /\ r.todo \in Seq(ServerNames)
  BY <1>1, SyncFields DEF IsBusy
<1>3. r.todo # <<>>
  BY <1>1 DEF ServersIInv, ServersTypeOK
<1>4. /\ w \in SyncWork /\ w.at = "attach" /\ w.next = r.next /\ w.alone = r.alone /\ w.whole = r.whole
      /\ w.todo = r.todo
  BY <1>2 DEF SyncWork
<1> HIDE DEF w
<1>5. serverRequest'[q] = w
  BY <1>1, <1>2
<1>6. transports' \in Seq(Rows)
  BY <1>1, <1>2, RemovedIsSeq
<1>7. ASSUME r.alone PROVE Orderly(q)'
  <2>1. InRenew(q)
    BY <1>2, <1>7 DEF ServersIInv, Orderly
  <2>2. n \in Entries(r.todo)
    <3>1. 1 \in DOMAIN r.todo /\ n = r.todo[1]
      BY <1>2, <1>3
    <3> QED BY <3>1 DEF Entries
  <2>3. \A k \in DOMAIN transports : transports[k].name # n
    BY <1>1, <2>1, <2>2 DEF InRenew, Carries
  <2> HIDE DEF n
  <2>4. transports' = transports
    BY <1>1, <2>3, NoneNamed
  <2>5. InRenew(q)'
    BY <1>1, <1>4, <1>5, <2>1, <2>4 DEF InRenew
  <2>6. InWrite(q)' /\ InRemove(q)'
    BY <1>4, <1>5 DEF InWrite, InRemove
  <2> QED BY <2>5, <2>6 DEF Orderly
<1> QED BY <1>1, <1>2, <1>3, <1>4, <1>6, <1>7, OneSyncMoves

\* The server attached is the one the list in memory has under the name.
LEMMA AttachedMore ==
  ASSUME NEW list \in Servers!Lists, NEW todo \in Seq(ServerNames), todo # <<>>, Once(todo),
         Entries(todo) \subseteq Servers!Enabled(list), NEW ts \in Seq(Rows),
         Carries(ts, {a \in Servers!Attached(list) : a.name \notin Entries(todo)})
  PROVE  LET x == [name |-> Head(todo), body |-> list[Head(todo)]] IN
         /\ Append(ts, x) \in Seq(Rows) /\ Once(Tail(todo)) /\ Entries(Tail(todo)) = Entries(todo) \ {Head(todo)}
         /\ Carries(Append(ts, x), {a \in Servers!Attached(list) : a.name \notin Entries(Tail(todo))})
<1> DEFINE n == Head(todo)
           x == [name |-> n, body |-> list[n]]
           S == {a \in Servers!Attached(list) : a.name \notin Entries(todo)}
           more == {a \in Servers!Attached(list) : a.name \notin Entries(Tail(todo))}
<1>1. Carries(todo, Entries(todo))
  BY DEF Carries, Entries
<1>2. n \in Entries(todo) /\ Carries(Tail(todo), Entries(todo) \ {n})
  BY <1>1, TailCarries
<1>3. Once(Tail(todo)) /\ Entries(Tail(todo)) = Entries(todo) \ {n}
  BY <1>2 DEF Carries, Entries
<1>4. n \in Servers!Enabled(list)
  BY <1>2
<1> HIDE DEF n
<1>5. x \in Servers!Attached(list) /\ x.name = n
  BY <1>4 DEF Servers!Attached
<1>6. x \in Rows
  BY <1>5, AttachedRows
<1> HIDE DEF x
<1>7. x \notin S
  BY <1>2, <1>5
<1>8. more = S \union {x}
  <2>1. \A a \in Servers!Attached(list) : a.name = n => a = x
    BY <1>5, AttachedRows
  <2> QED BY <1>2, <1>3, <1>5, <2>1
<1>9. Append(ts, x) \in Seq(Rows) /\ Carries(Append(ts, x), S \union {x})
  <2>1. Carries(ts, S)
    OBVIOUS
  <2> HIDE DEF S
  <2> QED BY <1>6, <1>7, <2>1, AppendCarries
<1>10. Carries(Append(ts, x), more)
  BY <1>8, <1>9
<1> HIDE DEF more
<1> QED BY <1>3, <1>9, <1>10 DEF n, x, more

LEMMA AttachKeeps ==
  ASSUME ServersIInv, NEW q \in Syncs, Servers!Attach(q)
  PROVE  ServersIInv'
<1> DEFINE r == serverRequest[q]
           n == Head(r.todo)
           x == [name |-> n, body |-> r.next[n]]
<1>1. /\ r.at = "attach" /\ transports' = Append(transports, x)
      /\ UNCHANGED <<serverFile, configs>>
      /\ IF Len(r.todo) = 1 THEN Servers!Ends(q)
         ELSE Servers!To(q, [r EXCEPT !.at = "renew", !.todo = Tail(r.todo)]) /\ torn' = torn
  BY DEF Servers!Attach
<1>2. /\ r \in SyncWork /\ r.next \in Servers!Lists /\ IsBusy(q)
      /\ serverFile \in Servers!Lists /\ configs \in Servers!Lists /\ transports \in Seq(Rows)
      /\ torn \in BOOLEAN /\ serverRequest \in [Syncs -> SyncWork] /\ r.todo \in Seq(ServerNames)
  BY <1>1, SyncFields DEF IsBusy
<1>3. r.todo # <<>>
  BY <1>1 DEF ServersIInv, ServersTypeOK
<1>4. x \in Rows
  <2>1. n \in ServerNames
    BY <1>2, <1>3
  <2> HIDE DEF n
  <2> QED BY <1>2, <2>1 DEF Rows, Servers!Lists
<1>5. transports' \in Seq(Rows)
  <2> HIDE DEF x
  <2> QED BY <1>1, <1>2, <1>4
<1>6. ASSUME r.alone
      PROVE  /\ r.whole /\ serverFile = r.next /\ configs = r.next
             /\ Once(Tail(r.todo)) /\ Entries(Tail(r.todo)) \subseteq Servers!Enabled(r.next)
             /\ Carries(transports', {a \in Servers!Attached(r.next) : a.name \notin Entries(Tail(r.todo))})
  <2>1. InRenew(q)
    BY <1>2, <1>6 DEF ServersIInv, Orderly
  <2>2. /\ r.whole /\ serverFile = r.next /\ configs = r.next
        /\ Once(r.todo) /\ Entries(r.todo) \subseteq Servers!Enabled(r.next)
        /\ Carries(transports, {a \in Servers!Attached(r.next) : a.name \notin Entries(r.todo)})
    BY <1>1, <2>1 DEF InRenew
  <2> DEFINE list == r.next
             todo == r.todo
             ts == transports
  <2>3. /\ list \in Servers!Lists /\ todo \in Seq(ServerNames) /\ todo # <<>> /\ ts \in Seq(Rows)
        /\ Once(todo) /\ Entries(todo) \subseteq Servers!Enabled(list)
        /\ Carries(ts, {a \in Servers!Attached(list) : a.name \notin Entries(todo)})
    BY <1>2, <1>3, <2>2
  <2> HIDE DEF list, todo, ts
  <2>4. /\ Once(Tail(todo)) /\ Entries(Tail(todo)) = Entries(todo) \ {Head(todo)}
        /\ Carries(Append(ts, [name |-> Head(todo), body |-> list[Head(todo)]]),
                   {a \in Servers!Attached(list) : a.name \notin Entries(Tail(todo))})
    BY <2>3, AttachedMore
  <2> QED BY <1>1, <2>2, <2>4 DEF list, todo, ts
<1>7. CASE Len(r.todo) = 1
  <2> DEFINE w == Servers!Idle
  <2>1. /\ serverRequest' = [serverRequest EXCEPT ![q] = w] /\ torn' = (torn /\ ~(r.whole /\ r.alone))
    BY <1>1, <1>7 DEF Servers!Ends, Servers!To
  <2>2. w \in SyncWork /\ w.at = "idle"
    BY IdleSync
  <2> HIDE DEF w
  <2>3. torn' = torn \/ (torn' = FALSE /\ r.alone /\ w.at = "idle")
    BY <1>2, <2>1, <2>2
  <2>4. ASSUME r.alone PROVE InOrder'
    <3>1. Entries(Tail(r.todo)) = {}
      <4>1. Len(Tail(r.todo)) = 0 /\ Tail(r.todo) \in Seq(ServerNames)
        BY <1>2, <1>3, <1>7
      <4>2. Tail(r.todo) = <<>>
        BY <4>1, EmptySeq
      <4> QED BY <4>2 DEF Entries
    <3>2. {a \in Servers!Attached(r.next) : a.name \notin Entries(Tail(r.todo))} = Servers!Attached(r.next)
      BY <3>1
    <3>3. Carries(transports', Servers!Attached(r.next)) /\ serverFile = r.next /\ configs = r.next
      BY <1>6, <2>4, <3>2
    <3> QED BY <1>1, <3>3 DEF InOrder
  <2> QED BY <1>1, <1>2, <1>5, <2>1, <2>2, <2>3, <2>4, OneSyncMoves
<1>8. CASE Len(r.todo) # 1
  <2> DEFINE w == [r EXCEPT !.at = "renew", !.todo = Tail(r.todo)]
  <2>1. serverRequest' = [serverRequest EXCEPT ![q] = w] /\ torn' = torn
    BY <1>1, <1>8 DEF Servers!To
  <2>2. Tail(r.todo) \in Seq(ServerNames) /\ Tail(r.todo) # <<>>
    <3>1. Tail(r.todo) \in Seq(ServerNames) /\ Len(Tail(r.todo)) = Len(r.todo) - 1 /\ Len(r.todo) \in Nat
      BY <1>2, <1>3
    <3>2. ASSUME Tail(r.todo) = <<>> PROVE FALSE
      <4>0. Len(<<>>) = 0
        OBVIOUS
      <4>1. Len(Tail(r.todo)) = 0
        BY <3>2, <4>0
      <4>2. Len(r.todo) = 1
        BY <3>1, <4>1
      <4> QED BY <1>8, <4>2
    <3> QED BY <3>1, <3>2
  <2>3. /\ w \in SyncWork /\ w.at = "renew" /\ w.next = r.next /\ w.alone = r.alone /\ w.whole = r.whole
        /\ w.todo = Tail(r.todo)
    BY <1>2, <2>2 DEF SyncWork
  <2> HIDE DEF w
  <2>4. serverRequest'[q] = w
    BY <1>2, <2>1
  <2>5. ASSUME r.alone PROVE Orderly(q)'
    <3>1. InRenew(q)'
      BY <1>1, <1>6, <2>3, <2>4, <2>5 DEF InRenew
    <3>2. InWrite(q)' /\ InRemove(q)'
      BY <2>3, <2>4 DEF InWrite, InRemove
    <3> QED BY <3>1, <3>2 DEF Orderly
  <2> QED BY <1>1, <1>2, <1>5, <2>1, <2>2, <2>3, <2>5, OneSyncMoves
<1> QED BY <1>7, <1>8

\* A process starts from the file.
LEMMA ServersStart ==
  ASSUME NEW list \in Servers!Lists
  PROVE  Servers!SetToSeq(Servers!Attached(list)) \in Seq(Rows)
         /\ Carries(Servers!SetToSeq(Servers!Attached(list)), Servers!Attached(list))
<1>1. Servers!Attached(list) \subseteq Rows /\ IsFiniteSet(Servers!Attached(list))
  BY AttachedRows
<1> DEFINE S == Servers!Attached(list)
           ts == Servers!SetToSeq(S)
<1>2. ts \in Seq(S) /\ Carries(ts, S)
  BY <1>1, SetToSeqCarries
<1> HIDE DEF S, ts
<1>3. S \subseteq Rows => ts \in Seq(Rows)
  BY <1>2
<1> QED BY <1>1, <1>2, <1>3 DEF S, ts

LEMMA AllSyncsRest ==
  ASSUME NEW work, work = [q \in Syncs |-> Servers!Idle]
  PROVE  /\ work \in [Syncs -> SyncWork] /\ \A q \in Syncs : work[q].at = "idle"
BY IdleSync

LEMMA ServersRestart ==
  ASSUME ServersIInv, Servers!Restart
  PROVE  ServersIInv'
<1>1. /\ configs' = serverFile /\ transports' = Servers!SetToSeq(Servers!Attached(serverFile))
      /\ serverRequest' = [q \in Syncs |-> Servers!Idle] /\ torn' = FALSE /\ serverFile' = serverFile
  BY DEF Servers!Restart
<1>2. serverFile \in Servers!Lists
  BY DEF ServersIInv, ServersTypeOK
<1>3. transports' \in Seq(Rows) /\ Carries(transports', Servers!Attached(serverFile))
  BY <1>1, <1>2, ServersStart
<1>4. serverRequest' \in [Syncs -> SyncWork] /\ \A q \in Syncs : serverRequest'[q].at = "idle"
  BY <1>1, AllSyncsRest
<1>5. Servers!Lists' = Servers!Lists
  BY DEF Servers!Lists
<1>6. ServersTypeOK'
  BY <1>1, <1>2, <1>3, <1>4, <1>5 DEF ServersTypeOK, IsBusy
<1>7. SyncsAreAlone' /\ InOrder'
  BY <1>1, <1>3, <1>4 DEF SyncsAreAlone, InOrder, IsBusy
<1> QED BY <1>4, <1>6, <1>7 DEF ServersIInv, IsBusy

LEMMA ServersInitially == Servers!Init => ServersIInv
<1> SUFFICES ASSUME Servers!Init PROVE ServersIInv
  OBVIOUS
<1>1. /\ serverFile \in Servers!Lists /\ configs = serverFile
      /\ transports = Servers!SetToSeq(Servers!Attached(serverFile))
      /\ serverRequest = [q \in Syncs |-> Servers!Idle] /\ torn = FALSE
  BY DEF Servers!Init
<1>2. transports \in Seq(Rows) /\ Carries(transports, Servers!Attached(serverFile))
  BY <1>1, ServersStart
<1>3. serverRequest \in [Syncs -> SyncWork] /\ \A q \in Syncs : serverRequest[q].at = "idle"
  BY <1>1, AllSyncsRest
<1>4. ServersTypeOK
  BY <1>1, <1>2, <1>3 DEF ServersTypeOK, IsBusy
<1>5. SyncsAreAlone /\ InOrder
  BY <1>1, <1>2, <1>3 DEF SyncsAreAlone, InOrder, IsBusy
<1> QED BY <1>3, <1>4, <1>5 DEF ServersIInv, IsBusy

LEMMA ServersSteps == ServersIInv /\ [Servers!Next]_(Servers!vars) => ServersIInv'
<1> SUFFICES ASSUME ServersIInv, [Servers!Next]_(Servers!vars) PROVE ServersIInv'
  OBVIOUS
<1>1. CASE Servers!Restart
  BY <1>1, ServersRestart
<1>2. ASSUME NEW q \in Syncs, Servers!Post(q) PROVE ServersIInv'
  BY <1>2, PostKeeps
<1>3. ASSUME NEW q \in Syncs, Servers!Delete(q) PROVE ServersIInv'
  BY <1>3, DeleteKeeps
<1>4. ASSUME NEW q \in Syncs, Servers!Written(q) PROVE ServersIInv'
  BY <1>4, WrittenKeeps
<1>5. ASSUME NEW q \in Syncs, Servers!WriteFails(q) PROVE ServersIInv'
  BY <1>5, ServerWriteFails
<1>6. ASSUME NEW q \in Syncs, Servers!RemoveServer(q) PROVE ServersIInv'
  BY <1>6, RemoveServerKeeps
<1>7. ASSUME NEW q \in Syncs, Servers!Keep(q) PROVE ServersIInv'
  BY <1>7, KeepKeeps
<1>8. ASSUME NEW q \in Syncs, Servers!Renew(q) PROVE ServersIInv'
  BY <1>8, RenewKeeps
<1>9. ASSUME NEW q \in Syncs, Servers!Attach(q) PROVE ServersIInv'
  BY <1>9, AttachKeeps
<1>10. CASE UNCHANGED Servers!vars
  <2>1. UNCHANGED <<serverFile, configs, transports, serverRequest, torn>>
    BY <1>10 DEF Servers!vars
  <2>2. Servers!Lists' = Servers!Lists /\ Servers!Attached(serverFile)' = Servers!Attached(serverFile)
    BY <2>1 DEF Servers!Lists, Servers!Attached, Servers!Enabled
  <2>3. ServersTypeOK' /\ SyncsAreAlone'
    BY <2>1, <2>2 DEF ServersIInv, ServersTypeOK, SyncsAreAlone, IsBusy
  <2>4. ASSUME NEW q \in Syncs PROVE (Orderly(q)' <=> Orderly(q)) /\ (IsBusy(q)' <=> IsBusy(q))
    BY <2>1, <2>2 DEF Orderly, InWrite, InRemove, InRenew, InOrder, TakesOne, IsBusy
  <2>5. InOrder' <=> InOrder
    BY <2>1, <2>2 DEF InOrder
  <2> QED BY <2>1, <2>3, <2>4, <2>5 DEF ServersIInv
<1> QED BY <1>1, <1>2, <1>3, <1>4, <1>5, <1>6, <1>7, <1>8, <1>9, <1>10 DEF Servers!Next

LEMMA ServersFollow == Servers!Spec => []Servers!ServersFollowTheList
<1>1. ServersIInv => Servers!ServersFollowTheList
  <2> SUFFICES ASSUME ServersIInv, Servers!Busy = {}, ~torn
               PROVE  configs = serverFile /\ Servers!Follows(serverFile, transports)
    BY DEF Servers!ServersFollowTheList
  <2>1. InOrder /\ transports \in Seq(Rows)
    BY DEF ServersIInv, ServersTypeOK, Servers!Busy, IsBusy
  <2> DEFINE S == Servers!Attached(serverFile)
  <2>2. Servers!Cardinality(S) = Cardinality(S)
    BY DEF Servers!Cardinality, Cardinality
  <2>3. Servers!ToSet(transports) = S
    BY <2>1 DEF InOrder, Carries, Servers!ToSet
  <2>4. Len(transports) = Cardinality(S)
    <3>1. Carries(transports, S)
      BY <2>1 DEF InOrder
    <3> HIDE DEF S
    <3> QED BY <2>1, <3>1, CarriesLength
  <2> QED BY <2>1, <2>2, <2>3, <2>4 DEF InOrder, Servers!Follows
<1>2. Servers!Spec => []ServersIInv
  BY ServersInitially, ServersSteps, PTL DEF Servers!Spec
<1> QED BY <1>1, <1>2, PTL

-------------------------------------------------------------------------------
(* The skills of a Workspace *)

SkillLoads ==
  [at : {"none", "config", "scan", "install"}, disabled : SUBSET Skills, found : SUBSET Skills,
   clean : BOOLEAN]
SkillWork ==
  [at : {"idle", "read", "write", "writing", "delete", "dropped", "loads"},
   of : Registries \union {None}, name : Skills \union {None}, on : BOOLEAN,
   read : SUBSET Skills, stale : BOOLEAN]
SkillConfigs == [disabled : SUBSET Skills, whole : BOOLEAN]
Views == [Skills -> BOOLEAN \union {None}]

LoadBy(q, r) == skillLoad[<<q, r>>]
OfSkill(q) == skillRequest[q].at \in {"read", "write", "writing", "delete"}

SkillTypeOK ==
  /\ skillFiles \in SUBSET Skills /\ skillConfig \in SkillConfigs /\ toldDisabled \in SUBSET Skills
  /\ registry \in [Registries -> Views]
  /\ skillLoad \in [SkillRequests \X Registries -> SkillLoads]
  /\ skillRequest \in [SkillRequests -> SkillWork]
  /\ \A q \in SkillRequests :
       /\ skillRequest[q].at \in {"read", "write", "writing"} =>
            skillRequest[q].of \in Registries /\ skillRequest[q].name \in Skills
       /\ skillRequest[q].at = "delete" =>
            skillRequest[q].of \in Registries /\ skillRequest[q].name \in Skills
  /\ behind \in SUBSET Registries /\ skillCrossed \in BOOLEAN

\* what an undisturbed load has read is what is on disk
LoadsAreCurrent ==
  \A q \in SkillRequests, r \in Registries :
    LoadBy(q, r).clean =>
      /\ LoadBy(q, r).at \in {"scan", "install"} =>
           skillConfig.whole /\ LoadBy(q, r).disabled = skillConfig.disabled
      /\ LoadBy(q, r).at = "install" => LoadBy(q, r).found = skillFiles

\* a request waits for its loads
LoadsAreAwaited ==
  \A q \in SkillRequests, r \in Registries :
    LoadBy(q, r).at # "none" => skillRequest[q].at \in {"loads", "dropped"}

\* one switch at a time changes what is on disk to what its user is told
SwitchesAreAlone ==
  ~skillCrossed =>
    /\ \A p, q \in SkillSet!Switching : p = q
    /\ SkillSet!Writing = {} => skillConfig.whole
    /\ skillConfig.disabled = toldDisabled
    /\ \A q \in SkillRequests :
         skillRequest[q].at \in {"write", "writing"} => skillRequest[q].read = toldDisabled

\* a config that was left cut short is behind every registry
CutIsBehind == ~skillConfig.whole /\ SkillSet!Writing = {} => behind = Registries

\* a registry that is not behind shows the disk, or is being loaded
ShowsDisk(r) ==
  skillConfig.whole \/ ~skillCrossed => registry[r] = SkillSet!Shown(skillFiles, skillConfig.disabled)
RegistriesAreCurrent ==
  \A r \in Registries \ behind : (\E q \in SkillRequests : LoadBy(q, r).at # "none") \/ ShowsDisk(r)

SkillIInv ==
  /\ SkillTypeOK /\ LoadsAreCurrent /\ LoadsAreAwaited /\ SwitchesAreAlone /\ CutIsBehind
  /\ RegistriesAreCurrent

LEMMA LoadFields ==
  ASSUME SkillTypeOK, NEW q \in SkillRequests, NEW r \in Registries
  PROVE  /\ <<q, r>> \in SkillRequests \X Registries /\ LoadBy(q, r) \in SkillLoads
         /\ LoadBy(q, r).at \in {"none", "config", "scan", "install"}
         /\ LoadBy(q, r).clean \in BOOLEAN
         /\ LoadBy(q, r).disabled \in SUBSET Skills /\ LoadBy(q, r).found \in SUBSET Skills
BY DEF SkillTypeOK, SkillLoads, LoadBy

LEMMA RequestFields ==
  ASSUME SkillTypeOK, NEW q \in SkillRequests
  PROVE  /\ skillRequest[q] \in SkillWork
         /\ skillRequest[q].on \in BOOLEAN /\ skillRequest[q].read \in SUBSET Skills
         /\ skillRequest[q].at \in {"idle", "read", "write", "writing", "delete", "dropped", "loads"}
BY DEF SkillTypeOK, SkillWork

LEMMA ConfigFields ==
  ASSUME SkillTypeOK
  PROVE  /\ skillConfig.disabled \in SUBSET Skills /\ skillConfig.whole \in BOOLEAN
         /\ SkillSet!ReadConfig \in SUBSET Skills
         /\ skillConfig.whole => SkillSet!ReadConfig = skillConfig.disabled
BY DEF SkillTypeOK, SkillConfigs, SkillSet!ReadConfig

LEMMA ShownIsView ==
  ASSUME NEW found, NEW off
  PROVE  SkillSet!Shown(found, off) \in Views
BY DEF SkillSet!Shown, Views

\* A change of what is on disk keeps every load, and none of them clean.
LEMMA DisturbedLoads ==
  ASSUME SkillTypeOK, skillLoad' = SkillSet!Disturbed
  PROVE  /\ skillLoad' \in [SkillRequests \X Registries -> SkillLoads]
         /\ \A q \in SkillRequests, r \in Registries :
              LoadBy(q, r)'.at = LoadBy(q, r).at /\ (LoadBy(q, r)'.clean => LoadBy(q, r).at = "none")
<1>1. skillLoad \in [SkillRequests \X Registries -> SkillLoads]
  BY DEF SkillTypeOK
<1>2. skillLoad' = [x \in SkillRequests \X Registries |-> [skillLoad[x] EXCEPT !.clean = skillLoad[x].at = "none"]]
  BY <1>1 DEF SkillSet!Disturbed
<1>3. ASSUME NEW x \in SkillRequests \X Registries
      PROVE  skillLoad'[x] \in SkillLoads /\ skillLoad'[x].at = skillLoad[x].at
             /\ (skillLoad'[x].clean => skillLoad[x].at = "none")
  <2>1. skillLoad[x] \in SkillLoads /\ skillLoad'[x] = [skillLoad[x] EXCEPT !.clean = skillLoad[x].at = "none"]
    BY <1>1, <1>2
  <2> QED BY <2>1 DEF SkillLoads
<1>4. skillLoad' \in [SkillRequests \X Registries -> SkillLoads]
  BY <1>2, <1>3
<1> QED BY <1>3, <1>4 DEF LoadBy

LEMMA FreshLoad ==
  /\ SkillSet!NoLoad \in SkillLoads /\ SkillSet!NoLoad.at = "none"
  /\ [SkillSet!NoLoad EXCEPT !.at = "config"] \in SkillLoads
  /\ [SkillSet!NoLoad EXCEPT !.at = "config"].at = "config"
BY DEF SkillSet!NoLoad, SkillLoads

\* A request begins loads; the others go on.
LEMMA LoadsBegin ==
  ASSUME NEW loads \in [SkillRequests \X Registries -> SkillLoads], NEW p \in SkillRequests,
         NEW rs \in SUBSET Registries, skillLoad' = SkillSet!Loads(p, rs, loads)
  PROVE  /\ skillLoad' \in [SkillRequests \X Registries -> SkillLoads]
         /\ \A q \in SkillRequests, r \in Registries :
              IF q = p /\ r \in rs THEN LoadBy(q, r)'.at = "config" ELSE LoadBy(q, r)' = loads[<<q, r>>]
<1>1. skillLoad' = [x \in SkillRequests \X Registries |->
                     IF x[1] = p /\ x[2] \in rs THEN [SkillSet!NoLoad EXCEPT !.at = "config"] ELSE loads[x]]
  BY DEF SkillSet!Loads
<1>2. skillLoad' \in [SkillRequests \X Registries -> SkillLoads]
  BY <1>1, FreshLoad
<1>3. ASSUME NEW q \in SkillRequests, NEW r \in Registries
      PROVE  IF q = p /\ r \in rs THEN LoadBy(q, r)'.at = "config" ELSE LoadBy(q, r)' = loads[<<q, r>>]
  <2>1. skillLoad'[<<q, r>>] = IF q = p /\ r \in rs THEN [SkillSet!NoLoad EXCEPT !.at = "config"] ELSE loads[<<q, r>>]
    BY <1>1
  <2> QED BY <2>1, FreshLoad DEF LoadBy
<1> QED BY <1>2, <1>3

\* A request moves on, with the Registry and the skill it is about.
LEMMA RequestMoves ==
  ASSUME SkillTypeOK, NEW p \in SkillRequests,
         NEW step \in {"idle", "read", "write", "writing", "delete", "dropped", "loads"},
         SkillSet!To(p, step), step \in {"idle", "dropped", "loads"} \/ OfSkill(p)
  PROVE  /\ skillRequest' \in [SkillRequests -> SkillWork]
         /\ skillRequest' = [skillRequest EXCEPT ![p].at = step]
         /\ skillRequest'[p].at = step
         /\ skillRequest'[p].of = skillRequest[p].of /\ skillRequest'[p].name = skillRequest[p].name
         /\ skillRequest'[p].read = skillRequest[p].read
         /\ \A q \in SkillRequests \ {p} : skillRequest'[q] = skillRequest[q]
<1>1. skillRequest' = [skillRequest EXCEPT ![p].at = step] /\ skillRequest[p] \in SkillWork
  BY RequestFields DEF SkillSet!To
<1>2. skillRequest \in [SkillRequests -> SkillWork]
  BY DEF SkillTypeOK
<1>3. skillRequest'[p] = [skillRequest[p] EXCEPT !.at = step]
  BY <1>1, <1>2
<1>4. /\ skillRequest'[p] \in SkillWork /\ skillRequest'[p].at = step
      /\ skillRequest'[p].of = skillRequest[p].of /\ skillRequest'[p].name = skillRequest[p].name
      /\ skillRequest'[p].read = skillRequest[p].read
  BY <1>1, <1>3 DEF SkillWork
<1> QED BY <1>1, <1>2, <1>4

\* A request comes, if its bound allows.
LEMMA RequestComes ==
  ASSUME SkillTypeOK, NEW p \in SkillRequests, NEW r \in Registries \union {None},
         NEW step \in {"read", "delete", "loads"}, NEW n \in Skills \union {None}, NEW on \in BOOLEAN,
         step \in {"read", "delete"} => r \in Registries /\ n \in Skills,
         SkillSet!Begin(p, r, step, n, on)
  PROVE  /\ skillRequest' \in [SkillRequests -> SkillWork]
         /\ skillRequest[p].at = "idle" /\ skillRequest'[p].at = step
         /\ skillRequest'[p].of = r /\ skillRequest'[p].name = n
         /\ \A q \in SkillRequests \ {p} : skillRequest'[q] = skillRequest[q]
<1> DEFINE w == [at |-> step, of |-> r, name |-> n, on |-> on, read |-> {}, stale |-> FALSE]
<1>1. skillRequest' = [skillRequest EXCEPT ![p] = w] /\ skillRequest[p].at = "idle"
  BY DEF SkillSet!Begin
<1>2. w \in SkillWork /\ w.at = step /\ w.of = r /\ w.name = n
  BY DEF SkillWork
<1> HIDE DEF w
<1> QED BY <1>1, <1>2 DEF SkillTypeOK

Switched == {"read", "write", "writing"}

LEMMA SwitchesStay ==
  ASSUME SwitchesAreAlone, UNCHANGED <<skillConfig, toldDisabled, skillCrossed>>,
         \A q \in SkillRequests :
           skillRequest[q].at \in Switched \/ skillRequest'[q].at \in Switched =>
             skillRequest'[q].at = skillRequest[q].at /\ skillRequest'[q].read = skillRequest[q].read
  PROVE  SwitchesAreAlone' /\ SkillSet!Writing' = SkillSet!Writing
<1>1. SkillSet!Writing' = SkillSet!Writing /\ SkillSet!Switching' = SkillSet!Switching
  BY DEF SkillSet!Writing, SkillSet!Switching, Switched
<1>2. ASSUME ~skillCrossed, NEW q \in SkillRequests, skillRequest'[q].at \in {"write", "writing"}
      PROVE  skillRequest'[q].read = toldDisabled
  BY <1>2 DEF SwitchesAreAlone, Switched
<1> QED BY <1>1, <1>2 DEF SwitchesAreAlone

\* One load moves, or ends.
LEMMA OneLoad ==
  ASSUME SkillTypeOK, NEW q \in SkillRequests, NEW r \in Registries, NEW l \in SkillLoads,
         skillLoad' = [skillLoad EXCEPT ![<<q, r>>] = l]
  PROVE  /\ skillLoad' \in [SkillRequests \X Registries -> SkillLoads] /\ LoadBy(q, r)' = l
         /\ \A p \in SkillRequests, s \in Registries :
              p # q \/ s # r => LoadBy(p, s)' = LoadBy(p, s)
<1>1. skillLoad \in [SkillRequests \X Registries -> SkillLoads]
  BY DEF SkillTypeOK
<1>2. skillLoad' \in [SkillRequests \X Registries -> SkillLoads] /\ LoadBy(q, r)' = l
  BY <1>1 DEF LoadBy
<1>3. \A p \in SkillRequests, s \in Registries : p # q \/ s # r => LoadBy(p, s)' = LoadBy(p, s)
  <2>1. ASSUME NEW p \in SkillRequests, NEW s \in Registries, p # q \/ s # r
        PROVE  LoadBy(p, s)' = LoadBy(p, s)
    <3>1. <<p, s>> # <<q, r>> /\ <<p, s>> \in SkillRequests \X Registries
      BY <2>1
    <3> QED BY <1>1, <3>1 DEF LoadBy
  <2> QED BY <2>1
<1> QED BY <1>2, <1>3

\* A load goes from one step to the next, and tells what it has read.
LEMMA LoadAdvances ==
  ASSUME SkillIInv, NEW q \in SkillRequests, NEW r \in Registries, NEW l \in SkillLoads,
         skillLoad' = [skillLoad EXCEPT ![<<q, r>>] = l],
         LoadBy(q, r).at # "none", l.at \in {"scan", "install"},
         l.clean => /\ skillConfig.whole /\ l.disabled = skillConfig.disabled
                    /\ l.at = "install" => l.found = skillFiles,
         UNCHANGED <<skillFiles, skillConfig, registry, skillRequest, toldDisabled, skillCrossed, behind>>
  PROVE  SkillIInv'
<1>1. /\ SkillTypeOK /\ skillLoad' \in [SkillRequests \X Registries -> SkillLoads] /\ LoadBy(q, r)' = l
      /\ \A p \in SkillRequests, s \in Registries : p # q \/ s # r => LoadBy(p, s)' = LoadBy(p, s)
  BY OneLoad DEF SkillIInv
<1>2. SkillTypeOK'
  BY <1>1 DEF SkillTypeOK
<1>3. LoadsAreCurrent'
  BY <1>1 DEF SkillIInv, LoadsAreCurrent
<1>4. LoadsAreAwaited'
  BY <1>1 DEF SkillIInv, LoadsAreAwaited
<1>5. SwitchesAreAlone' /\ SkillSet!Writing' = SkillSet!Writing
  BY SwitchesStay DEF SkillIInv
<1>6. CutIsBehind'
  BY <1>5 DEF SkillIInv, CutIsBehind
<1>7. RegistriesAreCurrent'
  <2>1. ASSUME NEW s \in Registries \ behind, ~(\E p \in SkillRequests : LoadBy(p, s)'.at # "none")
        PROVE  ShowsDisk(s)'
    <3>1. ~(\E p \in SkillRequests : LoadBy(p, s).at # "none")
      BY <1>1, <2>1
    <3> QED BY <2>1, <3>1 DEF SkillIInv, RegistriesAreCurrent, ShowsDisk
  <2> QED BY <2>1 DEF RegistriesAreCurrent
<1> QED BY <1>2, <1>3, <1>4, <1>5, <1>6, <1>7 DEF SkillIInv

LEMMA LoadReadsPreserves ==
  ASSUME SkillIInv, NEW q \in SkillRequests, NEW r \in Registries, SkillSet!LoadReads(q, r)
  PROVE  SkillIInv'
<1> DEFINE l == [at |-> "scan", disabled |-> SkillSet!ReadConfig, found |-> {},
                 clean |-> LoadBy(q, r).clean /\ skillConfig.whole]
<1>1. SkillTypeOK /\ skillLoad \in [SkillRequests \X Registries -> SkillLoads]
  BY DEF SkillIInv, SkillTypeOK
<1>2. /\ skillLoad' = [skillLoad EXCEPT ![<<q, r>>] = l] /\ LoadBy(q, r).at # "none"
      /\ UNCHANGED <<skillFiles, skillConfig, registry, skillRequest, toldDisabled, skillCrossed, behind>>
  BY <1>1 DEF SkillSet!LoadReads, LoadBy
<1>3. l \in SkillLoads /\ l.at = "scan" /\ l.disabled = SkillSet!ReadConfig
      /\ (l.clean => skillConfig.whole)
  BY <1>1, LoadFields, ConfigFields DEF SkillLoads
<1> HIDE DEF l
<1> QED BY <1>1, <1>2, <1>3, ConfigFields, LoadAdvances

LEMMA LoadScansPreserves ==
  ASSUME SkillIInv, NEW q \in SkillRequests, NEW r \in Registries, SkillSet!LoadScans(q, r)
  PROVE  SkillIInv'
<1> DEFINE l == [at |-> "install", disabled |-> LoadBy(q, r).disabled, found |-> skillFiles,
                 clean |-> LoadBy(q, r).clean]
<1>1. SkillTypeOK /\ skillLoad \in [SkillRequests \X Registries -> SkillLoads] /\ skillFiles \in SUBSET Skills
  BY DEF SkillIInv, SkillTypeOK
<1>2. /\ skillLoad' = [skillLoad EXCEPT ![<<q, r>>] = l] /\ LoadBy(q, r).at = "scan"
      /\ UNCHANGED <<skillFiles, skillConfig, registry, skillRequest, toldDisabled, skillCrossed, behind>>
  BY <1>1 DEF SkillSet!LoadScans, LoadBy
<1>3. l \in SkillLoads /\ l.at = "install" /\ l.disabled = LoadBy(q, r).disabled
      /\ l.clean = LoadBy(q, r).clean /\ l.found = skillFiles
  BY <1>1, LoadFields DEF SkillLoads
<1> HIDE DEF l
<1>4. l.clean => skillConfig.whole /\ l.disabled = skillConfig.disabled
  BY <1>2, <1>3 DEF SkillIInv, LoadsAreCurrent
<1> QED BY <1>2, <1>3, <1>4, LoadAdvances

LEMMA LoadInstallsPreserves ==
  ASSUME SkillIInv, NEW q \in SkillRequests, NEW r \in Registries, SkillSet!LoadInstalls(q, r)
  PROVE  SkillIInv'
<1> DEFINE found == LoadBy(q, r).found
           off == LoadBy(q, r).disabled
<1>1. /\ LoadBy(q, r).at = "install"
      /\ registry' = [registry EXCEPT ![r] = SkillSet!Shown(found, off)]
      /\ skillRequest' = [p \in SkillRequests |->
           [skillRequest[p] EXCEPT !.stale = skillRequest[p].stale \/ skillRequest[p].of = r]]
      /\ behind' = IF LoadBy(q, r).clean THEN behind \ {r} ELSE behind \union {r}
      /\ skillLoad' = [skillLoad EXCEPT ![<<q, r>>] = SkillSet!NoLoad]
      /\ UNCHANGED <<skillFiles, skillConfig, toldDisabled, skillCrossed>>
  BY DEF SkillSet!LoadInstalls, LoadBy
<1>2. SkillTypeOK /\ registry \in [Registries -> Views]
  BY DEF SkillIInv, SkillTypeOK
<1>3. /\ skillLoad' \in [SkillRequests \X Registries -> SkillLoads] /\ LoadBy(q, r)'.at = "none"
      /\ \A p \in SkillRequests, s \in Registries : p # q \/ s # r => LoadBy(p, s)' = LoadBy(p, s)
  BY <1>1, <1>2, FreshLoad, OneLoad
<1>4. \A p \in SkillRequests :
        /\ skillRequest'[p] \in SkillWork /\ skillRequest'[p].at = skillRequest[p].at
        /\ skillRequest'[p].of = skillRequest[p].of /\ skillRequest'[p].name = skillRequest[p].name
        /\ skillRequest'[p].read = skillRequest[p].read
  <2> SUFFICES ASSUME NEW p \in SkillRequests
               PROVE  /\ skillRequest'[p] \in SkillWork /\ skillRequest'[p].at = skillRequest[p].at
                      /\ skillRequest'[p].of = skillRequest[p].of /\ skillRequest'[p].name = skillRequest[p].name
                      /\ skillRequest'[p].read = skillRequest[p].read
    OBVIOUS
  <2>1. skillRequest'[p] = [skillRequest[p] EXCEPT !.stale = skillRequest[p].stale \/ skillRequest[p].of = r]
    BY <1>1
  <2>2. skillRequest[p] \in SkillWork
    BY <1>2, RequestFields
  <2>3. (skillRequest[p].stale \/ skillRequest[p].of = r) \in BOOLEAN
    OBVIOUS
  <2> QED BY <2>1, <2>2, <2>3 DEF SkillWork
<1>5. skillRequest' \in [SkillRequests -> SkillWork]
  BY <1>1, <1>4
<1>6. registry' \in [Registries -> Views] /\ registry'[r] = SkillSet!Shown(found, off)
      /\ \A s \in Registries \ {r} : registry'[s] = registry[s]
  BY <1>1, <1>2, ShownIsView
<1>7. SkillTypeOK'
  <2>1. behind' \in SUBSET Registries
    BY <1>1, <1>2 DEF SkillTypeOK
  <2>2. /\ skillFiles' \in SUBSET Skills /\ skillConfig' \in SkillConfigs /\ toldDisabled' \in SUBSET Skills
        /\ skillCrossed' \in BOOLEAN
    BY <1>1, <1>2 DEF SkillTypeOK
  <2>3. ASSUME NEW p \in SkillRequests, OfSkill(p)'
        PROVE  skillRequest'[p].of \in Registries /\ skillRequest'[p].name \in Skills
    BY <1>2, <1>4, <2>3 DEF SkillTypeOK, OfSkill
  <2> QED BY <1>3, <1>5, <1>6, <2>1, <2>2, <2>3 DEF SkillTypeOK, OfSkill
<1>8. LoadsAreCurrent' /\ LoadsAreAwaited'
  <2>1. ASSUME NEW p \in SkillRequests, NEW s \in Registries
        PROVE  LoadBy(p, s)'.at = "none" \/ LoadBy(p, s)' = LoadBy(p, s)
    BY <1>3
  <2>2. UNCHANGED <<skillFiles, skillConfig>>
    BY <1>1
  <2>3. LoadsAreCurrent'
    BY <2>1, <2>2 DEF SkillIInv, LoadsAreCurrent
  <2>4. LoadsAreAwaited'
    BY <1>4, <2>1 DEF SkillIInv, LoadsAreAwaited
  <2> QED BY <2>3, <2>4
<1>9. SwitchesAreAlone' /\ SkillSet!Writing' = SkillSet!Writing
  BY <1>1, <1>4, SwitchesStay DEF SkillIInv
<1>10. LoadBy(q, r).clean => skillConfig.whole /\ off = skillConfig.disabled /\ found = skillFiles
  BY <1>1 DEF SkillIInv, LoadsAreCurrent
<1>11. CutIsBehind'
  <2>1. CASE LoadBy(q, r).clean
    BY <1>1, <1>10, <2>1 DEF CutIsBehind
  <2>2. CASE ~LoadBy(q, r).clean
    BY <1>1, <1>9, <2>2 DEF SkillIInv, CutIsBehind
  <2> QED BY <2>1, <2>2
<1>12. RegistriesAreCurrent'
  <2>1. ASSUME NEW s \in Registries \ behind', ~(\E p \in SkillRequests : LoadBy(p, s)'.at # "none")
        PROVE  ShowsDisk(s)'
    <3>1. CASE s = r
      BY <1>1, <1>6, <1>10, <2>1, <3>1 DEF ShowsDisk
    <3>2. CASE s # r
      <4>1. ~(\E p \in SkillRequests : LoadBy(p, s).at # "none") /\ s \in Registries \ behind
        BY <1>1, <1>3, <2>1, <3>2
      <4>2. ShowsDisk(s)
        BY <4>1 DEF SkillIInv, RegistriesAreCurrent
      <4> QED BY <1>1, <1>6, <3>2, <4>2 DEF ShowsDisk
    <3> QED BY <3>1, <3>2
  <2> QED BY <2>1 DEF RegistriesAreCurrent
<1> QED BY <1>7, <1>8, <1>9, <1>11, <1>12 DEF SkillIInv

\* Reload, ReloadAll and Answer touch nothing but their request and its loads.
LEMMA LoadsOnlyPreserves ==
  ASSUME SkillIInv, NEW p \in SkillRequests,
         skillLoad' \in [SkillRequests \X Registries -> SkillLoads],
         skillRequest' \in [SkillRequests -> SkillWork],
         \A q \in SkillRequests, r \in Registries :
           \/ LoadBy(q, r)' = LoadBy(q, r)
           \/ q = p /\ LoadBy(q, r)'.at = "config",
         skillRequest[p].at \notin Switched,
         \/ skillRequest'[p].at = "loads"
         \/ /\ skillRequest'[p].at = "idle"
            /\ \A r \in Registries : LoadBy(p, r)'.at = "none",
         \A q \in SkillRequests \ {p} : skillRequest'[q] = skillRequest[q],
         UNCHANGED <<skillFiles, skillConfig, registry, toldDisabled, skillCrossed, behind>>
  PROVE  SkillIInv'
<1>1. SkillTypeOK'
  <2>1. skillRequest'[p].at \notin {"read", "write", "writing", "delete"}
    OBVIOUS
  <2> QED BY <2>1 DEF SkillIInv, SkillTypeOK
<1>2. LoadsAreCurrent' /\ LoadsAreAwaited'
  <2>1. LoadsAreCurrent'
    BY DEF SkillIInv, LoadsAreCurrent
  <2>2. ASSUME NEW q \in SkillRequests, NEW r \in Registries, LoadBy(q, r)'.at # "none"
        PROVE  skillRequest'[q].at \in {"loads", "dropped"}
    <3>1. CASE q = p
      BY <2>2, <3>1
    <3>2. CASE q # p
      BY <2>2, <3>2 DEF SkillIInv, LoadsAreAwaited
    <3> QED BY <3>1, <3>2
  <2> QED BY <2>1, <2>2 DEF LoadsAreAwaited
<1>3. SwitchesAreAlone' /\ SkillSet!Writing' = SkillSet!Writing
  <2>1. skillRequest'[p].at \notin Switched
    BY DEF Switched
  <2> QED BY <2>1, SwitchesStay DEF SkillIInv
<1>4. CutIsBehind'
  BY <1>3 DEF SkillIInv, CutIsBehind
<1>5. RegistriesAreCurrent'
  <2>1. ASSUME NEW s \in Registries \ behind, ~(\E q \in SkillRequests : LoadBy(q, s)'.at # "none")
        PROVE  ShowsDisk(s)'
    <3>1. ~(\E q \in SkillRequests : LoadBy(q, s).at # "none")
      BY <2>1
    <3> QED BY <2>1, <3>1 DEF SkillIInv, RegistriesAreCurrent, ShowsDisk
  <2> QED BY <2>1 DEF RegistriesAreCurrent
<1> QED BY <1>1, <1>2, <1>3, <1>4, <1>5 DEF SkillIInv

LEMMA ReloadPreserves ==
  ASSUME SkillIInv, NEW q \in SkillRequests, NEW r \in Registries, SkillSet!Reload(q, r)
  PROVE  SkillIInv'
<1>1. /\ SkillSet!Begin(q, r, "loads", None, FALSE) /\ skillLoad' = SkillSet!Loads(q, {r}, skillLoad)
      /\ UNCHANGED <<skillFiles, skillConfig, registry, toldDisabled, skillCrossed, behind>>
  BY DEF SkillSet!Reload
<1>2. SkillTypeOK /\ skillLoad \in [SkillRequests \X Registries -> SkillLoads]
  BY DEF SkillIInv, SkillTypeOK
<1>3. /\ skillRequest' \in [SkillRequests -> SkillWork]
      /\ skillRequest[q].at = "idle" /\ skillRequest'[q].at = "loads"
      /\ \A p \in SkillRequests \ {q} : skillRequest'[p] = skillRequest[p]
  BY <1>1, <1>2, RequestComes
<1>4. /\ skillLoad' \in [SkillRequests \X Registries -> SkillLoads]
      /\ \A p \in SkillRequests, s \in Registries :
           LoadBy(p, s)' = LoadBy(p, s) \/ (p = q /\ LoadBy(p, s)'.at = "config")
  <2>1. skillLoad' = [x \in SkillRequests \X Registries |->
                       IF x[1] = q /\ x[2] \in {r} THEN [SkillSet!NoLoad EXCEPT !.at = "config"]
                       ELSE skillLoad[x]]
    BY <1>1, <1>2 DEF SkillSet!Loads
  <2>2. skillLoad' \in [SkillRequests \X Registries -> SkillLoads]
    BY <1>2, <2>1, FreshLoad
  <2>3. ASSUME NEW p \in SkillRequests, NEW s \in Registries
        PROVE  LoadBy(p, s)' = LoadBy(p, s) \/ (p = q /\ LoadBy(p, s)'.at = "config")
    <3>1. skillLoad'[<<p, s>>] = IF p = q /\ s = r THEN [SkillSet!NoLoad EXCEPT !.at = "config"]
                                 ELSE skillLoad[<<p, s>>]
      BY <2>1
    <3> QED BY <3>1, FreshLoad DEF LoadBy
  <2> QED BY <2>2, <2>3
<1> QED BY <1>1, <1>3, <1>4, LoadsOnlyPreserves DEF Switched

LEMMA ReloadAllPreserves ==
  ASSUME SkillIInv, NEW q \in SkillRequests, SkillSet!ReloadAll(q)
  PROVE  SkillIInv'
<1>1. /\ skillRequest[q].at = "dropped" /\ SkillSet!To(q, "loads")
      /\ skillLoad' = SkillSet!Loads(q, Registries, skillLoad)
      /\ UNCHANGED <<skillFiles, skillConfig, registry, toldDisabled, skillCrossed, behind>>
  BY DEF SkillSet!ReloadAll
<1>2. SkillTypeOK /\ skillLoad \in [SkillRequests \X Registries -> SkillLoads]
  BY DEF SkillIInv, SkillTypeOK
<1>3. /\ skillRequest' \in [SkillRequests -> SkillWork] /\ skillRequest'[q].at = "loads"
      /\ \A p \in SkillRequests \ {q} : skillRequest'[p] = skillRequest[p]
  BY <1>1, <1>2, RequestMoves
<1>4. /\ skillLoad' \in [SkillRequests \X Registries -> SkillLoads]
      /\ \A p \in SkillRequests, s \in Registries :
           LoadBy(p, s)' = LoadBy(p, s) \/ (p = q /\ LoadBy(p, s)'.at = "config")
  <2>1. /\ skillLoad' \in [SkillRequests \X Registries -> SkillLoads]
        /\ \A p \in SkillRequests, s \in Registries :
             IF p = q /\ s \in Registries THEN LoadBy(p, s)'.at = "config"
             ELSE LoadBy(p, s)' = skillLoad[<<p, s>>]
    <3> DEFINE loads == skillLoad
               all == Registries
    <3>1. /\ loads \in [SkillRequests \X Registries -> SkillLoads] /\ all \in SUBSET Registries
          /\ skillLoad' = SkillSet!Loads(q, all, loads)
      BY <1>1, <1>2
    <3> HIDE DEF loads, all
    <3>2. /\ skillLoad' \in [SkillRequests \X Registries -> SkillLoads]
          /\ \A p \in SkillRequests, s \in Registries :
               IF p = q /\ s \in all THEN LoadBy(p, s)'.at = "config" ELSE LoadBy(p, s)' = loads[<<p, s>>]
      BY <3>1, LoadsBegin
    <3> QED BY <3>2 DEF loads, all
  <2> QED BY <2>1 DEF LoadBy
<1> QED BY <1>1, <1>3, <1>4, LoadsOnlyPreserves DEF Switched

LEMMA AnswerPreserves ==
  ASSUME SkillIInv, NEW q \in SkillRequests, SkillSet!Answer(q)
  PROVE  SkillIInv'
<1>1. /\ skillRequest[q].at = "loads" /\ skillRequest' = [skillRequest EXCEPT ![q] = SkillSet!Idle]
      /\ \A r \in Registries : LoadBy(q, r).at = "none"
      /\ UNCHANGED <<skillFiles, skillConfig, registry, skillLoad, toldDisabled, skillCrossed, behind>>
  BY DEF SkillSet!Answer, SkillSet!Loading, LoadBy
<1>2. skillLoad \in [SkillRequests \X Registries -> SkillLoads] /\ skillRequest \in [SkillRequests -> SkillWork]
  BY DEF SkillIInv, SkillTypeOK
<1>3. SkillSet!Idle \in SkillWork /\ SkillSet!Idle.at = "idle"
  BY DEF SkillSet!Idle, SkillWork
<1>4. /\ skillRequest' \in [SkillRequests -> SkillWork] /\ skillRequest'[q].at = "idle"
      /\ \A p \in SkillRequests \ {q} : skillRequest'[p] = skillRequest[p]
  BY <1>1, <1>2, <1>3
<1>5. \A p \in SkillRequests, s \in Registries : LoadBy(p, s)' = LoadBy(p, s)
  BY <1>1 DEF LoadBy
<1> QED BY <1>1, <1>2, <1>4, <1>5, LoadsOnlyPreserves DEF Switched

LEMMA ReadsConfigPreserves ==
  ASSUME SkillIInv, NEW p \in SkillRequests, SkillSet!ReadsConfig(p)
  PROVE  SkillIInv'
<1> DEFINE w == skillRequest[p]
<1>1. /\ w.at = "read" /\ skillRequest' = [skillRequest EXCEPT ![p] =
           [at |-> "write", of |-> w.of, name |-> w.name, on |-> w.on, read |-> SkillSet!ReadConfig, stale |-> w.stale]]
      /\ UNCHANGED <<skillFiles, skillConfig, registry, skillLoad, toldDisabled, skillCrossed, behind>>
  BY DEF SkillSet!ReadsConfig
<1>2. SkillTypeOK /\ w \in SkillWork /\ skillRequest \in [SkillRequests -> SkillWork]
  BY RequestFields DEF SkillIInv, SkillTypeOK
<1>3. /\ skillRequest' \in [SkillRequests -> SkillWork] /\ skillRequest'[p].at = "write"
      /\ skillRequest'[p].of = w.of /\ skillRequest'[p].name = w.name
      /\ skillRequest'[p].read = SkillSet!ReadConfig
      /\ \A q \in SkillRequests \ {p} : skillRequest'[q] = skillRequest[q]
  <2> DEFINE v == [at |-> "write", of |-> w.of, name |-> w.name, on |-> w.on, read |-> SkillSet!ReadConfig, stale |-> w.stale]
  <2>1. v \in SkillWork
    BY <1>2, ConfigFields DEF SkillWork
  <2>2. v.at = "write" /\ v.of = w.of /\ v.name = w.name /\ v.read = SkillSet!ReadConfig
    OBVIOUS
  <2> HIDE DEF v
  <2> QED BY <1>1, <1>2, <2>1, <2>2 DEF v
<1>4. SkillTypeOK'
  BY <1>1, <1>2, <1>3 DEF SkillTypeOK
<1>5. \A q \in SkillRequests, r \in Registries : LoadBy(q, r)' = LoadBy(q, r)
  BY <1>1 DEF LoadBy
<1>6. LoadsAreCurrent' /\ LoadsAreAwaited'
  BY <1>1, <1>3, <1>5 DEF SkillIInv, LoadsAreCurrent, LoadsAreAwaited
<1>7. SkillSet!Writing' = SkillSet!Writing /\ SkillSet!Switching' = SkillSet!Switching /\ p \in SkillSet!Switching
  BY <1>1, <1>3 DEF SkillSet!Writing, SkillSet!Switching
<1>8. SwitchesAreAlone'
  <2>1. ASSUME ~skillCrossed, NEW q \in SkillRequests, skillRequest'[q].at \in {"write", "writing"}
        PROVE  skillRequest'[q].read = toldDisabled
    <3>1. CASE q = p
      <4>1. SkillSet!Writing = {}
        BY <1>1, <1>7, <2>1 DEF SkillIInv, SwitchesAreAlone, SkillSet!Writing, SkillSet!Switching
      <4> QED BY <1>2, <1>3, <2>1, <3>1, <4>1, ConfigFields DEF SkillIInv, SwitchesAreAlone
    <3>2. CASE q # p
      BY <1>3, <2>1, <3>2 DEF SkillIInv, SwitchesAreAlone
    <3> QED BY <3>1, <3>2
  <2> QED BY <1>1, <1>7, <2>1 DEF SkillIInv, SwitchesAreAlone
<1>9. CutIsBehind' /\ RegistriesAreCurrent'
  BY <1>1, <1>5, <1>7 DEF SkillIInv, CutIsBehind, RegistriesAreCurrent, ShowsDisk
<1> QED BY <1>4, <1>6, <1>8, <1>9 DEF SkillIInv

LEMMA SetEnabledPreserves ==
  ASSUME SkillIInv, NEW p \in SkillRequests, NEW r \in Registries, NEW n \in Skills, NEW on \in BOOLEAN,
         SkillSet!SetEnabled(p, r, n, on)
  PROVE  SkillIInv'
<1>1. /\ SkillSet!Begin(p, r, "read", n, on) /\ skillCrossed' = (skillCrossed \/ SkillSet!Switching # {})
      /\ UNCHANGED <<skillFiles, skillConfig, registry, skillLoad, toldDisabled, behind>>
  BY DEF SkillSet!SetEnabled
<1>2. SkillTypeOK
  BY DEF SkillIInv
<1>3. /\ skillRequest' \in [SkillRequests -> SkillWork]
      /\ skillRequest[p].at = "idle" /\ skillRequest'[p].at = "read"
      /\ skillRequest'[p].of = r /\ skillRequest'[p].name = n
      /\ \A q \in SkillRequests \ {p} : skillRequest'[q] = skillRequest[q]
  BY <1>1, <1>2, RequestComes
<1>4. SkillTypeOK'
  BY <1>1, <1>2, <1>3 DEF SkillTypeOK
<1>5. \A q \in SkillRequests, s \in Registries : LoadBy(q, s)' = LoadBy(q, s)
  BY <1>1 DEF LoadBy
<1>6. LoadsAreCurrent' /\ LoadsAreAwaited'
  BY <1>1, <1>3, <1>5 DEF SkillIInv, LoadsAreCurrent, LoadsAreAwaited
<1>7. SkillSet!Writing' = SkillSet!Writing /\ SkillSet!Switching' = SkillSet!Switching \union {p}
  BY <1>3 DEF SkillSet!Writing, SkillSet!Switching
<1>8. SwitchesAreAlone'
  <2>1. ASSUME ~skillCrossed'
        PROVE  /\ \A q, s \in SkillSet!Switching' : q = s
               /\ SkillSet!Writing' = {} => skillConfig.whole
               /\ skillConfig.disabled = toldDisabled
               /\ \A q \in SkillRequests :
                    skillRequest'[q].at \in {"write", "writing"} => skillRequest'[q].read = toldDisabled
    BY <1>1, <1>3, <1>7, <2>1 DEF SkillIInv, SwitchesAreAlone
  <2> QED BY <1>1, <2>1 DEF SwitchesAreAlone
<1>9. CutIsBehind' /\ RegistriesAreCurrent'
  <2>1. \A s \in Registries : ShowsDisk(s) => ShowsDisk(s)'
    BY <1>1 DEF ShowsDisk
  <2> QED BY <1>1, <1>5, <1>7, <2>1 DEF SkillIInv, CutIsBehind, RegistriesAreCurrent
<1> QED BY <1>4, <1>6, <1>8, <1>9 DEF SkillIInv

LEMMA BeginWritePreserves ==
  ASSUME SkillIInv, NEW p \in SkillRequests, SkillSet!BeginWrite(p)
  PROVE  SkillIInv'
<1>1. /\ skillRequest[p].at = "write" /\ SkillSet!To(p, "writing")
      /\ skillConfig' = [skillConfig EXCEPT !.whole = FALSE] /\ skillLoad' = SkillSet!Disturbed
      /\ UNCHANGED <<skillFiles, registry, toldDisabled, skillCrossed, behind>>
  BY DEF SkillSet!BeginWrite
<1>2. SkillTypeOK /\ OfSkill(p)
  BY <1>1 DEF SkillIInv, OfSkill
<1>3. /\ skillRequest' \in [SkillRequests -> SkillWork] /\ skillRequest'[p].at = "writing"
      /\ skillRequest'[p].of = skillRequest[p].of /\ skillRequest'[p].name = skillRequest[p].name
      /\ skillRequest'[p].read = skillRequest[p].read
      /\ \A q \in SkillRequests \ {p} : skillRequest'[q] = skillRequest[q]
  BY <1>1, <1>2, RequestMoves
<1>4. /\ skillLoad' \in [SkillRequests \X Registries -> SkillLoads]
      /\ \A q \in SkillRequests, r \in Registries :
           LoadBy(q, r)'.at = LoadBy(q, r).at /\ (LoadBy(q, r)'.clean => LoadBy(q, r).at = "none")
  BY <1>1, <1>2, DisturbedLoads
<1>5. skillConfig' \in SkillConfigs /\ skillConfig'.disabled = skillConfig.disabled /\ ~skillConfig'.whole
  BY <1>1, <1>2 DEF SkillTypeOK, SkillConfigs
<1>6. SkillTypeOK'
  BY <1>1, <1>2, <1>3, <1>4, <1>5 DEF SkillTypeOK
<1>7. LoadsAreCurrent' /\ LoadsAreAwaited'
  <2>1. LoadsAreCurrent'
    BY <1>4 DEF LoadsAreCurrent
  <2>2. ASSUME NEW q \in SkillRequests, NEW r \in Registries, LoadBy(q, r)'.at # "none"
        PROVE  skillRequest'[q].at \in {"loads", "dropped"}
    <3>1. skillRequest[q].at \in {"loads", "dropped"}
      BY <1>4, <2>2 DEF SkillIInv, LoadsAreAwaited
    <3> QED BY <1>1, <1>3, <3>1
  <2> QED BY <2>1, <2>2 DEF LoadsAreAwaited
<1>8. SkillSet!Switching' = SkillSet!Switching /\ p \in SkillSet!Writing'
  BY <1>1, <1>3 DEF SkillSet!Writing, SkillSet!Switching
<1>9. SwitchesAreAlone'
  <2>1. ASSUME ~skillCrossed, NEW q \in SkillRequests, skillRequest'[q].at \in {"write", "writing"}
        PROVE  skillRequest'[q].read = toldDisabled
    BY <1>1, <1>3, <2>1 DEF SkillIInv, SwitchesAreAlone
  <2> QED BY <1>1, <1>5, <1>8, <2>1 DEF SkillIInv, SwitchesAreAlone
<1>10. CutIsBehind'
  BY <1>8 DEF CutIsBehind
<1>11. RegistriesAreCurrent'
  <2>1. ASSUME NEW s \in Registries \ behind, ~(\E q \in SkillRequests : LoadBy(q, s)'.at # "none"), ~skillCrossed
        PROVE  registry[s] = SkillSet!Shown(skillFiles, skillConfig.disabled)
    <3>1. ~(\E q \in SkillRequests : LoadBy(q, s).at # "none")
      BY <1>4, <2>1
    <3> QED BY <2>1, <3>1 DEF SkillIInv, RegistriesAreCurrent, ShowsDisk
  <2> QED BY <1>1, <1>5, <2>1 DEF RegistriesAreCurrent, ShowsDisk
<1> QED BY <1>6, <1>7, <1>9, <1>10, <1>11 DEF SkillIInv

\* What one switch does to the view of its registry.
LEMMA SwitchIsShown ==
  ASSUME NEW files \in SUBSET Skills, NEW off \in SUBSET Skills, NEW n \in Skills, NEW on \in BOOLEAN,
         SkillSet!Shown(files, off)[n] # None
  PROVE  [SkillSet!Shown(files, off) EXCEPT ![n] = on] = SkillSet!Shown(files, SkillSet!Switched(off, n, on))
<1> DEFINE a == [SkillSet!Shown(files, off) EXCEPT ![n] = on]
           b == SkillSet!Shown(files, SkillSet!Switched(off, n, on))
<1>1. n \in files
  BY DEF SkillSet!Shown
<1>2. a = [m \in Skills |-> IF m = n THEN on ELSE IF m \in files THEN m \notin off ELSE None]
  BY DEF SkillSet!Shown
<1>3. ASSUME NEW m \in Skills PROVE b[m] = IF m = n THEN on ELSE IF m \in files THEN m \notin off ELSE None
  <2>1. b[m] = IF m \in files THEN m \notin SkillSet!Switched(off, n, on) ELSE None
    BY DEF SkillSet!Shown
  <2>2. CASE m = n
    <3>1. (m \notin SkillSet!Switched(off, n, on)) <=> on
      BY <2>2 DEF SkillSet!Switched
    <3>2. (m \notin SkillSet!Switched(off, n, on)) = on
      BY <3>1
    <3> QED BY <1>1, <2>1, <2>2, <3>2
  <2>3. CASE m # n
    <3>1. (m \notin SkillSet!Switched(off, n, on)) = (m \notin off)
      BY <2>3 DEF SkillSet!Switched
    <3> QED BY <2>1, <2>3, <3>1
  <2> QED BY <2>2, <2>3
<1>4. b = [m \in Skills |-> b[m]]
  BY DEF SkillSet!Shown
<1> HIDE DEF a, b
<1>5. a = b
  BY <1>2, <1>3, <1>4
<1> QED BY <1>5 DEF a, b

LEMMA EndWritePreserves ==
  ASSUME SkillIInv, NEW p \in SkillRequests, SkillSet!EndWrite(p)
  PROVE  SkillIInv'
<1> DEFINE w == skillRequest[p]
           kept == ~w.stale /\ registry[w.of][w.name] # None
           off == SkillSet!Switched(w.read, w.name, w.on)
<1>1. /\ w.at = "writing" /\ skillRequest' = [skillRequest EXCEPT ![p] = SkillSet!Idle]
      /\ registry' = IF kept THEN [registry EXCEPT ![w.of][w.name] = w.on] ELSE registry
      /\ behind' = behind \union (IF kept /\ ~skillCrossed THEN Registries \ {w.of} ELSE Registries)
      /\ toldDisabled' = SkillSet!Switched(toldDisabled, w.name, w.on) /\ skillLoad' = SkillSet!Disturbed
      /\ UNCHANGED <<skillFiles, skillCrossed>>
  BY DEF SkillSet!EndWrite
<1>2. PICK whole \in BOOLEAN :
        skillConfig' = [disabled |-> off, whole |-> whole] /\ (SkillSet!Writing = {p} => whole)
  <2>1. \E whole \in IF SkillSet!Writing = {p} THEN {TRUE} ELSE BOOLEAN :
          skillConfig' = [disabled |-> off, whole |-> whole]
    BY DEF SkillSet!EndWrite
  <2>2. CASE SkillSet!Writing = {p}
    <3>1. skillConfig' = [disabled |-> off, whole |-> TRUE]
      BY <2>1, <2>2
    <3> QED BY <3>1
  <2>3. CASE SkillSet!Writing # {p}
    <3>1. \E whole \in BOOLEAN : skillConfig' = [disabled |-> off, whole |-> whole]
      BY <2>1, <2>3
    <3> QED BY <2>3, <3>1
  <2> QED BY <2>2, <2>3
<1>3. /\ SkillTypeOK /\ w \in SkillWork /\ w.of \in Registries /\ w.name \in Skills
      /\ w.read \in SUBSET Skills /\ w.on \in BOOLEAN
  BY <1>1, RequestFields DEF SkillIInv, SkillTypeOK
<1>4. /\ skillRequest \in [SkillRequests -> SkillWork] /\ registry \in [Registries -> Views]
      /\ toldDisabled \in SUBSET Skills /\ behind \in SUBSET Registries
  BY <1>3 DEF SkillTypeOK
<1>5. /\ skillRequest' \in [SkillRequests -> SkillWork] /\ skillRequest'[p].at = "idle"
      /\ \A q \in SkillRequests \ {p} : skillRequest'[q] = skillRequest[q]
  <2>1. SkillSet!Idle \in SkillWork /\ SkillSet!Idle.at = "idle"
    BY DEF SkillSet!Idle, SkillWork
  <2> QED BY <1>1, <1>4, <2>1
<1>6. /\ skillLoad' \in [SkillRequests \X Registries -> SkillLoads]
      /\ \A q \in SkillRequests, r \in Registries :
           LoadBy(q, r)'.at = LoadBy(q, r).at /\ (LoadBy(q, r)'.clean => LoadBy(q, r).at = "none")
  BY <1>1, <1>3, DisturbedLoads
<1>7. off \in SUBSET Skills /\ toldDisabled' \in SUBSET Skills
  BY <1>1, <1>3, <1>4 DEF SkillSet!Switched
<1>8. /\ skillConfig' \in SkillConfigs /\ skillConfig'.disabled = off
      /\ (SkillSet!Writing = {p} => skillConfig'.whole)
  BY <1>2, <1>7 DEF SkillConfigs
<1>9. registry' \in [Registries -> Views]
  <2>1. CASE kept
    <3>1. registry[w.of] \in Views
      BY <1>3, <1>4
    <3>2. [registry[w.of] EXCEPT ![w.name] = w.on] \in Views
      BY <1>3, <3>1 DEF Views
    <3>3. registry' = [registry EXCEPT ![w.of] = [registry[w.of] EXCEPT ![w.name] = w.on]]
      BY <1>1, <1>3, <1>4, <2>1
    <3> QED BY <1>4, <3>2, <3>3
  <2>2. CASE ~kept
    BY <1>1, <1>4, <2>2
  <2> QED BY <2>1, <2>2
<1>10. behind' \in SUBSET Registries
       /\ (~kept \/ skillCrossed => behind' = Registries)
       /\ \A r \in Registries \ behind' : r = w.of /\ r \notin behind /\ kept /\ ~skillCrossed
  <2>1. CASE kept /\ ~skillCrossed
    BY <1>1, <1>4, <2>1
  <2>2. CASE ~(kept /\ ~skillCrossed)
    BY <1>1, <1>4, <2>2
  <2> QED BY <2>1, <2>2
<1> HIDE DEF kept, off
<1>11. SkillTypeOK'
  <2>1. ASSUME NEW q \in SkillRequests, skillRequest'[q].at \in {"read", "write", "writing", "delete"}
        PROVE  skillRequest'[q].of \in Registries /\ skillRequest'[q].name \in Skills
    BY <1>3, <1>5, <2>1 DEF SkillTypeOK
  <2>2. skillFiles' \in SUBSET Skills /\ skillCrossed' \in BOOLEAN
    BY <1>1, <1>3 DEF SkillTypeOK
  <2> QED BY <1>5, <1>6, <1>7, <1>8, <1>9, <1>10, <2>1, <2>2 DEF SkillTypeOK
<1>12. LoadsAreCurrent' /\ LoadsAreAwaited'
  <2>1. LoadsAreCurrent'
    BY <1>6 DEF LoadsAreCurrent
  <2>2. ASSUME NEW q \in SkillRequests, NEW r \in Registries, LoadBy(q, r)'.at # "none"
        PROVE  skillRequest'[q].at \in {"loads", "dropped"}
    <3>1. skillRequest[q].at \in {"loads", "dropped"}
      BY <1>6, <2>2 DEF SkillIInv, LoadsAreAwaited
    <3> QED BY <1>1, <1>5, <3>1
  <2> QED BY <2>1, <2>2 DEF LoadsAreAwaited
<1>13. ~skillCrossed => /\ SkillSet!Switching = {p} /\ SkillSet!Writing = {p}
                        /\ w.read = toldDisabled /\ skillConfig.disabled = toldDisabled
  <2>1. p \in SkillSet!Switching /\ p \in SkillSet!Writing
    BY <1>1 DEF SkillSet!Writing, SkillSet!Switching
  <2>2. SkillSet!Writing \subseteq SkillSet!Switching
    BY DEF SkillSet!Writing, SkillSet!Switching
  <2> QED BY <1>1, <2>1, <2>2 DEF SkillIInv, SwitchesAreAlone
<1>14. SwitchesAreAlone'
  <2>1. SUFFICES ASSUME ~skillCrossed PROVE SwitchesAreAlone'
    BY <1>1 DEF SwitchesAreAlone
  <2>2. \A q \in SkillRequests : skillRequest'[q].at \notin {"read", "write", "writing"}
    BY <1>5, <1>13, <2>1 DEF SkillSet!Switching
  <2>3. SkillSet!Switching' = {}
    BY <2>2 DEF SkillSet!Switching
  <2>4. skillConfig'.whole /\ skillConfig'.disabled = toldDisabled'
    BY <1>1, <1>8, <1>13, <2>1 DEF off
  <2> QED BY <2>2, <2>3, <2>4 DEF SwitchesAreAlone
<1>15. CutIsBehind'
  <2>1. CASE skillCrossed
    BY <1>10, <2>1 DEF CutIsBehind
  <2>2. CASE ~skillCrossed
    BY <1>8, <1>13, <2>2 DEF CutIsBehind
  <2> QED BY <2>1, <2>2
<1>16. RegistriesAreCurrent'
  <2>1. ASSUME NEW r \in Registries \ behind', ~(\E q \in SkillRequests : LoadBy(q, r)'.at # "none")
        PROVE  registry'[r] = SkillSet!Shown(skillFiles, off)
    <3>1. r = w.of /\ r \in Registries \ behind /\ kept /\ ~skillCrossed
      BY <1>10, <2>1
    <3>2. ~(\E q \in SkillRequests : LoadBy(q, r).at # "none")
      BY <1>6, <2>1
    <3>3. registry[r] = SkillSet!Shown(skillFiles, w.read)
      BY <1>13, <3>1, <3>2 DEF SkillIInv, RegistriesAreCurrent, ShowsDisk
    <3>4. registry[r][w.name] # None
      BY <3>1 DEF kept
    <3>5. skillFiles \in SUBSET Skills
      BY <1>3 DEF SkillTypeOK
    <3>6. [registry[r] EXCEPT ![w.name] = w.on] = SkillSet!Shown(skillFiles, off)
      <4>1. SkillSet!Shown(skillFiles, w.read)[w.name] # None
        BY <3>3, <3>4
      <4> HIDE DEF w
      <4>2. [SkillSet!Shown(skillFiles, w.read) EXCEPT ![w.name] = w.on]
              = SkillSet!Shown(skillFiles, SkillSet!Switched(w.read, w.name, w.on))
        BY <1>3, <3>5, <4>1, SwitchIsShown
      <4> QED BY <3>3, <4>2 DEF off
    <3>7. registry' = [registry EXCEPT ![w.of][w.name] = w.on]
      BY <1>1, <3>1 DEF kept
    <3>8. registry'[r] = [registry[r] EXCEPT ![w.name] = w.on]
      BY <1>4, <3>1, <3>7
    <3> QED BY <3>6, <3>8
  <2> QED BY <1>1, <1>8, <2>1 DEF RegistriesAreCurrent, ShowsDisk
<1> QED BY <1>11, <1>12, <1>14, <1>15, <1>16 DEF SkillIInv

\* What a request for other files leaves alone.
LEMMA FilesChange ==
  ASSUME SkillIInv, NEW p \in SkillRequests, NEW step \in {"delete", "loads"},
         skillFiles' \in SUBSET Skills, behind' = Registries,
         skillRequest' \in [SkillRequests -> SkillWork],
         skillRequest[p].at = "idle", skillRequest'[p].at = step,
         step = "delete" => skillRequest'[p].of \in Registries /\ skillRequest'[p].name \in Skills,
         \A q \in SkillRequests \ {p} : skillRequest'[q] = skillRequest[q],
         skillLoad' \in [SkillRequests \X Registries -> SkillLoads],
         \A q \in SkillRequests, r \in Registries :
           \/ q = p /\ step = "loads" /\ LoadBy(q, r)'.at = "config"
           \/ LoadBy(q, r)'.at = LoadBy(q, r).at /\ (LoadBy(q, r)'.clean => LoadBy(q, r).at = "none"),
         UNCHANGED <<skillConfig, registry, toldDisabled, skillCrossed>>
  PROVE  SkillIInv'
<1>1. SkillTypeOK'
  <2>1. ASSUME NEW q \in SkillRequests, skillRequest'[q].at \in {"read", "write", "writing", "delete"}
        PROVE  skillRequest'[q].of \in Registries /\ skillRequest'[q].name \in Skills
    <3>1. CASE q = p
      BY <2>1, <3>1
    <3>2. CASE q # p
      BY <2>1, <3>2 DEF SkillIInv, SkillTypeOK
    <3> QED BY <3>1, <3>2
  <2>2. /\ skillConfig' \in SkillConfigs /\ toldDisabled' \in SUBSET Skills /\ skillCrossed' \in BOOLEAN
        /\ registry' \in [Registries -> Views]
    BY DEF SkillIInv, SkillTypeOK
  <2>3. behind' \in SUBSET Registries
    OBVIOUS
  <2> QED BY <2>1, <2>2, <2>3 DEF SkillTypeOK
<1>2. LoadsAreCurrent'
  BY DEF LoadsAreCurrent
<1>3. LoadsAreAwaited'
  <2>1. ASSUME NEW q \in SkillRequests, NEW r \in Registries, LoadBy(q, r)'.at # "none"
        PROVE  skillRequest'[q].at \in {"loads", "dropped"}
    <3>1. CASE q = p /\ step = "loads"
      BY <3>1
    <3>2. CASE ~(q = p /\ step = "loads")
      <4>1. skillRequest[q].at \in {"loads", "dropped"}
        BY <2>1, <3>2 DEF SkillIInv, LoadsAreAwaited
      <4> QED BY <4>1
    <3> QED BY <3>1, <3>2
  <2> QED BY <2>1 DEF LoadsAreAwaited
<1>4. SwitchesAreAlone'
  <2>1. skillRequest[p].at \notin Switched /\ skillRequest'[p].at \notin Switched
    BY DEF Switched
  <2> QED BY <2>1, SwitchesStay DEF SkillIInv
<1>5. CutIsBehind' /\ RegistriesAreCurrent'
  BY DEF CutIsBehind, RegistriesAreCurrent
<1> QED BY <1>1, <1>2, <1>3, <1>4, <1>5 DEF SkillIInv

LEMMA ImportPreserves ==
  ASSUME SkillIInv, NEW p \in SkillRequests, NEW n \in Skills, SkillSet!Import(p, n)
  PROVE  SkillIInv'
<1>1. /\ SkillSet!Begin(p, None, "loads", n, FALSE) /\ skillFiles' = skillFiles \union {n}
      /\ behind' = Registries /\ skillLoad' = SkillSet!Loads(p, Registries, SkillSet!Disturbed)
      /\ UNCHANGED <<skillConfig, registry, toldDisabled, skillCrossed>>
  BY DEF SkillSet!Import
<1>2. SkillTypeOK /\ skillFiles' \in SUBSET Skills
  BY <1>1 DEF SkillIInv, SkillTypeOK
<1>3. /\ skillRequest' \in [SkillRequests -> SkillWork]
      /\ skillRequest[p].at = "idle" /\ skillRequest'[p].at = "loads"
      /\ \A q \in SkillRequests \ {p} : skillRequest'[q] = skillRequest[q]
  BY <1>1, <1>2, RequestComes
<1> DEFINE loads == [x \in SkillRequests \X Registries |-> [skillLoad[x] EXCEPT !.clean = skillLoad[x].at = "none"]]
<1>4. /\ SkillSet!Disturbed = loads /\ loads \in [SkillRequests \X Registries -> SkillLoads]
      /\ \A q \in SkillRequests, r \in Registries :
           loads[<<q, r>>].at = LoadBy(q, r).at /\ (loads[<<q, r>>].clean => LoadBy(q, r).at = "none")
  <2>1. skillLoad \in [SkillRequests \X Registries -> SkillLoads]
    BY <1>2 DEF SkillTypeOK
  <2>2. ASSUME NEW x \in SkillRequests \X Registries
        PROVE  loads[x] \in SkillLoads /\ loads[x].at = skillLoad[x].at
               /\ (loads[x].clean => skillLoad[x].at = "none")
    <3>1. skillLoad[x] \in SkillLoads /\ loads[x] = [skillLoad[x] EXCEPT !.clean = skillLoad[x].at = "none"]
      BY <2>1
    <3> QED BY <3>1 DEF SkillLoads
  <2>3. loads \in [SkillRequests \X Registries -> SkillLoads]
    BY <2>2
  <2> QED BY <2>1, <2>2, <2>3 DEF SkillSet!Disturbed, LoadBy
<1> HIDE DEF loads
<1>5. /\ skillLoad' \in [SkillRequests \X Registries -> SkillLoads]
      /\ \A q \in SkillRequests, r \in Registries :
           IF q = p THEN LoadBy(q, r)'.at = "config" ELSE LoadBy(q, r)' = loads[<<q, r>>]
  <2>1. skillLoad' = [x \in SkillRequests \X Registries |->
                       IF x[1] = p /\ x[2] \in Registries
                       THEN [SkillSet!NoLoad EXCEPT !.at = "config"] ELSE loads[x]]
    BY <1>1, <1>4 DEF SkillSet!Loads
  <2>2. skillLoad' \in [SkillRequests \X Registries -> SkillLoads]
    BY <1>4, <2>1, FreshLoad
  <2>3. ASSUME NEW q \in SkillRequests, NEW r \in Registries
        PROVE  IF q = p THEN LoadBy(q, r)'.at = "config" ELSE LoadBy(q, r)' = loads[<<q, r>>]
    <3>1. skillLoad'[<<q, r>>] = IF q = p THEN [SkillSet!NoLoad EXCEPT !.at = "config"]
                                 ELSE loads[<<q, r>>]
      BY <2>1
    <3> QED BY <3>1, FreshLoad DEF LoadBy
  <2> QED BY <2>2, <2>3
<1>6. \A q \in SkillRequests, r \in Registries :
        \/ q = p /\ LoadBy(q, r)'.at = "config"
        \/ LoadBy(q, r)'.at = LoadBy(q, r).at /\ (LoadBy(q, r)'.clean => LoadBy(q, r).at = "none")
  BY <1>4, <1>5
<1> QED BY <1>1, <1>2, <1>3, <1>5, <1>6, FilesChange

LEMMA DeletePreserves ==
  ASSUME SkillIInv, NEW p \in SkillRequests, NEW r \in Registries, NEW n \in Skills,
         SkillSet!Delete(p, r, n)
  PROVE  SkillIInv'
<1>1. /\ SkillSet!Begin(p, r, "delete", n, FALSE) /\ skillFiles' = skillFiles \ {n}
      /\ behind' = Registries /\ skillLoad' = SkillSet!Disturbed
      /\ UNCHANGED <<skillConfig, registry, toldDisabled, skillCrossed>>
  BY DEF SkillSet!Delete
<1>2. SkillTypeOK /\ skillFiles' \in SUBSET Skills
  BY <1>1 DEF SkillIInv, SkillTypeOK
<1>3. /\ skillRequest' \in [SkillRequests -> SkillWork]
      /\ skillRequest[p].at = "idle" /\ skillRequest'[p].at = "delete"
      /\ skillRequest'[p].of = r /\ skillRequest'[p].name = n
      /\ \A q \in SkillRequests \ {p} : skillRequest'[q] = skillRequest[q]
  BY <1>1, <1>2, RequestComes
<1>4. /\ skillLoad' \in [SkillRequests \X Registries -> SkillLoads]
      /\ \A q \in SkillRequests, s \in Registries :
           LoadBy(q, s)'.at = LoadBy(q, s).at /\ (LoadBy(q, s)'.clean => LoadBy(q, s).at = "none")
  BY <1>1, <1>2, DisturbedLoads
<1> QED BY <1>1, <1>2, <1>3, <1>4, FilesChange

LEMMA DropPreserves ==
  ASSUME SkillIInv, NEW p \in SkillRequests, SkillSet!Drop(p)
  PROVE  SkillIInv'
<1> DEFINE r == skillRequest[p].of
           n == skillRequest[p].name
<1>1. /\ skillRequest[p].at = "delete" /\ SkillSet!To(p, "dropped")
      /\ registry' = [registry EXCEPT ![r][n] = None]
      /\ skillLoad' = SkillSet!Loads(p, {r}, skillLoad)
      /\ UNCHANGED <<skillFiles, skillConfig, toldDisabled, skillCrossed, behind>>
  BY DEF SkillSet!Drop
<1>2. /\ SkillTypeOK /\ OfSkill(p) /\ r \in Registries /\ n \in Skills
      /\ skillLoad \in [SkillRequests \X Registries -> SkillLoads] /\ registry \in [Registries -> Views]
  BY <1>1 DEF SkillIInv, SkillTypeOK, OfSkill
<1>3. /\ skillRequest' \in [SkillRequests -> SkillWork] /\ skillRequest'[p].at = "dropped"
      /\ \A q \in SkillRequests \ {p} : skillRequest'[q] = skillRequest[q]
  BY <1>1, <1>2, RequestMoves
<1>4. /\ registry' \in [Registries -> Views] /\ \A s \in Registries \ {r} : registry'[s] = registry[s]
  <2>1. registry[r] \in Views
    BY <1>2
  <2>2. [registry[r] EXCEPT ![n] = None] \in Views
    BY <1>2, <2>1 DEF Views
  <2>3. registry' = [registry EXCEPT ![r] = [registry[r] EXCEPT ![n] = None]]
    BY <1>1, <1>2
  <2> QED BY <1>2, <2>2, <2>3
<1> HIDE DEF r, n
<1>5. /\ skillLoad' \in [SkillRequests \X Registries -> SkillLoads]
      /\ \A q \in SkillRequests, s \in Registries :
           IF q = p /\ s = r THEN LoadBy(q, s)'.at = "config" ELSE LoadBy(q, s)' = LoadBy(q, s)
  <2>1. skillLoad' = [x \in SkillRequests \X Registries |->
                       IF x[1] = p /\ x[2] \in {r} THEN [SkillSet!NoLoad EXCEPT !.at = "config"]
                       ELSE skillLoad[x]]
    BY <1>1, <1>2 DEF SkillSet!Loads
  <2>2. skillLoad' \in [SkillRequests \X Registries -> SkillLoads]
    BY <1>2, <2>1, FreshLoad
  <2>3. ASSUME NEW q \in SkillRequests, NEW s \in Registries
        PROVE  IF q = p /\ s = r THEN LoadBy(q, s)'.at = "config" ELSE LoadBy(q, s)' = LoadBy(q, s)
    <3>1. skillLoad'[<<q, s>>] = IF q = p /\ s = r THEN [SkillSet!NoLoad EXCEPT !.at = "config"]
                                 ELSE skillLoad[<<q, s>>]
      BY <2>1
    <3> QED BY <3>1, FreshLoad DEF LoadBy
  <2> QED BY <2>2, <2>3
<1>6. SkillTypeOK'
  <2>1. ASSUME NEW q \in SkillRequests, skillRequest'[q].at \in {"read", "write", "writing", "delete"}
        PROVE  skillRequest'[q].of \in Registries /\ skillRequest'[q].name \in Skills
    BY <1>2, <1>3, <2>1 DEF SkillTypeOK
  <2>2. /\ skillFiles' \in SUBSET Skills /\ skillConfig' \in SkillConfigs /\ toldDisabled' \in SUBSET Skills
        /\ skillCrossed' \in BOOLEAN /\ behind' \in SUBSET Registries
    BY <1>1, <1>2 DEF SkillTypeOK
  <2> QED BY <1>3, <1>4, <1>5, <2>1, <2>2 DEF SkillTypeOK
<1>7. LoadsAreCurrent'
  <2>1. ASSUME NEW q \in SkillRequests, NEW s \in Registries, LoadBy(q, s)'.clean
        PROVE  /\ LoadBy(q, s)'.at \in {"scan", "install"} =>
                    skillConfig.whole /\ LoadBy(q, s)'.disabled = skillConfig.disabled
               /\ LoadBy(q, s)'.at = "install" => LoadBy(q, s)'.found = skillFiles
    <3>1. CASE q = p /\ s = r
      BY <1>5, <3>1
    <3>2. CASE ~(q = p /\ s = r)
      <4>1. LoadBy(q, s)' = LoadBy(q, s)
        BY <1>5, <3>2
      <4> QED BY <2>1, <4>1 DEF SkillIInv, LoadsAreCurrent
    <3> QED BY <3>1, <3>2
  <2> QED BY <1>1, <2>1 DEF LoadsAreCurrent
<1>8. LoadsAreAwaited'
  <2>1. ASSUME NEW q \in SkillRequests, NEW s \in Registries, LoadBy(q, s)'.at # "none"
        PROVE  skillRequest'[q].at \in {"loads", "dropped"}
    <3>1. CASE q = p
      BY <1>3, <3>1
    <3>2. CASE q # p
      BY <1>3, <1>5, <2>1, <3>2 DEF SkillIInv, LoadsAreAwaited
    <3> QED BY <3>1, <3>2
  <2> QED BY <2>1 DEF LoadsAreAwaited
<1>9. SwitchesAreAlone' /\ SkillSet!Writing' = SkillSet!Writing
  <2>1. skillRequest[p].at \notin Switched /\ skillRequest'[p].at \notin Switched
    BY <1>1, <1>3 DEF Switched
  <2> QED BY <1>1, <1>3, <2>1, SwitchesStay DEF SkillIInv
<1>10. CutIsBehind'
  BY <1>1, <1>9 DEF SkillIInv, CutIsBehind
<1>11. RegistriesAreCurrent'
  <2>1. ASSUME NEW s \in Registries \ behind, ~(\E q \in SkillRequests : LoadBy(q, s)'.at # "none")
        PROVE  ShowsDisk(s)'
    <3>1. s # r /\ ~(\E q \in SkillRequests : LoadBy(q, s).at # "none")
      BY <1>5, <2>1
    <3> QED BY <1>1, <1>4, <2>1, <3>1 DEF SkillIInv, RegistriesAreCurrent, ShowsDisk
  <2> QED BY <1>1, <2>1 DEF RegistriesAreCurrent
<1> QED BY <1>6, <1>7, <1>8, <1>9, <1>10, <1>11 DEF SkillIInv

LEMMA SkillsRestart ==
  ASSUME SkillIInv, SkillSet!Restart
  PROVE  SkillIInv'
<1>1. /\ skillRequest' = [q \in SkillRequests |-> SkillSet!Idle]
      /\ skillLoad' = [x \in DOMAIN skillLoad |-> SkillSet!NoLoad]
      /\ registry' = [r \in Registries |-> SkillSet!Shown(skillFiles, SkillSet!ReadConfig)]
      /\ behind' = IF skillConfig.whole THEN {} ELSE Registries
      /\ skillCrossed' = (skillCrossed \/ SkillSet!Writing # {})
      /\ UNCHANGED <<skillFiles, skillConfig, toldDisabled>>
  BY DEF SkillSet!Restart
<1>2. SkillTypeOK /\ DOMAIN skillLoad = SkillRequests \X Registries
  BY DEF SkillIInv, SkillTypeOK
<1>3. skillRequest' \in [SkillRequests -> SkillWork] /\ \A q \in SkillRequests : skillRequest'[q].at = "idle"
  <2>1. SkillSet!Idle \in SkillWork /\ SkillSet!Idle.at = "idle"
    BY DEF SkillSet!Idle, SkillWork
  <2> QED BY <1>1, <2>1
<1>4. /\ skillLoad' \in [SkillRequests \X Registries -> SkillLoads]
      /\ \A q \in SkillRequests, r \in Registries : LoadBy(q, r)'.at = "none"
  <2>1. skillLoad' \in [SkillRequests \X Registries -> SkillLoads]
    BY <1>1, <1>2, FreshLoad
  <2>2. ASSUME NEW q \in SkillRequests, NEW r \in Registries PROVE LoadBy(q, r)'.at = "none"
    <3>1. skillLoad'[<<q, r>>] = SkillSet!NoLoad
      BY <1>1, <1>2
    <3> QED BY <3>1, FreshLoad DEF LoadBy
  <2> QED BY <2>1, <2>2
<1>5. registry' \in [Registries -> Views] /\ behind' \in SUBSET Registries /\ skillCrossed' \in BOOLEAN
  <2>1. behind' \in SUBSET Registries
    BY <1>1
  <2>2. registry' \in [Registries -> Views]
    BY <1>1, ShownIsView
  <2>3. skillCrossed' \in BOOLEAN
    BY <1>1
  <2> QED BY <2>1, <2>2, <2>3
<1>6. SkillTypeOK'
  BY <1>1, <1>2, <1>3, <1>4, <1>5 DEF SkillTypeOK
<1>7. LoadsAreCurrent' /\ LoadsAreAwaited'
  BY <1>4 DEF LoadsAreCurrent, LoadsAreAwaited
<1>8. SkillSet!Writing' = {} /\ SkillSet!Switching' = {}
  BY <1>3 DEF SkillSet!Writing, SkillSet!Switching
<1>9. SwitchesAreAlone'
  BY <1>1, <1>3, <1>8 DEF SkillIInv, SwitchesAreAlone
<1>10. CutIsBehind' /\ RegistriesAreCurrent'
  BY <1>1, <1>2, ConfigFields DEF CutIsBehind, RegistriesAreCurrent, ShowsDisk
<1> QED BY <1>6, <1>7, <1>9, <1>10 DEF SkillIInv

LEMMA SkillsInitially == SkillSet!Init => SkillIInv
<1> SUFFICES ASSUME SkillSet!Init PROVE SkillIInv
  OBVIOUS
<1>1. /\ skillFiles \in SUBSET Skills /\ skillConfig = [disabled |-> {}, whole |-> TRUE]
      /\ registry = [r \in Registries |-> SkillSet!Shown(skillFiles, {})]
      /\ skillLoad = [x \in SkillRequests \X Registries |-> SkillSet!NoLoad]
      /\ skillRequest = [q \in SkillRequests |-> SkillSet!Idle]
      /\ toldDisabled = {} /\ skillCrossed = FALSE /\ behind = {}
  BY DEF SkillSet!Init
<1>2. skillConfig \in SkillConfigs /\ skillConfig.disabled = {} /\ skillConfig.whole
  BY <1>1 DEF SkillConfigs
<1>3. skillRequest \in [SkillRequests -> SkillWork] /\ \A q \in SkillRequests : skillRequest[q].at = "idle"
  <2>1. SkillSet!Idle \in SkillWork /\ SkillSet!Idle.at = "idle"
    BY DEF SkillSet!Idle, SkillWork
  <2> QED BY <1>1, <2>1
<1>4. /\ skillLoad \in [SkillRequests \X Registries -> SkillLoads]
      /\ \A q \in SkillRequests, r \in Registries : LoadBy(q, r).at = "none"
  <2>1. skillLoad \in [SkillRequests \X Registries -> SkillLoads]
    BY <1>1, FreshLoad
  <2>2. ASSUME NEW q \in SkillRequests, NEW r \in Registries PROVE LoadBy(q, r).at = "none"
    <3>1. skillLoad[<<q, r>>] = SkillSet!NoLoad
      BY <1>1
    <3> QED BY <3>1, FreshLoad DEF LoadBy
  <2> QED BY <2>1, <2>2
<1>5. registry \in [Registries -> Views]
  BY <1>1, ShownIsView
<1>6. SkillTypeOK
  BY <1>1, <1>2, <1>3, <1>4, <1>5 DEF SkillTypeOK
<1>7. LoadsAreCurrent /\ LoadsAreAwaited
  BY <1>4 DEF LoadsAreCurrent, LoadsAreAwaited
<1>8. SkillSet!Writing = {} /\ SkillSet!Switching = {}
  BY <1>3 DEF SkillSet!Writing, SkillSet!Switching
<1>9. SwitchesAreAlone
  BY <1>1, <1>2, <1>3, <1>8 DEF SwitchesAreAlone
<1>10. CutIsBehind /\ RegistriesAreCurrent
  BY <1>1, <1>2 DEF CutIsBehind, RegistriesAreCurrent, ShowsDisk
<1> QED BY <1>6, <1>7, <1>9, <1>10 DEF SkillIInv

LEMMA SkillSteps == SkillIInv /\ [SkillSet!Next]_(SkillSet!vars) => SkillIInv'
<1> SUFFICES ASSUME SkillIInv, [SkillSet!Next]_(SkillSet!vars) PROVE SkillIInv'
  OBVIOUS
<1>1. CASE SkillSet!Restart
  BY <1>1, SkillsRestart
<1>2. CASE UNCHANGED SkillSet!vars
  <2>1. UNCHANGED <<skillFiles, skillConfig, registry, skillLoad, skillRequest, toldDisabled,
                    skillCrossed, behind>>
    BY <1>2 DEF SkillSet!vars
  <2>2. SkillTypeOK' /\ LoadsAreCurrent' /\ LoadsAreAwaited'
    BY <2>1 DEF SkillIInv, SkillTypeOK, LoadsAreCurrent, LoadsAreAwaited, LoadBy
  <2>3. SkillSet!Writing' = SkillSet!Writing /\ SkillSet!Switching' = SkillSet!Switching
    BY <2>1 DEF SkillSet!Writing, SkillSet!Switching
  <2>4. SwitchesAreAlone' /\ CutIsBehind' /\ RegistriesAreCurrent'
    BY <2>1, <2>3 DEF SkillIInv, SwitchesAreAlone, CutIsBehind, RegistriesAreCurrent, ShowsDisk, LoadBy
  <2> QED BY <2>2, <2>4 DEF SkillIInv
<1>3. ASSUME NEW q \in SkillRequests,
             \/ SkillSet!ReadsConfig(q) \/ SkillSet!BeginWrite(q) \/ SkillSet!EndWrite(q)
             \/ SkillSet!Drop(q) \/ SkillSet!ReloadAll(q) \/ SkillSet!Answer(q)
      PROVE  SkillIInv'
  <2>1. CASE SkillSet!ReadsConfig(q)
    BY <2>1, ReadsConfigPreserves
  <2>2. CASE SkillSet!BeginWrite(q)
    BY <2>2, BeginWritePreserves
  <2>3. CASE SkillSet!EndWrite(q)
    BY <2>3, EndWritePreserves
  <2>4. CASE SkillSet!Drop(q)
    BY <2>4, DropPreserves
  <2>5. CASE SkillSet!ReloadAll(q)
    BY <2>5, ReloadAllPreserves
  <2>6. CASE SkillSet!Answer(q)
    BY <2>6, AnswerPreserves
  <2> QED BY <1>3, <2>1, <2>2, <2>3, <2>4, <2>5, <2>6
<1>4. ASSUME NEW q \in SkillRequests, NEW n \in Skills, SkillSet!Import(q, n)
      PROVE  SkillIInv'
  BY <1>4, ImportPreserves
<1>5. ASSUME NEW q \in SkillRequests, NEW r \in Registries,
             \/ SkillSet!Reload(q, r) \/ SkillSet!LoadReads(q, r) \/ SkillSet!LoadScans(q, r)
             \/ SkillSet!LoadInstalls(q, r)
      PROVE  SkillIInv'
  <2>1. CASE SkillSet!Reload(q, r)
    BY <2>1, ReloadPreserves
  <2>2. CASE SkillSet!LoadReads(q, r)
    BY <2>2, LoadReadsPreserves
  <2>3. CASE SkillSet!LoadScans(q, r)
    BY <2>3, LoadScansPreserves
  <2>4. CASE SkillSet!LoadInstalls(q, r)
    BY <2>4, LoadInstallsPreserves
  <2> QED BY <1>5, <2>1, <2>2, <2>3, <2>4
<1>6. ASSUME NEW q \in SkillRequests, NEW r \in Registries, NEW n \in Skills, SkillSet!Delete(q, r, n)
      PROVE  SkillIInv'
  BY <1>6, DeletePreserves
<1>7. ASSUME NEW q \in SkillRequests, NEW r \in Registries, NEW n \in Skills, NEW on \in BOOLEAN,
             SkillSet!SetEnabled(q, r, n, on)
      PROVE  SkillIInv'
  BY <1>7, SetEnabledPreserves
<1>8. CASE SkillSet!Next
  BY <1>1, <1>3, <1>4, <1>5, <1>6, <1>7, <1>8 DEF SkillSet!Next
<1> QED BY <1>2, <1>8

LEMMA SkillsFollow == SkillSet!Spec => []SkillSet!SkillsFollowTheConfig
<1>1. SkillIInv => SkillSet!SkillsFollowTheConfig
  <2> SUFFICES ASSUME SkillIInv, SkillSet!Resting PROVE SkillSet!SkillsFollowTheConfig
    BY DEF SkillSet!SkillsFollowTheConfig
  <2>1. SkillSet!Writing = {} /\ \A q \in SkillRequests, r \in Registries : LoadBy(q, r).at = "none"
    BY DEF SkillIInv, LoadsAreAwaited, SkillSet!Writing, SkillSet!Resting
  <2>2. SkillTypeOK /\ skillConfig \in SkillConfigs
    BY DEF SkillIInv, SkillTypeOK
  <2>3. ~skillCrossed => skillConfig = [disabled |-> toldDisabled, whole |-> TRUE]
    <3>1. ~skillCrossed => skillConfig.disabled = toldDisabled /\ skillConfig.whole = TRUE
      BY <2>1, <2>2, ConfigFields DEF SkillIInv, SwitchesAreAlone
    <3> QED BY <2>2, <3>1 DEF SkillConfigs
  <2>4. ASSUME NEW r \in Registries \ behind
        PROVE  registry[r] = SkillSet!Shown(skillFiles, SkillSet!ReadConfig)
    <3>1. skillConfig.whole
      BY <2>1, <2>4 DEF SkillIInv, CutIsBehind
    <3> QED BY <2>1, <2>2, <2>4, <3>1, ConfigFields DEF SkillIInv, RegistriesAreCurrent, ShowsDisk
  <2> QED BY <2>3, <2>4 DEF SkillSet!SkillsFollowTheConfig
<1>2. SkillSet!Spec => []SkillIInv
  BY SkillsInitially, SkillSteps, PTL DEF SkillSet!Spec
<1> QED BY <1>1, <1>2, PTL

==================================================================================
