-------------------------------- MODULE Executor --------------------------------
(***************************************************************************)
(* The ReAct loop of packages/agent-core: executor.ts under agent-runtime  *)
(* and runTask, with the Session records it writes, the tool approvals of  *)
(* apps/runtime/server.ts and the stop of a Run.                           *)
(*                                                                         *)
(* One Run at a time works on one Session.  Between two awaits the loop is *)
(* one step; stop, an answer to an approval, its timer, a repository that  *)
(* throws and a restart come at any await.  How an attempt ends is any     *)
(* outcome of ModelStream.                                                 *)
(***************************************************************************)
EXTENDS ModelStream
LOCAL INSTANCE SequencesExt

CONSTANTS MaxTurns,          \* budget.maxModelTurns
          MaxAttempts,       \* budget.maxModelAttempts
          MaxRetries,        \* budget.maxRetriesPerTurn
          Budgets,           \* how many output budgets the model declares
          MaxContinuations,  \* MAX_CONTINUATIONS
          MaxRuns,           \* bound: Runs of the Session
          MaxSteers,         \* bound: Steers consumed
          MaxFaults,         \* bound: repository calls that throw
          MaxCrashes,        \* bound: restarts of the process
          MaxAsks,           \* bound: approvals asked for
          MaxAnswers         \* bound: answers in flight

ASSUME ExecutorAssumption ==
  /\ {MaxTurns, MaxAttempts, Budgets, MaxRuns} \subseteq Nat \ {0}
  /\ {MaxRetries, MaxContinuations, MaxSteers, MaxFaults, MaxCrashes, MaxAsks, MaxAnswers} \subseteq Nat

Runs == 1 .. MaxRuns
CallIds == Runs \X (1 .. MaxTurns) \X (1 .. MaxCalls)
Decisions == {"allow", "deny"}

VARIABLES
  \* the Session journal
  history,   \* Session.messages
  active,    \* activeTaskId
  reports,   \* the status of each settled Run
  started,   \* calls with a tool_started record
  asked,     \* calls with an approval_requested record
  resolved,  \* asked call -> the approval_resolved records, in their order
  \* the process
  loop,      \* place and local variables of runReActLoop
  working,   \* workingMessages
  request,   \* the messages of the model request in flight
  draft,     \* the text of the open assistant message on the page, by attempt
  stopped,   \* signal.aborted
  answers,   \* decisions whose handler has found the pending approval
  \* the world
  effects,   \* how often each call took effect
  late,      \* calls that took effect after the stop of their Run
  faults, crashes

journal == <<history, active, reports, started, asked, resolved>>
page == <<draft, answers>>
world == <<effects, late>>
vars == <<journal, loop, working, request, page, stopped, world, faults, crashes>>

User(r) == [role |-> "user", run |-> r, calls |-> <<>>, call |-> <<>>, empty |-> FALSE]
Steer(r) == [User(r) EXCEPT !.role = "steer"]
Continue == [User(0) EXCEPT !.role = "continue"]
Assistant(r, calls, empty) ==
  [role |-> "assistant", run |-> r, calls |-> calls, call |-> <<>>, empty |-> empty]
Tool(id) == [role |-> "tool", run |-> id[1], calls |-> <<>>, call |-> id, empty |-> FALSE]

NoResponse == [text |-> <<>>, calls |-> <<>>, finish |-> "none"]
Idle == [at |-> "off", turn |-> 0, attempts |-> 0, retries |-> 0, overflowed |-> FALSE,
         budget |-> 1, continued |-> 0, kept |-> <<>>, response |-> NoResponse,
         next |-> 1, natural |-> FALSE, end |-> "none"]

Run == active
Call == loop.response.calls[loop.next]
Fails == faults < MaxFaults /\ faults' = faults + 1
Works == UNCHANGED faults
Goto(place) == loop' = [loop EXCEPT !.at = place]
\* return from runReActLoop; agent-runtime and runTask carry the status on
Return(status) == loop' = [Idle EXCEPT !.at = "report", !.end = status]
\* failureLoopResult
Throw == Return(IF stopped THEN "aborted" ELSE "failed")

\* runTask throws: the chain of the coordinator ends, and the Run stays active with
\* nobody at work on it.
Lose == loop' = [Idle EXCEPT !.at = "lost"]

Statuses == {"completed", "limited", "aborted", "failed", "interrupted"}

Places == {"off", "turn", "attempt", "stream", "retry", "commit", "call", "tool", "ask",
           "wait", "effect", "outcome", "boundary", "report", "lost"}
Messages == [role : {"user", "steer", "assistant", "tool"}, run : Runs, calls : Batches(CallIds),
             call : CallIds \cup {<<>>}, empty : BOOLEAN]
Finishes == {o.finish : o \in Outcomes} \cup {"none"}
Responses == [text : Seq(Nat), calls : Batches(CallIds), finish : Finishes]
Loops == [at : Places, turn : 0 .. MaxTurns, attempts : 0 .. MaxAttempts, retries : 0 .. MaxRetries,
          overflowed : BOOLEAN, budget : 1 .. Budgets, continued : 0 .. MaxContinuations,
          kept : Seq(Nat), response : Responses, next : 1 .. MaxCalls + 1, natural : BOOLEAN,
          end : Statuses \cup {"none"}]

TypeOK ==
  /\ history \in Seq(Messages)
  /\ active \in 0 .. MaxRuns /\ reports \in [Runs -> Statuses \cup {"none"}]
  /\ started \in SUBSET CallIds /\ asked \in SUBSET started
  /\ resolved \in [CallIds -> Seq(Decisions)]
  /\ loop \in Loops /\ stopped \in BOOLEAN
  /\ (loop.at = "off") = (active = 0)
  /\ (loop.at = "report") = (loop.end # "none")
  /\ effects \in [CallIds -> Nat] /\ late \in SUBSET CallIds
  /\ faults \in 0 .. MaxFaults /\ crashes \in 0 .. MaxCrashes

Init ==
  /\ history = <<>> /\ active = 0 /\ reports = [r \in Runs |-> "none"]
  /\ started = {} /\ asked = {} /\ resolved = [c \in CallIds |-> <<>>]
  /\ loop = Idle /\ working = <<>> /\ request = <<>> /\ draft = <<>>
  /\ stopped = FALSE /\ answers = <<>>
  /\ effects = [c \in CallIds |-> 0] /\ late = {}
  /\ faults = 0 /\ crashes = 0

-------------------------------------------------------------------------------
(* The requests *)

\* pairedMessages: results without a call are dropped, calls without a result
\* stay.
PairedMessages(ms) ==
  LET Known(i) == \E j \in 1 .. i - 1 : \E k \in 1 .. Len(ms[j].calls) : ms[j].calls[k] = ms[i].call
      kept == {i \in 1 .. Len(ms) : ms[i].role = "tool" => Known(i)}
  IN [n \in 1 .. Cardinality(kept) |->
       ms[CHOOSE i \in kept : Cardinality({j \in kept : j <= i}) = n]]

\* The loop starts from the history without empty assistant turns.
Valid(ms) == SelectSeq(PairedMessages(ms), LAMBDA m : ~(m.role = "assistant" /\ m.empty))

\* While an answer is continued, what there is of it and the order to go on
\* follow the working messages.
RequestOf ==
  working \o (IF loop.continued = 0 THEN <<>>
              ELSE (IF loop.kept = <<>> THEN <<>> ELSE <<Assistant(Run, <<>>, FALSE)>>)
                     \o <<Continue>>)

-------------------------------------------------------------------------------
(* The Run *)

\* runTask: the user message and the Run are one commit; the load of the Session that
\* follows it for a Run of the coordinator may throw.
BeginRun(r) ==
  /\ active = 0 /\ reports[r] = "none" /\ \A q \in Runs : q < r => reports[q] # "none"
  /\ active' = r
  /\ history' = Append(history, User(r))
  /\ working' = Valid(Append(history, User(r)))
  /\ \/ Works /\ loop' = [Idle EXCEPT !.at = "turn"]
     \/ Fails /\ Lose
  /\ stopped' = FALSE /\ draft' = <<>> /\ request' = <<>>
  /\ UNCHANGED <<reports, started, asked, resolved, answers, world, crashes>>

\* The head of the loop.
TurnStarts ==
  /\ loop.at = "turn"
  /\ IF loop.turn = MaxTurns THEN Return("limited")
     ELSE IF stopped THEN Return("aborted")
     ELSE loop' = [Idle EXCEPT !.at = "attempt", !.turn = loop.turn + 1, !.attempts = loop.attempts]
  /\ draft' = IF loop.turn = MaxTurns \/ stopped THEN draft ELSE <<>>
  /\ UNCHANGED <<journal, working, request, answers, stopped, world, faults, crashes>>

\* One attempt up to the model call: the context is prepared and committed,
\* which may throw.
Attempt ==
  /\ loop.at = "attempt"
  /\ \/ loop.attempts = MaxAttempts /\ Return("limited") /\ Works /\ UNCHANGED request
     \/ /\ loop.attempts < MaxAttempts /\ Works
        /\ loop' = [loop EXCEPT !.at = "stream", !.attempts = @ + 1]
        /\ request' = RequestOf
     \/ loop.attempts < MaxAttempts /\ Fails /\ Throw /\ UNCHANGED request
  /\ UNCHANGED <<journal, working, page, stopped, world, crashes>>

Said(o) == IF o.text THEN <<loop.attempts>> ELSE <<>>

\* resetDraft: the open message shows again what is kept of it.
Reset(kept) == draft' = kept

\* Mutant: the draft is not reset when a larger budget is tried.
EscalateKeepingDraft(o) ==
  /\ o.finish = "length" /\ loop.budget < Budgets
  /\ loop' = [loop EXCEPT !.at = "attempt", !.budget = @ + 1]
  /\ draft' = draft \o Said(o)

\* The answer was cut by the output limit and a larger budget is left: the
\* attempt is discarded.
Escalate(o) ==
  /\ o.finish = "length" /\ loop.budget < Budgets
  /\ loop' = [loop EXCEPT !.at = "attempt", !.budget = @ + 1]
  /\ Reset(loop.kept)

\* Otherwise what it said is kept and the model is asked to go on.
ContinueAnswer(o) ==
  /\ o.finish = "length" /\ loop.budget = Budgets /\ loop.continued < MaxContinuations
  /\ loop' = [loop EXCEPT !.at = "attempt", !.continued = @ + 1, !.kept = @ \o Said(o)]
  /\ Reset(loop.kept \o Said(o))

\* The turn has its response; the locals of its attempts are spent.
Responds(response) ==
  loop' = [Idle EXCEPT !.at = "commit", !.turn = loop.turn, !.attempts = loop.attempts,
                       !.response = response]

\* The last continuation was cut as well: its calls are dropped.
AcceptCut(o) ==
  /\ o.finish = "length" /\ loop.budget = Budgets /\ loop.continued = MaxContinuations
  /\ Responds([text |-> loop.kept \o Said(o), calls |-> <<>>, finish |-> "length"])
  /\ draft' = draft \o Said(o)

Ids(calls) == [k \in 1 .. Len(calls) |-> <<Run, loop.turn, calls[k]>>]

AcceptWhole(o) ==
  /\ o.finish # "length"
  /\ Responds([text |-> loop.kept \o Said(o), calls |-> Ids(o.calls), finish |-> o.finish])
  /\ draft' = draft \o Said(o)

\* An overflow is recovered once per turn by a forced summary, a retryable
\* failure MaxRetries times, and neither once something was shown.
StreamFails(o) ==
  /\ o.status = "failed"
  /\ IF o.category = "context_overflow" /\ ~loop.overflowed /\ ~o.produced
     THEN loop' = [loop EXCEPT !.at = "attempt", !.overflowed = TRUE]
     ELSE IF o.retryable /\ ~o.produced /\ loop.retries < MaxRetries
     THEN loop' = [loop EXCEPT !.at = "retry", !.retries = @ + 1]
     ELSE Return("failed")
  /\ UNCHANGED draft

StreamEnds ==
  /\ loop.at = "stream"
  /\ IF stopped THEN Return("aborted") /\ UNCHANGED draft
     ELSE \E o \in Outcomes :
            \/ StreamFails(o)
            \/ o.status = "completed" /\ (Escalate(o) \/ ContinueAnswer(o) \/ AcceptCut(o) \/ AcceptWhole(o))
  /\ request' = <<>>
  /\ UNCHANGED <<journal, working, answers, stopped, world, faults, crashes>>

\* waitForRetry
RetryWaited ==
  /\ loop.at = "retry"
  /\ IF stopped THEN Return("aborted") ELSE Goto("attempt")
  /\ UNCHANGED <<journal, working, request, page, stopped, world, faults, crashes>>

\* The response becomes a message of the Session; then the checks that end the
\* Run: an empty cut answer (before the commit), the total token limit, a cut
\* answer, calls without finish_reason tool_calls.
CommitResponse ==
  /\ loop.at = "commit"
  /\ LET answer == loop.response
         message == Assistant(Run, answer.calls, answer.text = <<>> /\ answer.calls = <<>>)
     IN IF answer.finish = "length" /\ answer.calls = <<>> /\ answer.text = <<>>
        THEN Return("limited") /\ Works /\ UNCHANGED <<history, working>>
        ELSE \/ Fails /\ Throw /\ UNCHANGED <<history, working>>
             \/ /\ Works
                /\ history' = Append(history, message) /\ working' = Append(working, message)
                /\ \/ Return("limited")  \* maxTotalTokens
                   \/ IF answer.calls = <<>>
                      THEN IF answer.finish = "length" THEN Return("limited")
                           ELSE loop' = [loop EXCEPT !.at = "boundary", !.response = NoResponse, !.natural = TRUE]
                      ELSE IF answer.finish # "tool_calls" THEN Return("failed")
                           ELSE loop' = [loop EXCEPT !.at = "call", !.response.text = <<>>]
  /\ draft' = <<>>  \* the open message is closed, or abandoned with the Run
  /\ UNCHANGED <<active, reports, started, asked, resolved, request, answers, stopped, world, crashes>>

-------------------------------------------------------------------------------
(* The batch of tool calls *)

Repeated == \E k \in 1 .. loop.next - 1 : loop.response.calls[k] = Call

\* Mutant: the loop looks at the signal only at the head of a turn.
NextCallUnlessStoppedBefore ==
  /\ loop.at = "call"
  /\ \/ /\ loop.next > Len(loop.response.calls)
        /\ (Return("limited") \/ loop' = [loop EXCEPT !.at = "boundary", !.response = NoResponse, !.next = 1])
        /\ Works /\ UNCHANGED started
     \/ /\ loop.next <= Len(loop.response.calls)
        /\ IF Repeated THEN Return("failed") /\ Works /\ UNCHANGED started
           ELSE \/ Works /\ started' = started \cup {Call} /\ Goto("tool")
                \/ Fails /\ Goto("outcome") /\ UNCHANGED started
  /\ UNCHANGED <<history, active, reports, asked, resolved, working, request, page, stopped, world, crashes>>

\* The next call of the batch: repeated ids and the signal are checked, then
\* tool_started is written; if that throws the call fails without taking
\* effect.  After the last call an open orchestration circuit ends the Run.
NextCall ==
  /\ loop.at = "call"
  /\ \/ /\ loop.next > Len(loop.response.calls)
        /\ (Return("limited") \/ loop' = [loop EXCEPT !.at = "boundary", !.response = NoResponse, !.next = 1])
        /\ Works /\ UNCHANGED started
     \/ /\ loop.next <= Len(loop.response.calls)
        /\ IF Repeated THEN Return("failed") /\ Works /\ UNCHANGED started
           ELSE IF stopped THEN Return("aborted") /\ Works /\ UNCHANGED started
           ELSE \/ Works /\ started' = started \cup {Call} /\ Goto("tool")
                \/ Fails /\ Goto("outcome") /\ UNCHANGED started
  /\ UNCHANGED <<history, active, reports, asked, resolved, working, request, page, stopped, world, crashes>>

\* Invalid arguments, a tool the policy forbids and a denial of authorizeApproval
\* settle the call at once; reading, whitelisted and trusted calls run; the rest
\* asks first.
Authorize ==
  /\ loop.at = "tool"
  /\ \/ Goto("outcome") \/ Goto("effect")
     \/ Cardinality(asked) < MaxAsks /\ Goto("ask")
  /\ UNCHANGED <<journal, working, request, page, stopped, world, faults, crashes>>

\* createToolApprovalHook: the request is recorded, then it can be answered.
AskApproval ==
  /\ loop.at = "ask"
  /\ \/ Works /\ Goto("wait") /\ asked' = asked \cup {Call}
     \/ Fails /\ Goto("outcome") /\ UNCHANGED asked
  /\ UNCHANGED <<history, active, reports, started, resolved, working, request, page, stopped,
                 world, crashes>>

\* The approval route: find the pending request, record the decision, resolve
\* it.  Two pages may answer at once.
AnswerArrives(d) ==
  /\ loop.at = "wait" /\ Len(answers) < MaxAnswers
  /\ answers' = Append(answers, [decision |-> d, call |-> Call])
  /\ UNCHANGED <<journal, loop, working, request, draft, stopped, world, faults, crashes>>

AnswerResolves(i) ==
  /\ LET a == answers[i] IN
     /\ answers' = RemoveAt(answers, i)
     /\ IF Run = a.call[1]
        THEN /\ resolved' = [resolved EXCEPT ![a.call] = Append(@, a.decision)]
             /\ IF loop.at = "wait" /\ Call = a.call
                THEN Goto(IF a.decision = "allow" THEN "effect" ELSE "outcome")
                ELSE UNCHANGED loop
        ELSE UNCHANGED <<resolved, loop>>  \* the Run is no longer active: the record is refused
  /\ UNCHANGED <<history, active, reports, started, asked, working, request, draft, stopped, world,
                 faults, crashes>>

\* Mutant: the timer is cleared when an answer arrives.
ApprovalTimesOutUnanswered ==
  /\ loop.at = "wait" /\ answers = <<>>
  /\ Goto("outcome")
  /\ UNCHANGED <<journal, working, request, page, stopped, world, faults, crashes>>

\* The timer of the hook.
ApprovalTimesOut ==
  /\ loop.at = "wait"
  /\ Goto("outcome")
  /\ UNCHANGED <<journal, working, request, page, stopped, world, faults, crashes>>

\* The tool runs.  Some observe the signal, some (patch_file, orchestration) do
\* not; it may also fail without effect.
TakeEffect ==
  /\ loop.at = "effect"
  /\ Goto("outcome")
  /\ \/ /\ effects' = [effects EXCEPT ![Call] = @ + 1]
        /\ late' = IF stopped THEN late \cup {Call} ELSE late
     \/ UNCHANGED world
  /\ UNCHANGED <<journal, working, request, page, stopped, faults, crashes>>

\* Mutant: a call whose tool_started could not be written gets no result.
CommitOutcomeOfStarted ==
  /\ loop.at = "outcome"
  /\ \/ Fails /\ Throw /\ UNCHANGED <<history, working>>
     \/ /\ Works
        /\ IF Call \in started
           THEN history' = Append(history, Tool(Call)) /\ working' = Append(working, Tool(Call))
           ELSE UNCHANGED <<history, working>>
        /\ loop' = [loop EXCEPT !.at = "call", !.next = @ + 1]
  /\ UNCHANGED <<active, reports, started, asked, resolved, request, page, stopped, world, crashes>>

\* The result is committed with its tool_completed record; if that throws the
\* Run fails.
CommitOutcome ==
  /\ loop.at = "outcome"
  /\ \/ Fails /\ Throw /\ UNCHANGED <<history, working>>
     \/ /\ Works
        /\ history' = Append(history, Tool(Call)) /\ working' = Append(working, Tool(Call))
        /\ loop' = [loop EXCEPT !.at = "call", !.next = @ + 1]
  /\ UNCHANGED <<active, reports, started, asked, resolved, request, page, stopped, world, crashes>>

-------------------------------------------------------------------------------
(* The boundary and the end *)

Steers == Cardinality({i \in 1 .. Len(history) : history[i].role = "steer"})

\* atSafeBoundary: stop, continue with a Steer, go on, or finish.  Without a
\* turn left the coordinator takes no Steer.
Boundary ==
  /\ loop.at = "boundary"
  /\ \/ stopped /\ Return("aborted") /\ UNCHANGED <<history, working>>
     \/ /\ ~stopped /\ loop.turn < MaxTurns /\ Steers < MaxSteers
        /\ history' = Append(history, Steer(Run)) /\ working' = Append(working, Steer(Run))
        /\ Goto("turn")
     \/ /\ ~stopped /\ UNCHANGED <<history, working>>
        /\ IF ~loop.natural THEN Goto("turn")
           ELSE Return(IF loop.turn = MaxTurns THEN "limited" ELSE "completed")
  /\ UNCHANGED <<active, reports, started, asked, resolved, request, page, stopped, world, faults, crashes>>

\* The report settles the Run (what it does to the Queue is RunCoordinator's), unless
\* beforeFinish or finishRun throws: runTask catches neither.
FinishRun ==
  /\ loop.at = "report"
  /\ \/ /\ Works
        /\ reports' = [reports EXCEPT ![Run] = loop.end]
        /\ active' = 0 /\ loop' = Idle
     \/ Fails /\ Lose /\ UNCHANGED <<active, reports>>
  /\ UNCHANGED <<history, started, asked, resolved, working, request, page, stopped, world, crashes>>

\* Stop aborts the signal and rejects an approval that waits; a lost Run has no
\* handle left to stop.
Stop ==
  /\ active # 0 /\ ~stopped /\ loop.at # "lost"
  /\ stopped' = TRUE
  /\ IF loop.at = "wait" THEN Goto("outcome") ELSE UNCHANGED loop
  /\ UNCHANGED <<journal, working, request, page, world, faults, crashes>>

\* The process stops; the next load reports the Run as interrupted and leaves
\* its messages as they are.
Crash ==
  /\ crashes < MaxCrashes /\ active # 0
  /\ crashes' = crashes + 1
  /\ reports' = [reports EXCEPT ![Run] = "interrupted"]
  /\ active' = 0 /\ loop' = Idle /\ answers' = <<>> /\ stopped' = FALSE
  /\ working' = <<>> /\ request' = <<>> /\ draft' = <<>>
  /\ UNCHANGED <<history, started, asked, resolved, world, faults>>

LoopStep ==
  \/ TurnStarts \/ Attempt \/ StreamEnds \/ RetryWaited \/ CommitResponse
  \/ NextCall \/ Authorize \/ AskApproval \/ TakeEffect \/ CommitOutcome
  \/ Boundary \/ FinishRun

Next ==
  \/ \E r \in Runs : BeginRun(r)
  \/ LoopStep
  \/ \E d \in Decisions : AnswerArrives(d)
  \/ \E i \in 1 .. Len(answers) : AnswerResolves(i)
  \/ ApprovalTimesOut \/ Stop \/ Crash

Spec == Init /\ [][Next]_vars

\* The loop goes on at every await: the model client has a timeout, tools and
\* the repository return; the approval timer is a timer of the process.
FairSpec == Spec /\ WF_vars(LoopStep) /\ WF_vars(ApprovalTimesOut)

-------------------------------------------------------------------------------
(* Properties *)

\* What is committed as the assistant message is what the page shows of it:
\* every kept attempt once and nothing of the discarded ones, whatever mix of
\* retries, larger budgets and continuations led to it.
DraftIsCommitted == loop.at = "commit" => draft = loop.response.text

\* A call takes effect at most once, after its tool_started record and, when it
\* was asked for, after a first recorded decision to allow it, however answers,
\* the timer, stop and restarts cross; and once a Run is stopped at most the
\* call it was busy with still takes effect.
EffectsAreRecorded ==
  /\ \A c \in CallIds : effects[c] > 0 =>
       /\ effects[c] = 1 /\ c \in started
       /\ c \in asked => resolved[c] # <<>> /\ resolved[c][1] = "allow"
  /\ \A r \in Runs : Cardinality({c \in late : c[1] = r}) <= 1

\* In the Session every result stands behind the assistant message that made
\* the call, in the order of the calls, and a Run that goes on (with a Steer,
\* or another answer) has settled its batch first.
BatchesStayWhole ==
  LET Caller(j) == CHOOSE i \in 1 .. j : /\ history[i].role # "tool"
                                         /\ \A k \in i + 1 .. j : history[k].role = "tool"
  IN \A j \in 1 .. Len(history) :
       IF history[j].role = "tool"
       THEN /\ j - Caller(j) <= Len(history[Caller(j)].calls)
            /\ history[j].call = history[Caller(j)].calls[j - Caller(j)]
       ELSE j > 1 /\ history[j].role # "user" =>
              j - 1 - Caller(j - 1) = Len(history[Caller(j - 1)].calls)

\* Every Run is settled in the end: no mix of retries, continuations, waiting
\* approvals, stops, Steers and failing calls keeps one open, but for the call that
\* was to load its Session or to report it: such a Run stays active until the process
\* restarts.
RunsEnd == (active # 0) ~> (active = 0 \/ loop.at = "lost")

\* "Keep complete pairs": every call in a model request is followed by its
\* result (docs/records/core-refactor-implementation.md).
EveryRequestIsPaired ==
  \A i \in 1 .. Len(request) : \A k \in 1 .. Len(request[i].calls) :
    \E j \in i + 1 .. Len(request) : request[j].call = request[i].calls[k]
=================================================================================
