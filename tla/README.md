# Verification of DexCode

TLA+ models of DexCode (a local coding-agent runtime: a web client, an HTTP
runtime, and packages that run agents over journaled Sessions), the TLC
configurations that check them, and proofs checked by TLAPS. Every definition is
translated from the TypeScript source; `PROJECT.json` maps each one to its lines,
lists the hazards the properties are for, and says of every component what is
left out.

Run in this directory: `tlc -workers 2 -config X.cfg M` checks a configuration,
`tlapm MProofs.tla` checks the proofs of a module (one to fifteen minutes each).

## The system

| Part | State it keeps | Operations | Talks to |
|---|---|---|---|
| queue ledger (`agent-core/queue-reducer.ts`, queue part of `session-store/index.ts`) | items with status, delivery, target, position; pause flag | enqueue, promote, cancel, reorder, consume, requeue, pause | coordinator, recovery |
| session-store | one JSONL journal per Session, a meta sidecar, caches, `activeRuns`, `knownSessions` | create, materialize, beginRun, append message/tool/approval, finishRun, load with recovery, delete | everything that persists |
| conversation-run-coordinator | per Session: a chain, the handle of its Run, a promise lock; durable state is the store's | start, resume, submit, mutate, stop, the chain loop, safe boundaries | store, runTask, Agent inbox |
| coding agent (`agent-core/index.ts`) | nothing durable of its own | runTask, runChild, their event sequence | store, executor, memory |
| executor (`agent-core/executor.ts`) | one Run: transcript, counters, open tool batch | model turn, retry, tool batch, boundary, wait | llm-client, tool-gateway, coordinator, agent-manager |
| agent-manager, agent-store | agents.jsonl per Session: agents, runs, inbox, halt flag; live handles | spawn, follow-up, wait, stop, stopSession, recovery | executor, coordinator's inbox |
| managed-memory | memory files, extraction cursor, consolidation state, background worker | prepare, enqueue, extract, consolidate, clear, drain | runTask, llm-client |
| run-protocol | replay buffer, activity stream, sequence validator | append, read, trim, coalesce | runtime server, web |
| runtime server | V2 chains with subscribers, pending approvals, timers | HTTP routes, SSE attach/detach, disconnect, stop | all of the above |
| web app | query cache, run presentation, queue state of a tab | hydrate, apply event, send, promote, reorder | runtime server |
| context-engine, context-builder | none (checkpoints are in the journal) | select, compact, build prompt | runTask |
| llm-client | stream accumulator of one turn | request, retry classification | provider |
| tool-gateway, mcp-client, mcp-server, skill-system, workspace-manager | whitelists, connections, registries | tool calls, approvals | executor, server |
| template-generator, capability-registry, shared | none | pure helpers | |

What is hard here. The runtime is one Node process; nothing runs in parallel, but
every `await` is a point where any other request can run. There are two layers of
locks (the coordinator's and the repository's, both FIFO promise chains per
Session) and several call sequences that cross them. The process can stop between
two commits and restart with only the journals. Clients retry with operationIds,
reconnect to event streams, and act on lists that may be stale.

What makes each part correct, in a line: the queue loses, duplicates and
reorders nothing; a Session has one Run at a time and each Run settles once; a
Steer is taken by its Run or falls back; stop stops, pauses and returns; a
restart never acts unattended; children respect caps and are delivered once;
a completed Run's memory work is done or left to the next Run; a page shows what
a Run has let out, or knows that it misses something; a tool call takes effect
once, with authority, and a batch is settled before the next message.

## Modules

The modules fall into four groups. Each module's header says which files it
models and what it abstracts.

### Sessions, their Queue and their Runs

**`SessionQueue`** is the promise to the user: items are accepted into a total
order, are aimed at the next Run or at the live one, and end by being taken or
withdrawn, once. It knows no ledger, position, operationId, process or crash.

**`SessionStore`** is one Session of the repository. A variable is a part of the
projection of the journal (`projectQueue`, `applyRecord`) or one of the two
volatile sets. An action is one exported method that commits: guards are its
throws and early returns, and everything its one commit contains is in the one
action (`beginRunFromQueue` starts the Run, appends the message, consumes the item
and lifts the pause). A call that throws, or replays an operationId, commits
nothing and is no step, with two exceptions: `loadSession` marks the Session as
known before it saves, so one that throws (`LoadFails`) keeps that mark, and so
does a replayed `materializeRun` (`ReplayMaterializeRun`). `LoadSession` is
`loadSession` with its three outcomes; `Crash` empties the volatile sets. Data is
abstracted to identities: a message is the Run and the item it came from. It
implements `SessionQueue` (`ImplementsQueue`).

**`SessionJournal`** is what lies below those commits: the lines of the journal
file with a torn tail, the cached projection, the meta sidecar, loads inside and
outside the lock, creation and deletion, with appends that fail half way.

**`RunCoordinator`** composes an instance of `SessionStore` with the processes
that drive it: `pc` walks `start`, `resume`, `executeChain` and `runTask`, one
place per await that matters; `stopper` walks one `stop` call; client requests
are single steps because they hold the lock for their one commit. `LockFree`
says who holds `withSessionLock`. The repository calls made *outside* the lock
(unpause in `start`, `requeueAndPause` in `beforeFinish` and in the chain loop,
the claim, `finishRun`, a stop without a handle) are separate steps. The
repository serves the calls for a Session in the order they are made, so a call
takes effect in the step that makes it: a test and the call behind it without an
await, as `chain.stoppedFor` and the claim of the chain loop, are one step. Every
call may throw instead, and then has committed nothing; what the coordinator
leaves behind is modelled for each (`StopThrowsAtRequeue`, `StopThrows`,
`ChainThrows`, `HandleLeaks`, `BoundaryThrows`). A boundary has its three ends:
Steers consumed, no turns left, nothing to consume.
`waiting_confirm` is merged with `accepting_commands`: both accept Steers and
nothing else in the coordinator tells them apart. It implements `SessionStore`
(`ImplementsStore`).

### One Run

**`ModelStream`** is one model attempt: the chunks of an answer and the way it
ends, folded by the turn accumulator into an outcome. **`Executor`** (which
extends it) is the ReAct loop under `runTask`: turns, attempts, retries, larger
output budgets, continuations, the tool batch with its records, approvals with
their answers and timer, Steers at the boundary, stop, failing commits and
restarts. A Run whose `runTask` throws (the load behind `beginRun`,
`beforeFinish`, `finishRun`) stays active with nobody at work on it (`Lose`).
Between two awaits the loop is one step; the places of `loop.at` are its awaits.
How an attempt ends is any outcome of `ModelStream`.

**`ContextEngine`** is how the messages of a Session become those of a request:
layers, archive, summary, overflow, calibration, and the projections for a fork
and for older code. Sizes are small numbers in the order of the thresholds.

**`ToolGateway`** is how a tool call comes to its effect: policy, mode, rules and
the user's answer, while the settings page changes mode and rules.
**`CommandRunner`** is `run_command`: the foreground wait, the tasks that go on,
the pruning of the list. **`WorkspaceFiles`** is the four kinds of writes to a
file, the mutation queue, and the runtimes that own one each.

### What runs beside it

**`AgentManager`** is the child Agents of one Session: `agents.jsonl` and the
processes around it (the calls of the Main Run, the web stop, the children,
`stop_all`, delivery of the inbox, recovery) which meet at every await of the
store. **`AgentDefinitions`** is the definitions of sub agents on disk and in the
registry. Files written by hand while the program runs are left out; a directory
scan is one step.

**`MemoryStore`** is the files of managed memory with their intent file, index
and operation records under failing writes and restarts; a line of the index is
`plain` when the expressions of `format.ts` find it again, which those whose title
holds a `]` (`Bracketed`, or such a hook of a tool call) are not.
**`MemoryWorker`** is the queue of completed Runs, extraction, consolidation and
administration, with a store that throws half way through a change of the settings
(`SettingsFail`) or a clear (`ClearFails`).

**`McpClient`** is one stdio connection to an MCP server, **`McpServers`** the
configured list and its routes. **`SkillRegistry`** is the installed skills as
several Workspace registries read and write them; disk failures are left out.

### What a page shows

**`RunPresentation`** is the pure reducers of the web client;
**`RunStream`** (which extends it) the way of the events from the chain over the
replay buffer and connections to the page, with its reconnects and snapshots. A
lost answer to an enqueue is left out.

### Configurations

`MCSessionStore`, `MCRunCoordinator`, `MCAgentManager`, `MCExecutor` and
`MCRunStream` give bounds (and symmetry) to one module each. The ten parts that
meet the others only through calls are instances of three modules, each with its
own variables: `RunParts` (the gateway, the command runner, the files of a
Workspace, an MCP connection and the journal), `SettingsParts` (definitions,
servers and skills) and `ContextParts` (the files of memory and the context
engine); `PartsValues` has the `None` they share. Their bounds are constants.
`MCParts` extends the three and puts the parts side by side: a behaviour runs one
of them, chosen at the start. Its properties are those of the components, with
the part they are about. `MCLiveness` does the same for the coordinator and the
memory worker, with their fairness.

Operators named in a `\* Mutant:` comment are wrong variants of the operator that
follows; no specification uses them. They are there to show that each property
fails when the code it is about is changed. `TypeOK` of `ContextEngine`
documents its state and is checked by no run.

## Runs

| Run | Instance | Shows |
|---|---|---|
| `store` | 3 items, 2 Runs, 3 operationIds, any loads that throw | the invariants and action properties of the ledger; `ImplementsQueue` |
| `coordinator` | 1 item, 3 Runs, 2 calls of start or resume, 2 stops, 1 restart, 1 throwing call | what interleaving at the awaits may never do: a wait that misses its wake-up, a Steer left behind by a graceful end, a stop that leaves the Queue running |
| `liveness` | coordinator: 1 item, 2 Runs, 1 call of start or resume, 1 stop, 1 restart, 1 throwing call; worker: 1 Session, 2 Runs, 2 administrations, 1 mishap | chains end, stops return or throw, Runs are reported, `ImplementsStore`; memory work is done and nothing older than a clear writes back |
| `agents` | 2 Agents, 1 call id, 3 Main Runs, 2 child Runs, 1 disruption | one Run per Agent and per operation, delivery once, a stop that stays |
| `executor` | 2 turns, 4 attempts, 1 retry, 2 budgets, 1 continuation, 2 calls, streams of 3 chunks, and one each of Run, Steer, approval, failing commit and restart | the draft, the effects and the batches of a Run; `RunsEnd` |
| `stream` | 4 events in a connection and in the replay, 2 Runs, 2 connections, 1 reconnect, 1 queued message | the page shows what the Run has let out; a whole grace; the page settles |
| `parts` | see below | eleven properties of the ten parts |
| `stranded_steer`, `stop_overridden`, `lost_stop` | 1 item, 2 Runs, 1 chain | disagreements 1–3 |
| `unpaired_request` | 2 Runs, 1 restart, no other mishap | disagreement 4 |
| `serial_writes` | 1 file, 2 writes, 2 requests | disagreement 5 |

Bounds. Three items are the fewest where a reorder can move an item past another
while a third is promoted or requeued; three operationIds allow a retry after two
other mutations; the two Runs are the ended one and the next. `revision` and
`messages` are bounded by the items and operations. In the coordinator an item
can be claimed, steered or wait at the end of a chain, and the third Run lets a
start come after both; `MaxChains`, `MaxStops`, `MaxCrashes` and `MaxFaults`
bound calls of start and resume, stop calls, restarts and throwing repository
calls. `Fresh`/`Unsettled` make a start wait for a Run that is not used up. Stop
calls are modelled one at a time; two overlapping ones would be serialised by the
lock except for their first synchronous line. In `agents` two Agents meet the cap
of two and the one shared writer is left to other values of `Writing`; the third
Main Run is the one after a delivery and a stop. In `executor` one retry and one
larger budget are enough to mix every reason to go on with an attempt, and two
turns to have a call of an earlier turn; `unpaired_request` is where a second Run
starts from what a first has left. In `stream` the fourth event of a Run is the
first that can be evicted before a reconnect asks for it.

`parts` uses two memory topics, two bodies, one of them with a `]` in its name,
and two memory operations with one
failing write and one restart; one tool call on three commands under two changes
of mode or rules; two tasks with room for one; three writes of two files and one
foreign hand; two MCP calls over two child processes; two commits of a journal
with two failures; two definitions; one MCP server with two configurations and
two requests; one skill in two registries with two requests; and five messages
under scaled thresholds. Two servers, and two skills with three requests, were
checked by themselves with the same result and are too large for the joint run.

Deadlock checking is off in every run, since a Session at rest with the bounds
used up is a legitimate end.

## Fairness

Coordinator. Weak fairness of the chain's and of stop's steps: they are awaits on
local I/O and on locks that are always released (`finally`). Weak fairness of the
end of a wait: it has a timeout. Weak fairness of opening the Session after a
restart: recovery happens on the next request, so `RunsAreReported` says what
holds once somebody asks. A call that throws is a step like any other and no
fairness asks for it; a Run whose chain threw before its report (`forsaken`) stays
open until the process restarts, and `RunsAreReported` excuses it. Strong fairness
of the safe boundaries is an assumption about the outside: a Main Run has no turn
limit, and the model provider is assumed to answer and to stop calling tools at
some point.

Executor. Weak fairness of the loop (the model client has a timeout; tools and
the repository return) and of the approval timer, which is a timer of the
process. `RunsEnd` needs no strong fairness: turns, attempts and calls are bounded
by the budget of a Run. It excuses the Run that `runTask` threw out of, for the
same reason as above.

Memory worker. Weak fairness of its awaits; a slot is given back in the end
because it belongs to a Run that ends. `WorkIsDone` excuses a worker that was
ended by an error (`Stranded`): what waits then stays where it is until something
else starts the worker.

Stream. Weak fairness of the server's tasks and timers, of the client's loop and
of its query, each by itself. `PageSettles` leaves out a page that cannot know
better: the last snapshot was not shown (`net.masked`), was taken before the Run
began (`net.early`), or the request never became a Run. `ShownIsTrue` leaves out
a page that knows that it misses something or shows an error, and one that has
joined a Run after its beginning while it still holds the number of the Run
before (`view.late`, disagreement 6).

Nothing is assumed of clients, and no failure or crash is assumed to happen or
not to. Bounds say how often a call throws in a run; a call of the repository that
throws under `RunCoordinator` has committed nothing (what a failed append leaves in
the journal is `SessionJournal`).

## What the properties leave out

The code leaves some states behind that no property can promise away. Each
property that meets one names it, and excuses that and no more.

- `RecoveryPausesTheQueue`: an idle Session that a load which threw, or a replayed
  `materializeRun`, had marked as known. No later load pauses it
  (`session-store/index.ts:526`, `:674`). A Run cut short is recovered all the same.
- `GracefulEndStrandsNoSteer`: a Run whose stop threw at `requeueSteers`
  (`conversation-run-coordinator.ts:612`), and that no later stop made good. The
  handle is marked stopped (`:609`), so `beforeFinish` (`:440`) and the loop
  (`:454`) requeue nothing.
- `StopPausesTheQueue` speaks of stops that found the handle of a Run at work and
  did not throw. Two stops without a handle share an operationId (`:601`), so the
  second pauses nothing after a claim in between.
- `RunsAreReported`, `RunsEnd`: a Run whose chain threw before its report, until the
  restart.
- `QuietAfterStop`: the child whose spawn or follow-up was in flight when a stop
  collected the handles (`agent-manager.ts:259`). With the first spawn in flight
  there is no `agents.jsonl` to halt, and that child's end also wakes the Session.
- `IndexFollowsTopics`: a topic with a line in the index that `format.ts:146` and
  `:156` do not match, which stays beside a newer one or behind a removal; a topic
  that a step failing between the two files, or a clear cut short, left apart.
- `OldWorkNeverWritesBack`: the work of the epoch a switch-off or clear meant to
  end, when the store threw half way (`store.ts:413-414`, `:439-453`): the
  coordinator then drops nothing of a switch-off that is on disk, and an aborted
  Agent still has the generation of a clear that was not finished.
- `CallsReachAReadyServer`: a handshake that ends after its connection was reset.
- `AcknowledgedStays`: a process that appends behind a torn line of its own, and
  loads and deletions without the lock that cross a save.
- `RegistryFollowsDisk`: mutations that cross, and those that fail half way.
- `ShownIsTrue`, `PageSettles`, `WorkIsDone`: see Fairness, above.

## Disagreements found

The first five have a run that shows them.

1. `NoSteerOutlivesItsRun`. A failed or limited Run still accepts Steers after
   `beforeFinish` has requeued the earlier ones; such a Steer stays aimed at the
   ended Run and nothing ever takes, requeues or promotes it
   (`conversation-run-coordinator.ts:440`; `queue-steer.md:146`).
2. `ClaimKeepsThePauseOfAStop`. `resume` registers its chain and then awaits the
   Session and its environment. A stop meanwhile pauses the Queue and returns; the
   claim that follows does not look at `chain.stoppedFor`, starts the next Run and
   lifts the pause (`:509`; `queue-steer.md:855-856`).
3. `NoRunCompletesAfterStop`. A stop after the handle copied `chain.stoppedFor`
   and before it is registered answers `stopped: true` and the Run goes on
   (`:404-409`; `queue-steer.md:65`).
4. `EveryRequestIsPaired`. A Run cut short inside a batch leaves calls without a
   result, and the next Run sends them to the model
   (`agent-core/index.ts:84`; `core-refactor-implementation.md:107`).
5. `WritesAreSerialByPath`. Two requests for a Workspace that is not loaded build
   a runtime each, so one file has two mutation queues (`server.ts:506`;
   `architecture.md:147`).

6. A page that follows a chain keeps the number of the last event of a Run that
   has ended. When a later reconnect replays the next Run from a buffer that has
   lost its beginning, `reduceRunEvent` drops the events up to that number as seen
   and takes the one after it for the next, with no gap and no resync
   (`run-presentation.ts:443`, `:459`); the server computes `windowExceeded`
   (`replay-buffer.ts:65`) and does not send it (`server.ts:912-913`). A plan says
   "seq gap 触发 resync 标记，不猜测缺失语义" and "replay buffer 覆盖后回退到
   snapshot resync" (`agent-streaming-presentation.md:549`, `:573`). The bounds of
   `stream` are too small for it: with a replay of three events, four turns, one
   message queued and `~view.late` left out of `ShownIsTrue`, TLC finds it.

The first shows why `GracefulEndStrandsNoSteer` speaks of completed and aborted
Runs only, the last why `PatchesReplaceWhatTheyRead` excuses a file that another
runtime wrote.

## Proofs

Every theorem holds for every value of the constants that meets the named
assumptions: model values that are no item, Run, reason, body or journal
(`SentinelsAreFresh`, `NoneIsNoReason`, `MemoryAssumption`, `JournalAssumption`,
`DefinitionsAssumption`, `ServersAssumption`); finitely many follow-up
messages, definitions, topics and servers (`ItemsAreFinite`, and again those);
bounds and limits that are natural numbers (`BoundsAreNaturals`,
`AgentAssumption`, `ExecutorAssumption`, and `StreamAssumption`, by which "no
reason" is also not the reason of a disconnected page); stages, jobs and
requests that can be told apart (`RunnerAssumption`, `FilesAssumption`); and
thresholds that the policy check of the context engine lets pass
(`ContextAssumption`). Those of the parts are gathered in `RunPartsAssumption`,
`SettingsAssumption` and `ContextPartsAssumption`. TLC evaluates them in the runs.
Each inductive invariant was first checked by TLC.

**`SessionStoreProofs`.** Type correctness, `PositionsDistinct`,
`ConsumedExactlyOnce`, `RunsDoNotInterleave`, `RunsSettleOnce`,
`DrivenRunsAreOpen`, `OneEffectPerOperation`, `OutcomesAreFinal`,
`RecoveryPausesTheQueue`, with loads that throw, and `ImplementsQueue`. The
invariant `IInv` adds what they rest on: `TargetsAreRuns` (a waiting Steer names a
Run that has started), `ConsumersAreNamed` (`consumedRunId` is set exactly for
consumed items, so the map to `takenBy` is total) and `UnopenedIsUndriven` (a
process that has not opened the Session drives no Run of it, so recovery is never
blocked). `NextPosition` needs the lemma that a finite set of positions has a
maximum; consumption needs that appending a message leaves the earlier carriers
alone. The replay table has an invariant of its own (`RecordsAreUnique`,
`AcceptedHaveOneRecord`). The refinement is proved action by action: positions map
to the pairs of `before`, and `Orders` (injections into an initial segment) to
strict total orders.

**`RunCoordinatorProofs`.** Type correctness, `ImplementsStore`, `NoLostWakeup`,
`GracefulEndStrandsNoSteer`, `StopPausesTheQueue`, and that the ledger's
invariants, `OneEffectPerOperation` included, hold under the coordinator's calls.
`CoordinatorIInv` is the ledger's `IInv` and `Control`: the handle exists exactly
at its places (`HandleIsPlaced`), a stop inside the lock keeps it there
(`StopHoldsHandle`), the Run of the chain is the one the repository has active
(`RunIsDriven`), a result is earned (`ResultIsEarned`), a stop closes the gate
and requeues in one step, unless that call threw (`StopClosesGate`,
`StopRequeuesFirst`), its pause stands until a start (`PauseStands`), and while a
handle is left behind by a chain that threw no other is made (`LeakIsLeft`).

**`ExecutorProofs`.** Type correctness, `DraftIsCommitted`, `EffectsAreRecorded`
and `BatchesStayWhole`, for any number of Runs, turns, attempts, calls, answers,
faults and restarts. `ExecutorIInv` says how far the loop has come
(`StartedIsBehind`: a started call is of a settled Run, an earlier turn, or the
part of the batch the loop has reached; with it the check for repeated ids makes
every call new), what it knows of its call before the effect (`StepsAreEarned`),
that only what was asked is answered (`AnswersWereAsked`), that a Run with a late
effect only ends (`LateIsLast`), that the page shows what the loop keeps
(`DraftIsKept`), and where the history stands: every message is placed behind its
caller, and the batch at its end is the loop's (`BatchIsOpen`). `BatchesStayWhole`
chooses the caller of a message; the lemmas show that it exists and is unique. The
fold over the chunks of a stream is not expanded: the proofs use of an outcome
only that its calls are a batch.

**`AgentManagerProofs`.** Type correctness, `OneRunPerAgent`, `QuietAfterStop`,
`DeliveredOnce`, `OneRunPerOperation`, from `AgentIInv`: the execution of an Agent
is of its last Run, a start under way has a clear place, a delivery is of
notifications that were not told, and after a `stop_all` what still ends is
already known to be stopped (`StopsAreKnown`, `StopQuietens`). `QuietAfterStop`
rests on `StillIInv`, which adds that what runs has a handle or is about to be
launched by its operation (`OwnRuns`), and that once a stop has collected the
handles nothing but the operation in flight then starts, runs on or leaves a
notification (`StillSession`).

**`PartsProofs`** has, first, the parts a Run acts through.

- `EffectsAreAuthorised` of `ToolGateway`: an effect had an approval for its own
  input, or a mode and rule that allowed it when it was authorised (`Tracked`,
  `MatchWasSeen`, `StepsAreEarned`).
- `RunningIsInReach` of `CommandRunner`, for any limit of tasks; the work is in
  `prune`, whose result is a renumbering of the kept positions.
- `PatchesReplaceWhatTheyRead` of `WorkspaceFiles`, from the order of the jobs in
  the queue of a file (`QueuesAreOrdered`, `ReadersAreCurrent`), and
  `QueuesSerialiseWrites`: inside one runtime two writes of a file are never under
  way together. Disagreement 5 is the same statement across runtimes, which is
  false.
- `CallsReachAReadyServer` of `McpClient`. `McpIInv` says that numbers are never
  given out twice (`NumbersAreUsed`), that the number of a call is known to the
  child it was sent to and to no other (`CallsAreServed`), and that who may call
  has a child that was greeted, unless a handshake outlived its connection
  (`CallersAreGreeted`).
- `AcknowledgedStays` of `SessionJournal`. `JournalIInv` says that a projection is
  the journal but for the line being appended or cut short (`ProjectionHolds`,
  `IsLeftover`), that what a load has read is still the journal, repaired or not
  (`LoadsAgree`), that the lock's holder has a projection or loads one
  (`LockIsHeld`), and that a sidecar was written for whole lines (`MetaFits`), so
  that one whose size fits a journal with a missing newline cannot exist. The
  lemmas on lines (`JunkIsTorn`, `CommitReplays`, `WholeIsSound`) are what the
  loader does with each way an append can end.

Then it has what the settings page changes; together the three invariants give
`RegistryFollowsDisk`.

- `AgentDefinitions`. Disk and memory are where the step of the mutation under way
  says (`FilesAreAnswered`, `StateIsAnswered`, `DisabledIsState`), the registry has
  what is on disk until a mutation changes it (`DefinitionsAreLoaded`), and a
  disabled name has a file or is about to lose its entry (`StateHasFiles`): without
  it a creation could find its name disabled. All of it holds until something the
  property excuses happens.
- `McpServers`. A request that is alone keeps list and transports in step
  (`InWrite`, `InRemove`, `InRenew`): each stage says which of the enabled servers
  are attached by now, once each, so the loops over a sequence of names are proved
  to attach a set. `SyncsAreAlone` says who is alone.
- `SkillRegistry`. An undisturbed load has read what is on disk (`LoadsAreCurrent`),
  a registry that is not behind shows it or is being loaded
  (`RegistriesAreCurrent`), and one switch at a time writes the list its user is
  told (`SwitchesAreAlone`); a config left cut short is behind every registry
  (`CutIsBehind`).

**`ContextPartsProofs`** has what a request is made of.

- `CommitsAreFenced` of `MemoryStore`, an action property. `StoreIInv` says that a
  mutation finds the body and generation it expects until it writes its topic
  (`JobIsFenced`), and that a topic has the body before or after the intent that
  is left for it (`IntentIsFenced`), unless a failed step left it apart
  (`broken`).
- `IndexFollowsTopics` of `MemoryStore`. A topic is in the index as it is, or the
  intent repairs it (`IndexAgrees`); the index that an intent or a mutation carries
  names what it will write and every other topic as it is (`IntentRepairs`,
  `JobRepairs`), unless a line of the topic is one that is not found again
  (`Marred`). Writing, replacing and dropping a line, and rebuilding the index
  by a fold over the directory, are lemmas about what an index names.
- `RequestServesTheActiveRequest`, `ProjectionsKeepPairs` and `NothingIsLost` of
  `ContextEngine`. `ContextIInv` says of the request, and of the job that prepares
  one, that it is `Fit`: it ends with the request of the Run in full (`Serves`),
  has, keeps or has summarised every message (`Covers`), and has results behind
  their calls, calls once, and answered calls answered (`Together`); before a
  request is sent it is `Within` the limit. Each projection of the source
  (placeholders, archives, the summary, the boundary a fork or the older code cuts
  at) is put down to one of three forms, each of which keeps `Fit`: messages
  replaced in place, a stretch replaced by one that stands for it, and what lies
  behind a boundary. That results and calls stay together rests on boundaries: a
  cut is made only at a user message, and no batch reaches across one.

**`RunStreamProofs`**. `GraceIsWhole` and `ShownIsTrue`, for any number of Runs,
turns, messages and connections, any size of the queues and of the replay.
`StreamIInv` has two halves.

- `ServerIInv`, the runtime. The log of a Run is numbered from 1 and `run_started`
  is its first event and no other (`LogOK`); the timer of a chain runs only while
  no connection watches it (`IsChain`), which is what makes a grace period whole.
  `RunIsPlaced`, `ChainIsPlaced` and `RequestIsPlaced` say where the Run, its chain
  and the posted request that began it can stand with respect to each other.
- `PageIInv`, the page. Every event on its way to it, queued on a connection
  (`ConnsOK`) or held until the snapshot is read (`IsStream`), is one of a log or
  was made up for a Run that is over or refused (`IsReal`). Nothing is said about
  their order. A page that does not know that it misses something stands at an
  event of the Run it shows, and shows what the events up to that one make of it
  (`Truth`, `Told`, `Stands`).

A page takes in what it held in one step, and a chain lets out what was held in
one step. These folds are defined over intervals, and the proofs compare them with
the functions that take one event after the other. The heart of the argument is
that an event which is not the next one of its Run is dropped, is noticed, or
begins the next Run (`StartsNext`).

**`MCPartsProofs`** carries these over to the behaviours of `MCParts`: a behaviour
of the composition is, for each part, one of that part. Loops of the source are
functions over an interval, defined inside an operator; the proofs reason about
them with the library's interval induction and minima of sets of integers.

Model-checked only: `MemoryWorker` (`OldWorkNeverWritesBack`), for which no proof
was attempted, and everything under fairness
(`ChainsEnd`, `RunsAreReported`, `RunsEnd`, `WorkIsDone`, `PageSettles`): liveness
and ENABLED are out of the prover's reach. No module uses a RECURSIVE operator.

## Not modelled

In the coordinator: reorder (a single repository call, in `SessionStore`), events
to the client, the answer to a retried submit, two stops that overlap. In the
gateway: `stop_command`, whose approval refuses `allow_whitelist`
(`tool-gateway/index.ts:533`), and the save that migrates a whitelist on load. In
the executor: token and wall-clock limits beyond the end they force, argument
validation, `wait_agent` beyond its place in the coordinator. `createSnapshot` and
`restoreSnapshot` of the Workspace are reached by no route. The activity stream of
child Agents, the HTTP transport of MCP, recall of memory, clientRequestIds and
renaming of Sessions are left out; so are, as text and I/O without protocol, the
context builder, skill routing, template generation and page layout.
`PROJECT.json` lists the rest per component.
