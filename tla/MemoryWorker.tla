------------------------------ MODULE MemoryWorker ------------------------------
(***************************************************************************)
(* The background work of managed memory in one Workspace: packages/       *)
(* managed-memory/coordinator.ts.  Completed Runs are queued per Session;  *)
(* one worker extracts from them with a memory Agent and now and then      *)
(* consolidates.  A message is one Run of its Session; the store is the    *)
(* fence of MemoryStore: a write of another generation is refused.         *)
(***************************************************************************)
EXTENDS Integers, Sequences, FiniteSets
LOCAL INSTANCE SequencesExt

CONSTANTS Sessions,
          EveryRuns,      \* extractionEveryCompletedRuns
          MinSessions,    \* consolidationMinSessions
          Nothing,
          MaxRuns,        \* bound: Runs that complete
          MaxAdmin,       \* bound: settings, clears, consolidations and drains asked for
          MaxMishaps      \* bound: Agents and file operations that fail, restarts

WorkerAssumption ==
  /\ IsFiniteSet(Sessions) /\ {EveryRuns, MinSessions} \subseteq Nat \ {0}
  /\ {MaxRuns, MaxAdmin, MaxMishaps} \subseteq Nat

VARIABLES
  runs,           \* Runs of each Session that have completed
  progress,       \* progressBySession
  pending,        \* pendingBySession, in the order of its keys
  work,           \* the worker: where it stands, on what
  accepting, pendingConsolidation,
  settings,       \* on disk
  state,          \* consolidation.json
  memory,         \* the epochs whose Runs the topics were written from
  admin,          \* the request of the settings page at work
  epoch,          \* history: clears and switch-offs so far
  excused,        \* history: Sessions whose latest work was dropped
  unfenced,       \* history: the epochs whose clear or switch-off failed half way
  spent

vars == <<runs, progress, pending, work, accepting, pendingConsolidation, settings, state,
          memory, admin, epoch, excused, unfenced, spent>>

Off == [at |-> "off", item |-> Nothing, aborted |-> FALSE, generation |-> 0, refused |-> FALSE,
        held |-> Nothing, asked |-> FALSE, started |-> 0]
Fresh == [cursor |-> 0, eligible |-> 0, retry |-> FALSE]
NoState == [sessions |-> {}, locked |-> FALSE]

Init ==
  /\ runs = [s \in Sessions |-> 0] /\ progress = [s \in Sessions |-> Fresh]
  /\ pending = <<>> /\ work = Off /\ accepting = TRUE /\ pendingConsolidation = FALSE
  /\ settings = [enabled |-> TRUE, extraction |-> TRUE, generation |-> 0]
  /\ state = NoState /\ memory = {} /\ admin = Nothing
  /\ epoch = 0 /\ excused = {} /\ unfenced = {}
  /\ spent = [runs |-> 0, admin |-> 0, mishaps |-> 0]

Spend(what, bound) == spent[what] < bound /\ spent' = [spent EXCEPT ![what] = @ + 1]

---------------------------------------------------------------------------
(* The queue *)

\* the work a Session waits for, or is being done for it
Waits(s) == \E i \in DOMAIN pending : pending[i].session = s
Extracting(s) == work.at \in {"scan", "slot", "agent", "noted"} /\ work.item # Nothing /\ work.item.session = s
AtWork(s) == work.item # Nothing /\ work.item.session = s

Started(w) == IF w.at = "off" THEN [w EXCEPT !.at = "loop"] ELSE w

\* enqueueExtraction keeps one entry for a Session, with the latest snapshot
Queued(s, direct) ==
  LET mine == {i \in DOMAIN pending : pending[i].session = s}
      before == IF mine = {} THEN [runs |-> 0, trailing |-> FALSE] ELSE pending[CHOOSE i \in mine : TRUE]
      item == [session |-> s, end |-> runs[s] + 1, runs |-> before.runs + 1,
               trailing |-> before.trailing \/ Extracting(s), direct |-> direct, epoch |-> epoch]
  IN  IF mine = {} THEN Append(pending, item)
      ELSE [i \in DOMAIN pending |-> IF i \in mine THEN item ELSE pending[i]]

\* a Run of s completes; direct: it wrote memory itself
RunCompletes(s, direct) ==
  /\ Spend("runs", MaxRuns) /\ runs' = [runs EXCEPT ![s] = @ + 1]
  /\ IF accepting
     THEN pending' = Queued(s, direct) /\ work' = Started(work) /\ excused' = excused \ {s}
     ELSE excused' = excused \union {s} /\ UNCHANGED <<pending, work>>
  /\ UNCHANGED <<progress, accepting, pendingConsolidation, settings, state, memory, admin, epoch, unfenced>>

AskConsolidation ==
  /\ Spend("admin", MaxAdmin)
  /\ IF accepting /\ settings.enabled /\ ~pendingConsolidation
     THEN pendingConsolidation' = TRUE /\ work' = Started(work)
     ELSE UNCHANGED <<pendingConsolidation, work>>
  /\ UNCHANGED <<runs, progress, pending, accepting, settings, state, memory, admin, epoch, excused, unfenced>>

---------------------------------------------------------------------------
(* The worker *)

Rest == <<runs, accepting, settings, epoch, admin, unfenced>>
To(at) == work' = [work EXCEPT !.at = at]
Done == work' = [Off EXCEPT !.at = "auto"]  \* the extraction is over, whatever became of it
Item == work.item
Mine == progress[Item.session]
Advance(s) == progress' = [progress EXCEPT ![s].cursor = Item.end, ![s].retry = FALSE,
                                           ![s].eligible = IF Item.direct THEN 0 ELSE @]

LoopTurn ==
  /\ work.at = "loop"
  /\ IF pending # <<>>
     THEN /\ work' = [Off EXCEPT !.at = "settings", !.item = Head(pending),
                               !.started = Head(pending).epoch]
          /\ pending' = Tail(pending) /\ UNCHANGED pendingConsolidation
     ELSE /\ work' = IF pendingConsolidation THEN [Off EXCEPT !.at = "lock", !.asked = TRUE] ELSE Off
          /\ pendingConsolidation' = FALSE /\ UNCHANGED pending
  /\ UNCHANGED <<Rest, progress, state, memory, excused, spent>>

ReadSettings ==
  LET due == Mine.eligible + Item.runs IN
  /\ work.at = "settings"
  /\ \/ /\ work.aborted \/ ~settings.enabled \/ ~settings.extraction
        /\ Done /\ excused' = excused \union {Item.session} /\ UNCHANGED progress
     \/ /\ ~work.aborted /\ settings.enabled /\ settings.extraction
        /\ UNCHANGED excused
        /\ \/ Item.direct /\ To("direct") /\ UNCHANGED progress
           \/ /\ ~Item.direct /\ ~Item.trailing /\ ~Mine.retry /\ due < EveryRuns
              /\ Done /\ progress' = [progress EXCEPT ![Item.session].eligible = due]
           \/ /\ ~Item.direct /\ (Item.trailing \/ Mine.retry \/ due >= EveryRuns)
              /\ progress' = [progress EXCEPT ![Item.session].eligible = 0]
              /\ IF Mine.cursor = Item.end THEN Done
                 ELSE work' = [work EXCEPT !.at = "scan", !.generation = settings.generation]
  /\ UNCHANGED <<Rest, pending, pendingConsolidation, state, memory, spent>>

\* runWithGlobalMemorySlot, once the topics are scanned: the Workspaces of the process share
\* the slots, and one that is given back goes to the one that waits for it
AskSlot ==
  /\ work.at = "scan" /\ ~work.aborted /\ \E at \in {"agent", "slot"} : To(at)
  /\ UNCHANGED <<Rest, progress, pending, pendingConsolidation, state, memory, excused, spent>>

GetSlot ==
  /\ work.at = "slot" /\ ~work.aborted /\ To("agent")
  /\ UNCHANGED <<Rest, progress, pending, pendingConsolidation, state, memory, excused, spent>>

\* a write of the Agent, were it refused only while memory is off
AgentWritesUnfenced ==
  /\ work.at = "agent"
  /\ IF settings.enabled THEN memory' = memory \union {work.started} /\ UNCHANGED work
     ELSE work' = [work EXCEPT !.refused = TRUE] /\ UNCHANGED memory
  /\ UNCHANGED <<Rest, progress, pending, pendingConsolidation, state, excused, spent>>

\* a memory tool of the Agent: the store refuses another generation
AgentWrites ==
  /\ work.at = "agent"
  /\ IF settings.enabled /\ settings.generation = work.generation
     THEN memory' = memory \union {work.started} /\ UNCHANGED work
     ELSE work' = [work EXCEPT !.refused = TRUE] /\ UNCHANGED memory
  /\ UNCHANGED <<Rest, progress, pending, pendingConsolidation, state, excused, spent>>

RetryForgotten == UNCHANGED progress
Retry == progress' = [progress EXCEPT ![Item.session].retry = TRUE]

Noted == [state EXCEPT !.sessions = @ \union {Item.session}]

\* the Agent, the scan or the note of an extraction ends; an abort has the last word
ExtractionEnds ==
  /\ Item # Nothing
  /\ \/ /\ work.at \in {"scan", "slot", "agent", "noted", "direct"} /\ work.aborted
        /\ state' \in {state} \union IF work.at \in {"noted", "direct"} THEN {Noted} ELSE {}
        /\ Done /\ excused' = excused \union {Item.session} /\ UNCHANGED <<progress, spent>>
     \/ /\ work.at \in {"settings", "scan", "agent", "noted", "direct"} /\ ~work.aborted
        /\ Spend("mishaps", MaxMishaps)
        /\ Done /\ Retry /\ UNCHANGED <<excused, state>>
     \/ /\ work.at = "agent" /\ ~work.aborted /\ work.refused
        /\ Done /\ Retry /\ UNCHANGED <<excused, state, spent>>
     \/ /\ work.at = "agent" /\ ~work.aborted /\ ~work.refused
        /\ To("noted") /\ UNCHANGED <<progress, excused, state, spent>>
     \/ /\ work.at \in {"noted", "direct"} /\ ~work.aborted
        /\ state' = Noted
        /\ Advance(Item.session) /\ Done /\ UNCHANGED <<excused, spent>>
  /\ UNCHANGED <<Rest, pending, pendingConsolidation, memory>>

\* shouldAutoConsolidate; the hours it asks for may have passed or not
Consider ==
  /\ work.at = "auto"
  /\ \/ To("loop")
     \/ settings.enabled /\ Cardinality(state.sessions) >= MinSessions /\ To("lock")
  /\ UNCHANGED <<Rest, progress, pending, pendingConsolidation, state, memory, excused, spent>>

---------------------------------------------------------------------------
(* runConsolidation *)

Lock ==
  /\ work.at = "lock"
  /\ \/ settings.enabled /\ state' = [state EXCEPT !.locked = TRUE]  \* no lock, or an old one
        /\ work' = [work EXCEPT !.at = "scan", !.generation = settings.generation,
                                !.held = state, !.started = epoch]
     \/ (~settings.enabled \/ state.locked) /\ To("loop") /\ UNCHANGED state
  /\ UNCHANGED <<Rest, progress, pending, pendingConsolidation, memory, excused, spent>>

\* the state read at the start is written back at the end
ConsolidationEnds ==
  /\ work.held # Nothing /\ work.at \in {"scan", "slot", "agent"}
  /\ \/ work.at = "agent" /\ ~work.aborted /\ state' = NoState /\ UNCHANGED spent
     \/ /\ IF work.aborted THEN UNCHANGED spent ELSE work.at # "slot" /\ Spend("mishaps", MaxMishaps)
        /\ state' = [work.held EXCEPT !.locked = FALSE]
  /\ work' = [Off EXCEPT !.at = "loop"]
  /\ UNCHANGED <<Rest, progress, pending, pendingConsolidation, memory, excused>>

\* a write of consolidation.json fails: after an extraction that is caught, else the worker
\* ends, and starts again only for a pending extraction
ConsolidationThrows ==
  /\ work.at = "lock" \/ (work.held # Nothing /\ work.at \in {"scan", "agent"})
  /\ Spend("mishaps", MaxMishaps)
  /\ work' = IF ~work.asked \/ (accepting /\ pending # <<>>) THEN [Off EXCEPT !.at = "loop"] ELSE Off
  /\ UNCHANGED <<Rest, progress, pending, pendingConsolidation, state, memory, excused>>

---------------------------------------------------------------------------
(* The settings page and the end of the process *)

Aborted(w) == IF w.at \in {"off", "loop", "auto", "lock"} THEN w ELSE [w EXCEPT !.aborted = TRUE]
Dropped == {s \in Sessions : Waits(s)}

\* store.updateSettings; the coordinator hears of it after
WriteSettings ==
  \E e, x \in BOOLEAN :
    /\ e \/ x  \* both off at once adds nothing
    /\ admin = Nothing /\ Spend("admin", MaxAdmin)
    /\ settings' = [enabled |-> e, extraction |-> x,
                    generation |-> settings.generation + IF e # settings.enabled THEN 1 ELSE 0]
    /\ LET off == settings.enabled /\ ~e IN
       /\ admin' = [kind |-> "settings", enabled |-> e, extraction |-> x, ends |-> off]
       /\ epoch' = IF off THEN epoch + 1 ELSE epoch
    /\ UNCHANGED <<runs, progress, pending, work, accepting, pendingConsolidation, state, memory, excused, unfenced>>

ApplySettings ==
  /\ admin # Nothing /\ admin.kind = "settings" /\ admin' = Nothing
  /\ LET stop == ~admin.enabled \/ ~admin.extraction IN
     /\ pending' = IF stop THEN <<>> ELSE pending
     /\ excused' = IF stop THEN excused \union Dropped ELSE excused
     /\ work' = IF ~admin.enabled \/ (~admin.extraction /\ Item # Nothing) THEN Aborted(work) ELSE work
  /\ accepting' = (accepting \/ admin.enabled)
  /\ unfenced' = IF admin.enabled THEN unfenced ELSE {}
  /\ UNCHANGED <<runs, progress, pendingConsolidation, settings, state, memory, epoch, spent>>

\* store.updateSettings throws once settings.json is in place: the coordinator never hears of it
SettingsFail ==
  /\ admin # Nothing /\ admin.kind = "settings" /\ admin' = Nothing /\ Spend("mishaps", MaxMishaps)
  /\ unfenced' = IF admin.ends THEN unfenced \union {epoch - 1} ELSE unfenced
  /\ UNCHANGED <<runs, progress, pending, work, accepting, pendingConsolidation, settings, state,
                 memory, epoch, excused>>

\* clearManagedMemory: the work is dropped first
BeginClear ==
  /\ admin = Nothing /\ Spend("admin", MaxAdmin) /\ admin' = [kind |-> "clear"]
  /\ pending' = <<>> /\ progress' = [s \in Sessions |-> Fresh] /\ pendingConsolidation' = FALSE
  /\ work' = Aborted(work) /\ epoch' = epoch + 1 /\ excused' = excused \union Sessions
  /\ UNCHANGED <<runs, accepting, settings, state, memory, unfenced>>

\* then the worker has ended, or five seconds have passed
FinishClear ==
  /\ admin # Nothing /\ admin.kind = "clear" /\ admin' = Nothing
  /\ accepting' = TRUE /\ memory' = {} /\ state' = NoState
  /\ settings' = [settings EXCEPT !.generation = @ + 1] /\ unfenced' = {}
  /\ UNCHANGED <<runs, progress, pending, work, pendingConsolidation, epoch, excused, spent>>

\* store.clear throws: some of the topics are gone, or all of them and the states, or only the
\* index is still to be written
ClearFails ==
  /\ admin # Nothing /\ admin.kind = "clear" /\ admin' = Nothing /\ Spend("mishaps", MaxMishaps)
  /\ accepting' = TRUE /\ memory' \in SUBSET memory
  /\ state' \in {state} \union IF memory' = {} THEN {NoState} ELSE {}
  /\ settings' \in {settings} \union
       IF memory' = {} /\ state' = NoState THEN {[settings EXCEPT !.generation = @ + 1]} ELSE {}
  /\ unfenced' = IF settings' = settings THEN unfenced \union {epoch - 1} ELSE {}
  /\ UNCHANGED <<runs, progress, pending, work, pendingConsolidation, epoch, excused>>

BeginDrain ==
  /\ admin = Nothing /\ Spend("admin", MaxAdmin) /\ admin' = [kind |-> "drain"] /\ accepting' = FALSE
  /\ UNCHANGED <<runs, progress, pending, work, pendingConsolidation, settings, state, memory, epoch, excused, unfenced>>

\* the worker ends in time, or is cut short
FinishDrain ==
  /\ admin # Nothing /\ admin.kind = "drain" /\ admin' = Nothing
  /\ IF work.at = "off" THEN UNCHANGED <<pending, pendingConsolidation, work, excused>>
     ELSE /\ pending' = <<>> /\ pendingConsolidation' = FALSE /\ work' = Aborted(work)
          /\ excused' = excused \union Dropped
  /\ UNCHANGED <<runs, progress, accepting, settings, state, memory, epoch, unfenced, spent>>

\* cursors and queue are in memory; a lock stays in its file
Restart ==
  /\ Spend("mishaps", MaxMishaps)
  /\ progress' = [s \in Sessions |-> Fresh] /\ pending' = <<>> /\ work' = Off
  /\ accepting' = TRUE /\ pendingConsolidation' = FALSE /\ admin' = Nothing
  /\ excused' = Sessions /\ unfenced' = {}
  /\ UNCHANGED <<runs, settings, state, memory, epoch>>

Admin ==
  \/ AskConsolidation \/ WriteSettings \/ ApplySettings \/ SettingsFail
  \/ BeginClear \/ FinishClear \/ ClearFails \/ BeginDrain \/ FinishDrain

Work ==
  \/ LoopTurn \/ ReadSettings \/ AskSlot \/ GetSlot \/ ExtractionEnds \/ Consider \/ Lock \/ ConsolidationEnds

Next ==
  \/ \E s \in Sessions, direct \in BOOLEAN : RunCompletes(s, direct)
  \/ Work \/ AgentWrites \/ ConsolidationThrows \/ Admin \/ Restart

\* every await of the worker is answered, and a slot is given back in the end
Fairness == WF_vars(Work)

Spec == Init /\ [][Next]_vars /\ Fairness

---------------------------------------------------------------------------
(* Nothing that was queued or begun before memory was cleared or switched   *)
(* off is written after it: the work is dropped and aborted, and what an    *)
(* Agent still writes is refused by the generation (coordinator.ts:396-424; *)
(* the store of a clear is emptied last).  Not so where the store throws    *)
(* half way (store.ts:413-414, 439-453): the coordinator then drops nothing *)
(* of a switch-off that is on disk, and a clear leaves the old generation.  *)
(* Only the work of the epoch such a request meant to end is excused, until *)
(* the next clear, switch-off or restart.                                   *)
OldWorkNeverWritesBack ==
  [][\/ memory' \subseteq memory
     \/ work.started \in {epoch} \union unfenced
     \/ admin # Nothing /\ admin.kind = "clear"]_vars

\* the work of s is over: its cursor is at its last Run, or the next Run looks again at what it left
Settled(s) ==
  /\ ~Waits(s) /\ ~AtWork(s)
  /\ \/ progress[s].cursor = runs[s] \/ progress[s].retry \/ progress[s].eligible > 0
     \/ s \in excused

\* the worker has ended by an error, and what waits does not start it again
Stranded == work.at = "off" /\ (pendingConsolidation \/ (pending # <<>> /\ ~accepting))

(* A completed Run is extracted, counted towards the next extraction or     *)
(* left to the next completed Run, unless memory was cleared, switched off  *)
(* or drained meanwhile; a consolidation that was asked for is begun.  An   *)
(* error that ends the worker leaves a consolidation, and what a drain      *)
(* waits for, where it is (coordinator.ts:305-314).                         *)
WorkIsDone ==
  /\ \A s \in Sessions : Waits(s) \/ AtWork(s) ~> Settled(s) \/ Stranded
  /\ pendingConsolidation ~> ~pendingConsolidation \/ Stranded
=============================================================================
