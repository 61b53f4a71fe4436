------------------------------ MODULE RunPresentation ------------------------------
(***************************************************************************)
(* What a tab shows of a Session: the pure reducers of apps/web             *)
(* (run-presentation.ts, queue-reducer.ts) over the events of run-protocol.*)
(*                                                                         *)
(* An event is numbered within its Run.  Text is a number of pieces: a     *)
(* draft shows how many deltas of its message it was given, a call which   *)
(* of its progress reports it shows last.                                  *)
(***************************************************************************)
EXTENDS Integers, Sequences

CONSTANT None

Pending == 0     \* the Run of a message that was sent and not yet answered
Local == <<0, 0>> \* the user message a tab shows before the Session has it
Whole == 99      \* all the pieces of a committed message, or of a finished call

\* RunEventPayload: of = the message or call it is about, n = which piece of
\* it, snapshot = what run_finished carries.
Payload(kind, of, n) == [kind |-> kind, of |-> of, n |-> n, snapshot |-> None]
Finished(ok, snapshot) ==
  [kind |-> "run_finished", of |-> 0, n |-> IF ok THEN 1 ELSE 0, snapshot |-> snapshot]
Envelope(run, seq, payload) == [run |-> run, seq |-> seq, event |-> payload]

Droppable(e) == e.event.kind \in {"delta", "progress"}
Terminal(e) == e.event.kind = "run_finished"

\* Fold of a sequence from the left; TLC evaluates each step once.
FoldEvents(op(_, _), start, seq) ==
  LET f[i \in 0 .. Len(seq)] ==
        IF i = 0 THEN start ELSE CHOOSE x \in {op(before, seq[i]) : before \in {f[i - 1]}} : TRUE
  IN f[Len(seq)]

-------------------------------------------------------------------------------
(* RunPresentation *)

FreshRun(r) == [run |-> r, draft |-> None, said |-> {}, calls |-> {}, asked |-> {}]

\* interruptedSnapshot, hydrateRunPresentation.  late is history: the page began to show a
\* Run in the middle of it, counting on from the number of the Run before.
Hydrate(s) ==
  [committed |-> s.items,
   active |-> IF s.active = None THEN None ELSE FreshRun(s.active),
   status |-> s.status, last |-> 0, resync |-> FALSE, terminal |-> FALSE, erred |-> FALSE,
   late |-> FALSE]

\* beginRunPresentation
Begin(v) ==
  [v EXCEPT !.committed = @ \cup {Local}, !.active = FreshRun(Pending), !.status = "running",
            !.last = 0, !.resync = FALSE, !.terminal = FALSE, !.erred = FALSE, !.late = FALSE]

\* failRunPresentation
Fail(v) == [v EXCEPT !.status = "failed", !.erred = TRUE]

Resync(v) == [v EXCEPT !.resync = TRUE]
Drafts(v, e) == v.active.draft # None /\ v.active.draft.of = e.of
Among(s, e) == \E x \in s : x.of = e.of
Shows(s, e) == {x \in s : x.of # e.of} \cup {[of |-> e.of, n |-> e.n]}

\* applyEvent, for a view that has an active Run
ApplyEvent(v, run, e) ==
  CASE e.kind = "run_started" -> [v EXCEPT !.active.run = run, !.status = "running"]
    [] e.kind = "message_started" -> [v EXCEPT !.active.draft = [of |-> e.of, n |-> 0]]
    [] e.kind = "delta" -> IF Drafts(v, e) THEN [v EXCEPT !.active.draft.n = @ + 1] ELSE Resync(v)
    [] e.kind = "reset" -> IF Drafts(v, e) THEN [v EXCEPT !.active.draft.n = 0] ELSE Resync(v)
    [] e.kind = "committed" ->  \* with calls, or the final answer
         IF e.n > 0 THEN [v EXCEPT !.active.said = @ \cup {e.of}, !.active.draft = None]
         ELSE [v EXCEPT !.active.draft = [of |-> e.of, n |-> Whole]]
    [] e.kind = "tool_started" -> [v EXCEPT !.active.calls = Shows(@, e)]
    [] e.kind \in {"progress", "tool_finished"} ->
         IF Among(v.active.calls, e) THEN [v EXCEPT !.active.calls = Shows(@, e)] ELSE Resync(v)
    [] e.kind = "asked" -> [v EXCEPT !.active.asked = Shows(@, e), !.status = "waiting"]
    [] e.kind = "answered" ->
         IF Among(v.active.asked, e) THEN [v EXCEPT !.active.asked = Shows(@, e), !.status = "running"]
         ELSE Resync(v)
    [] e.kind = "run_finished" ->
         [v EXCEPT !.committed = e.snapshot.items, !.active = None,
                   !.status = IF e.n = 1 THEN "idle" ELSE "failed",
                   !.resync = FALSE, !.terminal = TRUE, !.erred = FALSE]
    [] e.kind = "stream_error" -> Fail([v EXCEPT !.active = None])
    [] OTHER -> v

\* A bug in reduceRunEvent: a droppable event after a gap is shown at once.
ReduceAfterGap(v, e) ==
  LET active == IF v.active = None THEN FreshRun(e.run) ELSE v.active
      base == [v EXCEPT !.active = active, !.last = e.seq]
  IN IF e.seq <= v.last /\ ~(e.event.kind = "run_started" /\ e.seq = 1 /\ v.active = None /\ v.terminal)
     THEN v
     ELSE IF active.run \notin {Pending, e.run} THEN Fail(Resync(v))
     ELSE ApplyEvent(base, e.run, e.event)

\* reduceRunEvent
Reduce(v, e) ==
  LET next == e.event.kind = "run_started" /\ e.seq = 1 /\ v.active = None /\ v.terminal
      active == IF v.active = None THEN FreshRun(e.run) ELSE v.active
      gap == e.seq # v.last + 1
      base == [v EXCEPT !.active = active, !.last = e.seq, !.resync = @ \/ gap,
                        !.late = @ \/ (v.active = None /\ v.last > 0)]
  IN IF next
     THEN [v EXCEPT !.active = FreshRun(e.run), !.status = "running", !.last = 1,
                    !.resync = FALSE, !.terminal = FALSE, !.erred = FALSE, !.late = FALSE]
     ELSE IF e.seq <= v.last THEN v
     ELSE IF active.run \notin {Pending, e.run} THEN Fail(Resync(v))
     ELSE IF gap /\ Droppable(e) THEN base
     ELSE ApplyEvent(base, e.run, e.event)

ReduceAll(v, es) == FoldEvents(Reduce, v, es)

-------------------------------------------------------------------------------
(* The queue of the tab *)

EmptyQueue == [items |-> {}, rev |-> 0, paused |-> FALSE]

\* queueReducer: what carries an older revision is ignored
QueueSnapshot(q, s) ==
  IF s.rev < q.rev THEN q ELSE [items |-> s.queue, rev |-> s.rev, paused |-> s.paused]
QueueUpsert(q, item, queued, rev) ==
  IF rev < q.rev THEN q
  ELSE [q EXCEPT !.items = (@ \ {item}) \cup (IF queued THEN {item} ELSE {}), !.rev = rev]
\* these two carry no revision
QueueRunStarted(q, source) == [q EXCEPT !.paused = FALSE, !.items = @ \ {source}]
QueuePaused(q) == [q EXCEPT !.paused = TRUE]

\* handleStreamEvent, for the queue
QueueEvent(q, e) ==
  CASE e.kind = "queue_added" -> QueueUpsert(q, e.of, TRUE, e.n)
    [] e.kind = "queue_consumed" -> QueueUpsert(q, e.of, FALSE, e.n)
    [] e.kind = "run_started" -> QueueRunStarted(q, e.of)
    [] e.kind = "chain_paused" -> QueuePaused(q)
    [] e.kind = "run_finished" -> QueueSnapshot(q, e.snapshot)
    [] OTHER -> q
===============================================================================
