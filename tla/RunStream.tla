--------------------------------- MODULE RunStream ---------------------------------
(***************************************************************************)
(* The events of a chain of Runs on their way to a tab: publication,       *)
(* replay, disconnect and completion in apps/runtime/server.ts, the replay *)
(* buffer of run-protocol, the transport of apps/web/src/api.ts, and the   *)
(* page that reduces the events and reads snapshots (conversation-page).   *)
(*                                                                         *)
(* One tab of one Session sends one message; the chain may go on with      *)
(* queued messages.  What the coordinator does between two events is in    *)
(* RunCoordinator; here it is which events it lets out and when.           *)
(***************************************************************************)
EXTENDS RunPresentation, FiniteSets

CONSTANTS Capacity,       \* events a connection queues
          Window,         \* events of a Run the replay buffer keeps
          MaxReconnects,  \* of a stream
          MaxRuns,            \* bound: Runs
          MaxConns,           \* bound: connections the server holds
          MaxItems,           \* bound: queued messages
          MaxTurns            \* bound: steps of turns, queued messages, cuts, restarts,
                              \* stops and reloads together

ASSUME StreamAssumption ==
  {Capacity, Window, MaxReconnects, MaxRuns, MaxConns} \subseteq Nat \ {0}
  /\ {MaxItems, MaxTurns} \subseteq Nat
  /\ None # "disconnect"  \* a chain that was not stopped has no reason to stop

VARIABLES
  session,  \* what the Session holds
  chain,    \* the ActiveV2Chain, open or among completedV2Chains
  run,      \* the Run the coordinator drives
  log,      \* the events published of each Run
  conns,    \* the connections of the server
  tab,      \* the stream the page reads
  view,     \* RunPresentation of the page
  queue,    \* queueState of the page
  net,      \* the snapshot query of the page
  answers,  \* answers to queue requests under way to the page
  spent     \* what has happened to the chain so far

server == <<session, chain, run, log, conns>>
page == <<tab, view, queue, net, answers>>
vars == <<server, page, spent>>

Runs == 1 .. MaxRuns
Phantom == MaxRuns + 1  \* the Run of a request that is refused

\* projectConversation
Snapshot == [items |-> session.items, active |-> session.active, status |-> session.status,
             queue |-> session.queue, rev |-> session.rev, paused |-> session.paused]

NoChain == [phase |-> "none", order |-> <<>>, started |-> {}, held |-> [r \in Runs |-> <<>>],
            timer |-> FALSE, watched |-> FALSE, stop |-> None, halted |-> FALSE]
NoRun == [id |-> 0, at |-> "over", ok |-> TRUE, m |-> 0, open |-> "none",
          source |-> 0, snapshot |-> None]
NoConn == [st |-> "closed", q |-> <<>>, once |-> FALSE]
NoStream == [mode |-> "idle", tries |-> 0, conn |-> 0, last |-> [r \in 1 .. Phantom |-> 0],
             root |-> 0, run |-> 0, held |-> <<>>, probe |-> 0, ended |-> FALSE, error |-> FALSE]

Init ==
  /\ session = [items |-> {}, active |-> None, status |-> "idle", queue |-> {}, rev |-> 1,
                paused |-> FALSE, request |-> 0, ok |-> {}]
  /\ chain = NoChain /\ run = NoRun
  /\ log = [r \in Runs |-> <<>>]
  /\ conns = [c \in 1 .. MaxConns |-> NoConn]
  /\ tab = NoStream /\ view = Hydrate(Snapshot) /\ queue = QueueSnapshot(EmptyQueue, Snapshot)
  /\ net = [cache |-> Snapshot, fetch |-> None, stale |-> FALSE, masked |-> FALSE, early |-> FALSE]
  /\ answers = {}
  /\ spent = [turns |-> 0, items |-> 0, sent |-> FALSE]

Happens == spent.turns < MaxTurns /\ spent' = [spent EXCEPT !.turns = @ + 1]

-------------------------------------------------------------------------------
(* The server publishes *)

\* write of createBoundedRunSseWriter; onOverflow makes room for nothing
FirstDroppable(q) ==
  LET ds == {i \in 1 .. Len(q) : Droppable(q[i])}
  IN IF ds = {} THEN 0 ELSE CHOOSE i \in ds : \A j \in ds : i <= j
Without(q, i) == SubSeq(q, 1, i - 1) \o SubSeq(q, i + 1, Len(q))
Overflows(q, e) == Len(q) >= Capacity /\ FirstDroppable(q) = 0 /\ ~Droppable(e)
Write(q, e) ==
  IF Len(q) < Capacity THEN Append(q, e)
  ELSE IF FirstDroppable(q) # 0 THEN Append(Without(q, FirstDroppable(q)), e)
  ELSE q

\* the chain's subscribers; a connection the client left counts until noticed,
\* and what is written to it is gone
Subscribed(c) == conns[c].st # "closed" /\ ~conns[c].once /\ chain.phase = "open"
Subscribers == {c \in DOMAIN conns : Subscribed(c)}
Reading == {c \in Subscribers : conns[c].st = "open"}

\* what a stop asks of a chain that was not stopped before
Stopped(ch, reason) == IF ch.phase = "open" /\ ch.stop = None THEN [ch EXCEPT !.stop = reason] ELSE ch

\* a connection that must take an event and cannot
Overflown(ch) == Stopped(ch, "failure")

\* publishV2Payload, and what it does to the chain ch
Published(st, r, payload) ==
  LET e == Envelope(r, Len(st.log[r]) + 1, payload)
      full == \E c \in Reading : Overflows(st.conns[c].q, e)
  IN [log |-> [st.log EXCEPT ![r] = Append(@, e)],
      conns |-> [c \in DOMAIN conns |->
                   IF c \in Reading THEN [st.conns[c] EXCEPT !.q = Write(@, e)] ELSE st.conns[c]],
      chain |-> IF full THEN Overflown(st.chain) ELSE st.chain]

PublishSeq(st, r, payloads) == FoldEvents(LAMBDA s, payload : Published(s, r, payload), st, payloads)
PublishAll(ch, r, payloads) ==
  \E done \in {PublishSeq([log |-> log, conns |-> conns, chain |-> ch], r, payloads)} :
    log' = done.log /\ conns' = done.conns /\ chain' = done.chain

\* coordinatorEventToV2: an event of a Run whose run_started is not out waits
Current(ch) == ch.order[Len(ch.order)]
CoordinatorEvents(ch, payloads) ==
  LET r == Current(ch) IN
  IF r \in ch.started THEN PublishAll(ch, r, payloads)
  ELSE chain' = [ch EXCEPT !.held[r] = @ \o payloads] /\ UNCHANGED <<log, conns>>

-------------------------------------------------------------------------------
(* The Run lets out its events *)

Driven == run.at # "over"

\* The Run begins in the Session unless its claim began it; run_started is out
\* and lets out what waited for it (publishActiveV2).
RunStarts ==
  /\ run.at \in {"registered", "claimed"}
  /\ run' = [run EXCEPT !.at = "live"]
  /\ session' = IF run.at = "claimed" THEN session
                ELSE [session EXCEPT !.items = @ \cup {<<run.id, 0>>}, !.active = run.id,
                                     !.status = "running", !.rev = @ + 1, !.request = run.id]
  /\ PublishAll([chain EXCEPT !.started = @ \cup {run.id}, !.held[run.id] = <<>>], run.id,
                <<Payload("run_started", run.source, 0)>> \o chain.held[run.id])
  /\ UNCHANGED <<page, spent>>

\* The events of a turn, in the order RunEventSequenceValidator accepts.
TurnEvents ==
  LET m == IF run.open = "none" THEN run.m + 1 ELSE run.m
      p(kind, n) == Payload(kind, m, n)
  IN
  CASE run.open = "none" -> {[es |-> <<p("message_started", 0), p("delta", 0)>>, to |-> "said"],
                             [es |-> <<p("message_started", 0), p("committed", 1),
                                       p("tool_started", 0)>>, to |-> "call"]}
    [] run.open = "said" -> {[es |-> <<p("reset", 0), p("delta", 0)>>, to |-> "said"],
                             [es |-> <<p("committed", 0)>>, to |-> "final"]}
    [] run.open = "call" -> {[es |-> <<p("progress", spent.turns)>>, to |-> "call"],
                             [es |-> <<p("asked", 0), p("answered", 1)>>, to |-> "call"],
                             [es |-> <<p("tool_finished", Whole)>>, to |-> "none"]}
    [] OTHER -> {}

Step ==
  /\ run.at = "live" /\ Happens
  /\ \E turn \in TurnEvents :
       /\ run' = [run EXCEPT !.m = turn.es[1].of, !.open = turn.to]
       /\ session' = [session EXCEPT !.items = @ \cup
            {<<run.id, turn.es[i].of>> : i \in {i \in DOMAIN turn.es : turn.es[i].kind = "committed"}}]
       /\ PublishAll(chain, run.id, turn.es)
  /\ UNCHANGED page

\* finishRun; a Run that failed pauses the queue first (beforeFinish).
FinishRun ==
  /\ run.at = "live"
  /\ \E ok \in IF chain.stop = None THEN BOOLEAN ELSE {FALSE} :
       LET pauses == ~ok /\ chain.stop = None /\ session.queue # {}
           done == [session EXCEPT !.active = None, !.rev = @ + 1,
                                   !.status = IF ok \/ chain.stop # None THEN "idle" ELSE "failed",
                                   !.paused = @ \/ pauses,
                                   !.ok = IF ok THEN @ \cup {run.id} ELSE @]
       IN /\ session' = done
          /\ run' = [run EXCEPT !.at = "committed", !.ok = ok,
                                !.snapshot = [items |-> done.items, active |-> None,
                                              status |-> done.status, queue |-> done.queue,
                                              rev |-> done.rev, paused |-> done.paused]]
          /\ PublishAll(chain, run.id, IF pauses THEN <<Payload("chain_paused", 0, 0)>> ELSE <<>>)
  /\ UNCHANGED <<page, spent>>

PublishFinished ==
  /\ run.at = "committed"
  /\ run' = [run EXCEPT !.at = "published"]
  /\ PublishAll(chain, run.id, <<Finished(run.ok, run.snapshot)>>)
  /\ UNCHANGED <<session, page, spent>>

\* The handle goes; until then, queue events go out on the Run it drove.  The
\* next Run of the chain answers a queued message.
NextRun ==
  /\ run.at = "published" /\ chain.phase = "open" /\ run.ok /\ chain.stop = None
  /\ run.id < MaxRuns
  /\ \E item \in session.queue :
       LET next == run.id + 1 IN
       /\ session' = [session EXCEPT !.queue = @ \ {item}, !.items = @ \cup {<<next, 0>>},
                                     !.active = next, !.status = "running", !.rev = @ + 1]
       /\ run' = [NoRun EXCEPT !.id = next, !.at = "claimed", !.source = item]
       /\ CoordinatorEvents([chain EXCEPT !.order = Append(@, next)],
                            <<Payload("queue_consumed", item, session.rev + 1),
                              Payload("user_committed", item, 0)>>)
  /\ UNCHANGED <<page, spent>>

\* completeV2Chain
Completed(ch) == [ch EXCEPT !.phase = "finished", !.timer = FALSE]
EndChain ==
  /\ run.at = "published" /\ chain.phase = "open"
  /\ chain.stop = None \/ chain.halted
  /\ ~run.ok \/ chain.stop # None \/ session.queue = {} \/ run.id = MaxRuns
  /\ chain' = Completed(chain) /\ run' = [run EXCEPT !.at = "over"]
  /\ UNCHANGED <<session, log, conns, page, spent>>

\* start rejects before the Run has begun.
ChainFails ==
  /\ run.at = "registered"
  /\ run' = [run EXCEPT !.at = "over"]
  /\ LET st == Published(Published([log |-> log, conns |-> conns, chain |-> chain], run.id,
                                   Payload("run_started", 0, 0)), run.id, Payload("stream_error", 0, 0))
     IN log' = st.log /\ conns' = st.conns /\ chain' = Completed(st.chain)
  /\ UNCHANGED <<session, page, spent>>

\* The coordinator takes a stop in: waiting messages are paused.
Halt ==
  /\ chain.phase = "open" /\ chain.stop # None /\ ~chain.halted
  /\ LET pauses == session.queue # {} IN
     /\ session' = IF pauses THEN [session EXCEPT !.paused = TRUE, !.rev = @ + 1] ELSE session
     /\ CoordinatorEvents([chain EXCEPT !.halted = TRUE],
                          IF pauses THEN <<Payload("chain_paused", 0, 0)>> ELSE <<>>)
  /\ UNCHANGED <<run, page, spent>>

\* submitDuringRun, from this page: the event of the message and the answer to
\* its request come on two ways.
Enqueue ==
  /\ spent.items < MaxItems /\ spent.turns < MaxTurns
  /\ Driven /\ view.active # None
  /\ LET item == spent.items + 1
         rev == session.rev + 1
     IN /\ spent' = [spent EXCEPT !.items = item, !.turns = @ + 1]
        /\ session' = [session EXCEPT !.queue = @ \cup {item}, !.rev = rev]
        /\ CoordinatorEvents(chain, <<Payload("queue_added", item, rev)>>)
        /\ answers' = answers \cup {[item |-> item, rev |-> rev]}
  /\ UNCHANGED <<run, tab, view, queue, net>>

\* The process dies; the next one recovers the Session when it is first read.
Restart ==
  /\ Happens /\ chain.phase # "none"
  /\ chain' = NoChain /\ conns' = [c \in DOMAIN conns |-> NoConn]
  /\ run' = [run EXCEPT !.at = "over", !.ok = FALSE]
  /\ session' = IF session.active = None THEN session
                ELSE [session EXCEPT !.active = None, !.status = "failed", !.rev = @ + 1,
                                     !.paused = @ \/ session.queue # {}]
  /\ UNCHANGED <<log, tab, view, queue, net, answers>>

-------------------------------------------------------------------------------
(* Connections, and the grace of a chain nobody watches *)

\* RunReplayBuffer.read of what this process published
Replay(r, afterSeq) ==
  LET first == IF Len(log[r]) > Window THEN Len(log[r]) - Window + 1 ELSE 1
      from == IF afterSeq + 1 > first THEN afterSeq + 1 ELSE first
  IN SubSeq(log[r], from, Len(log[r]))

Free == {c \in DOMAIN conns : conns[c].st = "closed"}
Connect(c, conn) == /\ conns' = [conns EXCEPT ![c] = conn]
                    /\ tab' = [tab EXCEPT !.conn = c]

\* A bug in attachActiveV2Run: the grace of the last disconnect runs on.
AttachInGrace(c, r, afterSeq) ==
  /\ Connect(c, [st |-> "open", q |-> Replay(r, afterSeq), once |-> FALSE])
  /\ chain' = [chain EXCEPT !.watched = TRUE]

\* the replays of a chain's Runs, and what a new connection takes of them
Replays(runs, r, afterSeq) ==
  FoldEvents(LAMBDA es, n : es \o Replay(n, IF n = r THEN afterSeq ELSE 0), <<>>, runs)
WriteAll(events) ==
  FoldEvents(LAMBDA s, e : [q |-> Write(s.q, e), full |-> s.full \/ Overflows(s.q, e)],
             [q |-> <<>>, full |-> FALSE], events)

\* attachActiveV2Run: the replay is written at once, before the socket takes any.
Attach(c, r, afterSeq) ==
  LET start == CHOOSE i \in 1 .. Len(chain.order) : chain.order[i] = r
      runs == SubSeq(chain.order, start, Len(chain.order))
      sent == WriteAll(Replays(runs, r, afterSeq))
      seen == [chain EXCEPT !.timer = FALSE, !.watched = TRUE]
  IN /\ Connect(c, [st |-> "open", q |-> sent.q, once |-> FALSE])
     /\ chain' = IF sent.full THEN Overflown(seen) ELSE seen

\* writeCompletedV2Replay without a replay: from the report of the Run
Reconstructed(r, afterSeq) ==
  (IF afterSeq = 0 THEN <<Envelope(r, 1, Payload("run_started", 0, 0))>> ELSE <<>>)
  \o <<Envelope(r, IF afterSeq < 1 THEN 2 ELSE afterSeq + 1, Finished(r \in session.ok, Snapshot))>>
Once(q) == [st |-> "open", q |-> q, once |-> TRUE]

Posting == tab.mode = "post" /\ tab.conn = 0
RootSeq == IF tab.root = 0 THEN 0 ELSE tab.last[tab.root]

\* POST of a request the Session knows
PostAgain ==
  /\ Posting /\ session.request # 0
  /\ \E c \in Free :
       IF chain.phase # "none" THEN Attach(c, session.request, RootSeq)
       ELSE Connect(c, Once(Reconstructed(session.request, RootSeq))) /\ UNCHANGED chain
  /\ UNCHANGED <<session, run, log, view, queue, net, answers, spent>>

\* POST of a request the Session does not know: a new chain, which start
\* refuses if the first chain of the request still is about to begin.
PostFirst ==
  /\ Posting /\ session.request = 0
  /\ \E c \in Free :
       IF chain.phase = "open"
       THEN /\ Connect(c, Once(<<Envelope(Phantom, 1, Payload("run_started", 0, 0)),
                                 Envelope(Phantom, 2, Payload("stream_error", 0, 0))>>))
            /\ UNCHANGED <<chain, run>>
       ELSE /\ run.id < MaxRuns
            /\ run' = [NoRun EXCEPT !.id = run.id + 1, !.at = "registered"]
            /\ chain' = [NoChain EXCEPT !.phase = "open", !.order = <<run.id + 1>>, !.watched = TRUE]
            /\ Connect(c, [st |-> "open", q |-> <<>>, once |-> FALSE])
  /\ UNCHANGED <<session, log, view, queue, net, answers, spent>>

\* activeV2Runs, and completedV2Chains by the first Run of a chain
Known(r) ==
  \/ chain.phase = "open" /\ \E i \in 1 .. Len(chain.order) : chain.order[i] = r
  \/ chain.phase = "finished" /\ chain.order[1] = r
GetArrives ==
  /\ tab.mode = "get" /\ tab.conn = 0 /\ Known(tab.root)
  /\ \E c \in Free : Attach(c, tab.root, tab.last[tab.root])
  /\ UNCHANGED <<session, run, log, view, queue, net, answers, spent>>

\* The server notices that the client is gone (scheduleV2Disconnect).
Notice(c) ==
  /\ conns[c].st = "left"
  /\ conns' = [conns EXCEPT ![c] = NoConn]
  /\ chain' = IF chain.phase = "open" /\ ~conns[c].once /\ Subscribers = {c} /\ ~chain.timer
              THEN [chain EXCEPT !.timer = TRUE, !.watched = FALSE] ELSE chain
  /\ UNCHANGED <<session, run, log, page, spent>>

\* V2_RECONNECT_GRACE_MS has passed.
GraceEnds ==
  /\ chain.timer
  /\ chain' = IF Subscribers = {} THEN Stopped([chain EXCEPT !.timer = FALSE], "disconnect")
              ELSE [chain EXCEPT !.timer = FALSE]
  /\ UNCHANGED <<session, run, log, conns, page, spent>>

-------------------------------------------------------------------------------
(* The page reads its stream *)

\* handleStreamEvent
Handle(e) ==
  /\ queue' = QueueEvent(queue, e.event)
  /\ net' = IF Terminal(e) THEN [net EXCEPT !.cache = e.event.snapshot, 
                                           !.masked = view'.committed # e.event.snapshot.items]
             ELSE net

Arrived(e, ended) == [tab EXCEPT !.last[e.run] = e.seq, !.run = e.run, !.ended = ended,
                                 !.error = @ \/ e.event.kind = "stream_error"]

\* deliver: what has a number already seen is skipped; while it posts, the page
\* holds droppable events for a while.
Deliver ==
  /\ tab.conn # 0 /\ conns[tab.conn].q # <<>>
  /\ conns' = [conns EXCEPT ![tab.conn].q = Tail(@)]
  /\ LET e == Head(conns[tab.conn].q)
         posts == tab.mode = "post"
     IN IF e.seq <= tab.last[e.run] THEN UNCHANGED page
        ELSE IF posts /\ Droppable(e)
        THEN /\ tab' = [Arrived(e, FALSE) EXCEPT !.root = IF @ = 0 THEN e.run ELSE @,
                                                 !.held = Append(@, e)]
             /\ UNCHANGED <<view, queue, net, answers>>
        ELSE /\ tab' = [Arrived(e, Terminal(e) \/ (~posts /\ e.event.kind = "stream_error"))
                          EXCEPT !.root = IF @ = 0 THEN e.run ELSE @, !.held = <<>>]
             /\ view' = Reduce(ReduceAll(view, tab.held), e)
             /\ Handle(e)
             /\ UNCHANGED answers
  /\ UNCHANGED <<session, chain, run, log, spent>>

\* the 32 ms of held events are over
FlushHeld ==
  /\ tab.held # <<>>
  /\ view' = ReduceAll(view, tab.held) /\ tab' = [tab EXCEPT !.held = <<>>]
  /\ UNCHANGED <<server, queue, net, answers, spent>>

\* A bug in the finally of submit and the GET effect: the Session is not read again.
SettleUnread(failed) ==
  /\ tab' = NoStream /\ view' = ReduceAll(view, tab.held)
  /\ UNCHANGED <<queue, net, answers>>

\* The stream is over for the page: it reads the Session again.
Settle(failed) ==
  /\ tab' = NoStream
  /\ view' = IF failed /\ tab.mode = "post" THEN Fail(ReduceAll(view, tab.held))
             ELSE ReduceAll(view, tab.held)
  /\ net' = [net EXCEPT !.stale = TRUE, !.fetch = None]
  /\ UNCHANGED <<queue, answers>>

\* the loop of streamConversation and streamExistingConversationRun goes round
Retry(probe) ==
  IF tab.tries = MaxReconnects THEN Settle(TRUE)
  ELSE /\ tab' = [tab EXCEPT !.tries = @ + 1, !.conn = 0, !.held = <<>>, !.probe = probe,
                             !.ended = @ /\ tab.mode = "post"]
       /\ view' = ReduceAll(view, tab.held)
       /\ UNCHANGED <<queue, net, answers>>

\* The server has written everything and ended the response.
StreamDone ==
  /\ tab.conn # 0 /\ conns[tab.conn].st = "open" /\ conns[tab.conn].q = <<>>
  /\ conns[tab.conn].once \/ chain.phase = "finished"
  /\ conns' = [conns EXCEPT ![tab.conn] = NoConn]
  /\ IF tab.error /\ tab.mode = "post" THEN Settle(FALSE)
     ELSE IF tab.ended /\ (tab.mode = "get" \/ tab.probe = tab.run) THEN Settle(FALSE)
     ELSE Retry(IF tab.ended THEN tab.run ELSE tab.probe)
  /\ UNCHANGED <<session, chain, run, log, spent>>

\* The connection breaks, and what was on its way is lost.
Cut ==
  /\ tab.conn # 0
  /\ \/ conns[tab.conn].st = "closed" /\ UNCHANGED <<conns, spent>>
     \/ /\ conns[tab.conn].st = "open" /\ Happens
        /\ conns' = [conns EXCEPT ![tab.conn].st = "left", ![tab.conn].q = <<>>]
  /\ Retry(tab.probe)
  /\ UNCHANGED <<session, chain, run, log>>

\* A request that gets no stream: the network, a status that is not 200, or a
\* Run the server does not know (any more).
Refused ==
  /\ tab.mode # "idle" /\ tab.conn = 0
  /\ \/ Happens
     \/ /\ \/ tab.mode = "get" /\ ~Known(tab.root)
           \/ tab.mode = "post" /\ session.request = 0 /\ chain.phase # "open" /\ run.id = MaxRuns
        /\ UNCHANGED spent
  /\ Retry(tab.probe)
  /\ UNCHANGED server

\* submit, when no Run is shown
Send ==
  /\ tab.mode = "idle" /\ ~spent.sent
  /\ view.active = None /\ net.cache # None /\ net.cache.active = None
  /\ spent' = [spent EXCEPT !.sent = TRUE]
  /\ view' = Begin(view) /\ tab' = [NoStream EXCEPT !.mode = "post"]
  /\ UNCHANGED <<server, queue, net, answers>>

Leave == conns' = IF tab.conn = 0 THEN conns
                  ELSE [conns EXCEPT ![tab.conn].st = IF @ = "open" THEN "left" ELSE @,
                                     ![tab.conn].q = <<>>]

\* stop: the page aborts its stream and asks the server to stop the Session.
UserStops ==
  /\ Happens
  /\ view.active # None
  /\ Leave /\ Settle(FALSE)
  /\ chain' = Stopped(chain, "user_stop")
  /\ UNCHANGED <<session, run, log>>

\* The page is loaded anew.
Reload ==
  /\ Happens
  /\ Leave /\ tab' = NoStream /\ answers' = {}
  /\ view' = Hydrate([items |-> {}, active |-> None, status |-> "idle"])
  /\ queue' = EmptyQueue
  /\ net' = [cache |-> None, fetch |-> None, stale |-> TRUE, masked |-> FALSE, early |-> FALSE]
  /\ UNCHANGED <<session, chain, run, log>>

\* the answer to a queued message (applyQueueOutcome)
AnswerArrives ==
  /\ \E a \in answers :
       /\ queue' = QueueUpsert(queue, a.item, TRUE, a.rev)
       /\ answers' = answers \ {a}
  /\ UNCHANGED <<server, tab, view, net, spent>>

-------------------------------------------------------------------------------
(* The page reads snapshots *)

\* While the last snapshot shows a Run, the page polls.
FetchReads ==
  /\ net.fetch = None
  /\ net.stale \/ (net.cache # None /\ net.cache.active # None)
  /\ net' = [net EXCEPT !.fetch = Snapshot, !.stale = FALSE,
                          !.early = session.active = None /\ Driven]
  /\ UNCHANGED <<server, tab, view, queue, answers, spent>>

\* streamExistingConversationRun begins
Attached(r) == [NoStream EXCEPT !.mode = "get", !.root = r]

\* Only a snapshot that differs from the last one is seen, and it is shown
\* only while no stream is read; a Run it shows for the first time is attached.
FetchArrives ==
  /\ net.fetch # None
  /\ LET s == net.fetch
         was == IF net.cache = None THEN None ELSE net.cache.active
         shown == tab.mode = "idle" /\ s # net.cache
     IN /\ net' = [net EXCEPT !.fetch = None, !.cache = s,
                              !.masked = IF shown THEN FALSE ELSE @ \/ s # net.cache]
        /\ IF ~shown THEN UNCHANGED <<tab, view, queue>>
           ELSE /\ view' = Hydrate(s) /\ queue' = QueueSnapshot(queue, s)
                /\ tab' = IF s.active \in {None, was} THEN tab ELSE Attached(s.active)
  /\ UNCHANGED <<server, answers, spent>>

-------------------------------------------------------------------------------
RunGoesOn == \/ RunStarts \/ Step \/ FinishRun \/ PublishFinished
             \/ NextRun \/ EndChain \/ ChainFails \/ Halt
Served == PostAgain \/ PostFirst \/ GetArrives
StreamGoesOn == Deliver \/ FlushHeld \/ StreamDone \/ Cut \/ Refused
Watch == GraceEnds \/ \E c \in DOMAIN conns : Notice(c)

Next == \/ RunGoesOn \/ Served \/ StreamGoesOn \/ Watch
        \/ Enqueue \/ Restart \/ Send \/ UserStops \/ Reload
        \/ AnswerArrives \/ FetchReads \/ FetchArrives

\* The server's tasks, its timers, the client's loop and its query go on.
Spec == /\ Init /\ [][Next]_vars
        /\ WF_vars(RunGoesOn) /\ WF_vars(Watch) /\ WF_vars(Served \/ StreamGoesOn)
        /\ WF_vars(AnswerArrives) /\ WF_vars(FetchReads \/ FetchArrives)

-------------------------------------------------------------------------------
\* What a page that was given the first n events of a Run would show of it.
Shown(r, n) == ReduceAll([Hydrate(Snapshot) EXCEPT !.active = FreshRun(r), !.last = 0],
                         SubSeq(log[r], 1, n))

\* What a page shows of a live Run is what the Run has let out up to the event
\* the page stands at, or the page knows that it misses something or shows an error: a replay, a
\* reconnect, a full connection or an event out of turn never leaves a draft or
\* a call that looks whole and is not (reduceRunEvent, streamConversation).  Left
\* out is a page that lost the beginning of a second Run: it still counts from the
\* last number of the Run before, so up to that number events are dropped as seen
\* and the next one is no gap (run-presentation.ts:443,459).
ShownIsTrue ==
  (view.active # None /\ view.active.run \in Runs /\ view.last > 0
   /\ ~view.resync /\ ~view.erred /\ ~view.late) =>
    view.active = Shown(view.active.run, view.last).active

\* A Run is stopped for a disconnect only after a grace in which nobody came
\* back: a client that reconnects has a whole grace when it goes again
\* (scheduleV2Disconnect, attachActiveV2Run).
GraceIsWhole ==
  [][(chain'.stop = "disconnect" /\ chain.stop = None) => ~chain.watched]_vars

Settled ==
  /\ tab.mode = "idle" /\ view.committed \ {Local} = session.items
  /\ view.active = None \/ (view.active.run = Pending /\ view.status = "failed")
  /\ queue.items = session.queue
\* Whatever breaks on the way, the page ends up showing the Session: no Run that
\* is over, every message, the queue (the loops of api.ts, the query of
\* conversation-page.tsx).  Left out is a page that cannot know better: the last
\* snapshot it got was not shown (it arrived while a stream was read, or with a
\* run_finished whose number had been seen), or was taken before the Run began,
\* or its request never became a Run.
PageSettles == <>[](Settled \/ net.masked \/ net.early \/ session.request = 0)
===============================================================================
